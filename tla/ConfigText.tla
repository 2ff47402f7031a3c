----------------------------- MODULE ConfigText -----------------------------
(***************************************************************************)
(* What the parsers of both vendors share (parsers/base.py, local_users.py): *)
(* a text is a sequence of lines, a line a sequence of words, and reading   *)
(* it fills a list of objects, each with the lines that it stands on, and a *)
(* list of the lines that were not understood.                             *)
(*                                                                         *)
(* Words are opaque.  The constants say which of them are numbers and      *)
(* addresses, and what each is rewritten to; letter case, quotes and white *)
(* space are left out.                                                     *)
(***************************************************************************)
EXTENDS Naturals, SequencesExt

CONSTANTS
  None,
  Number,      \* the value of every word that is a number
  Digital,     \* the other words that begin with a digit
  Address,     \* <<family, normal form>> of every word that is an address
  Network,     \* <<family, normal form>> of every <<prefix>> and <<address, mask>>
  Interface,   \* the normal form of each of these that keeps the address
  Area,        \* the normal form of every OSPF area
  Malformed,   \* a word that no account and no route map may be named
  MaxAsn       \* 4,294,967,295

IsNumber(w) == w \in DOMAIN Number
Starts(p, w) == IsPrefix(p, w)
From(w, i) == SubSeq(w, i, Len(w))

ValidVlan(w) == IsNumber(w) /\ Number[w] \in 1 .. 4094
ValidAsn(w) == IsNumber(w) /\ Number[w] \in 1 .. MaxAsn
BeginsWithDigit(w) == IsNumber(w) \/ w \in Digital
IsAddress(w) == w \in DOMAIN Address
AddressIn(family, w) == IsAddress(w) /\ Address[w][1] = family
Canonical(w) == Address[w][2]
IsNetwork(ws) == ws \in DOMAIN Network
InFamily(family, ws) == IsNetwork(ws) /\ Network[ws][1] = family

-----------------------------------------------------------------------------
(* Objects.  A setting remembers the lines that made it, an item its line,   *)
(* and `source` lists the lines about an object that may have to be given up. *)

Object(kind, key, n) ==
  [kind |-> kind, key |-> key, at |-> {n}, settings |-> <<>>, items |-> <<>>, source |-> <<>>]

Nothing ==
  [objects |-> <<[Object("system", <<>>, 0) EXCEPT !.at = {}]>>, current |-> 0,
   unparsed |-> <<>>, warned |-> FALSE]

Place(st, kind, key) == SelectLastInSeq(st.objects, LAMBDA o : o.kind = kind /\ o.key = key)
Create(st, kind, key, n) == [st EXCEPT !.objects = Append(@, Object(kind, key, n))]
Ensure(st, kind, key, n) ==
  IF Place(st, kind, key) # 0 THEN st ELSE Create(st, kind, key, n)
AtKey(st, kind, key, n) == Place(Ensure(st, kind, key, n), kind, key)

Get(o, field) == IF field \in DOMAIN o.settings THEN o.settings[field][1] ELSE None
Lines(o, field) == IF field \in DOMAIN o.settings THEN o.settings[field][2] ELSE {}

\* A setting is the last one, on the ground of all lines or of the last alone.
Put(st, i, field, value, n) ==
  [st EXCEPT !.objects[i].settings =
     (field :> <<value, {n} \cup Lines(st.objects[i], field)>>) @@ @]
PutAlone(st, i, field, value, n) ==
  [st EXCEPT !.objects[i].settings = (field :> <<value, {n}>>) @@ @]
Also(st, i, value, n) == [st EXCEPT !.objects[i].items = Append(@, <<value, n>>)]
Trace(st, i, n) == [st EXCEPT !.objects[i].source = Append(@, n)]

PutIn(st, kind, key, field, value, n) ==
  Put(Ensure(st, kind, key, n), AtKey(st, kind, key, n), field, value, n)
AlsoIn(st, kind, key, value, n) == Also(Ensure(st, kind, key, n), AtKey(st, kind, key, n), value, n)

AddOnce(s, x) == IF s = None THEN <<x>> ELSE IF Contains(s, x) THEN s ELSE Append(s, x)
System(st, field, value, n) == Put(st, 1, field, value, n)
Listed(st, field, value, n) == System(st, field, AddOnce(Get(st.objects[1], field), value), n)
Versions(st, versions, n) ==
  System(st, "snmp",
         IF Get(st.objects[1], "snmp") = None THEN versions ELSE Get(st.objects[1], "snmp") \cup versions, n)

Doubt(st) == [st EXCEPT !.warned = TRUE]
Refuse(st, n) == [st EXCEPT !.unparsed = Append(@, n)]
Reject(st, n) == Refuse(Doubt(st), n)

\* Settings whose value has to be one.
PutValid(valid, st, i, field, value, n) == IF valid THEN Put(st, i, field, value, n) ELSE Reject(st, n)
PutAsn(st, i, field, w, n) == PutValid(ValidAsn(w), st, i, field, Number[w], n)
PutRouterId(st, i, w, n) == PutValid(AddressIn("ipv4", w), st, i, "router_id", Canonical(w), n)

\* Lines that turn out late not to be understood are listed once.
GiveUp(st, source) ==
  [st EXCEPT !.unparsed = FoldLeft(LAMBDA seen, n : IF Contains(seen, n) THEN seen ELSE Append(seen, n), @, source)]

Provenance(o) ==
  o.at \cup UNION {o.settings[f][2] : f \in DOMAIN o.settings} \cup {o.items[i][2] : i \in DOMAIN o.items}

-----------------------------------------------------------------------------
(* Accounts of the device.  How an account authenticates is known by kind,   *)
(* never by its credential.                                                *)

ValidName(u) == u # Malformed

\* Cisco: what follows the name and the privilege; <<>> is no authentication, None a refusal.
Encodings(kind) == IF kind = "password" THEN {"0", "7"} ELSE {"0", "4", "5", "8", "9"}
CiscoAuthentication(w) ==
  CASE w = <<>> -> <<>>
    [] w = <<"nopassword">> -> <<"none", None>>
    [] Len(w) = 2 /\ w[1] \in {"password", "secret"} /\ w[2] \notin {"0", "4", "5", "7", "8", "9"} ->
         <<w[1], "unspecified">>
    [] Len(w) = 3 /\ w[1] \in {"password", "secret"} /\ w[2] \in Encodings(w[1]) -> <<w[1], w[2]>>
    [] OTHER -> None

CiscoPrivilege(w) ==
  IF Len(w) < 3 \/ w[3] # "privilege" THEN None
  ELSE IF Len(w) > 3 /\ IsNumber(w[4]) /\ Number[w[4]] <= 15 THEN Number[w[4]] ELSE 16

EnsureUser(st, u, n) == PutIn(st, "user", <<u>>, "name", u, n)

\* "none" stands alone: it removes every credential, and a credential removes it.
Without(st, i, kinds) ==
  [st EXCEPT !.objects[i].settings = [f \in DOMAIN @ \ kinds |-> @[f]]]
Authenticate(st, i, auth, n) ==
  IF auth = <<>> THEN st
  ELSE PutAlone(Without(st, i, IF auth[1] = "none" THEN {"password", "secret"} ELSE {"none"}),
                i, auth[1], auth[2], n)
Privilege(st, i, privilege, n) ==
  IF privilege = None THEN st ELSE PutAlone(st, i, "privilege", privilege, n)

Grant(st, i, privilege, auth, n) == Authenticate(Privilege(st, i, privilege, n), i, auth, n)
SetUser(st, u, privilege, auth, n) ==
  IF auth = None \/ privilege = 16 \/ (privilege = None /\ auth = <<>>) THEN Reject(st, n)
  ELSE Grant(EnsureUser(st, u, n), Place(EnsureUser(st, u, n), "user", <<u>>), privilege, auth, n)

RemoveUser(st, u) ==
  [st EXCEPT !.objects = SelectSeq(@, LAMBDA o : o.kind # "user" \/ o.key # <<u>>)]

CiscoUser(st, w, n) ==
  CASE Starts(<<"no">>, w) /\ Len(w) = 3 /\ ValidName(w[3]) -> RemoveUser(st, w[3])
    [] Starts(<<"username">>, w) /\ Len(w) > 2 /\ ValidName(w[2]) ->
         SetUser(st, w[2], CiscoPrivilege(w),
                 CiscoAuthentication(From(w, IF w[3] = "privilege" THEN 5 ELSE 3)), n)
    [] OTHER -> Reject(st, n)

\* JunOS: one option of an account, or None.
JunosOption(w) ==
  CASE Len(w) = 2 /\ w[1] = "class" /\ ValidName(w[2]) -> <<"class", w[2]>>
    [] Len(w) = 2 /\ w[1] = "uid" /\ IsNumber(w[2]) /\ Number[w[2]] \in 100 .. 64000 -> <<"uid", Number[w[2]]>>
    [] Len(w) = 3 /\ Starts(<<"authentication", "encrypted-password">>, w) -> <<"secret", "encrypted">>
    [] Len(w) = 3 /\ w[1] = "authentication" /\ w[2] \in {"ssh-rsa", "ssh-ecdsa", "ssh-ed25519"} ->
         <<w[2], "ssh_public_key">>
    [] OTHER -> None

JunosUser(st, u, w, n) ==
  IF ~ValidName(u) \/ JunosOption(w) = None THEN Refuse(st, n)
  ELSE PutAlone(EnsureUser(st, u, n), Place(EnsureUser(st, u, n), "user", <<u>>),
                JunosOption(w)[1], JunosOption(w)[2], n)

=============================================================================
