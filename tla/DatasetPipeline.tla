---------------------------- MODULE DatasetPipeline ----------------------------
(***************************************************************************)
(* From imported configurations to a corpus that can be trained on:        *)
(* duplicates are collapsed (ml/datasets/deduplication.py), what is left   *)
(* is split by entity and time (splitting.py), and the result is judged    *)
(* (quality.py).                                                           *)
(*                                                                         *)
(* recs is the sequence of the imported records, in the order of import:   *)
(*   key       their place in the order of (source_id, record_id)          *)
(*   source, network, site, device, role, at                               *)
(*   raw, text their hashes; text \in DOMAIN Texts stands for the          *)
(*             sanitized text, with its normalized form, its template, its *)
(*             tokens and its MinHash signature, one part per LSH band     *)
(*   scan      what the scan of the sanitized text reports                 *)
(* Union-find is modelled by the partition it stands for.                  *)
(***************************************************************************)
EXTENDS Integers, Sequences, FiniteSets, SequencesExt, FiniteSetsExt

CONSTANTS
  Texts,      \* the sanitized texts: [norm, template, tokens, bands]
  Threshold,  \* near_duplicate_threshold, in hundredths
  MinTokens,  \* minimum_tokens_for_near_match
  Window      \* max_candidates_per_bucket

-----------------------------------------------------------------------------
(* Partitions of the records, as sets of blocks.                            *)

Block(blocks, i) == CHOOSE b \in blocks : i \in b
Joined(blocks, i, j) == Block(blocks, i) = Block(blocks, j)
Join(blocks, i, j) ==
  (blocks \ {Block(blocks, i), Block(blocks, j)})
    \cup {Block(blocks, i) \cup Block(blocks, j)}
Singletons(recs) == {{i} : i \in DOMAIN recs}

ByKey(recs, set) == SetToSortSeq(set, LAMBDA i, j : recs[i].key < recs[j].key)

-----------------------------------------------------------------------------
(* Deduplication.                                                           *)

Attribute(r, method) ==
  CASE method = "raw" -> r.raw
    [] method = "sanitized" -> r.text
    [] method = "normalized" -> Texts[r.text].norm

\* An edge is kept when it joins two clusters: the edges are spanning trees.
Link(state, edge) ==
  IF Joined(state.blocks, edge.left, edge.right) THEN state
  ELSE [blocks |-> Join(state.blocks, edge.left, edge.right),
        edges |-> state.edges \cup {edge}]

\* _connect_exact_groups: every record of a bucket with the first.
ConnectBucket(state, bucket, method) ==
  FoldLeft(LAMBDA st, m : Link(st, [left |-> bucket[1], right |-> m,
                                    method |-> method, similarity |-> 840]),
           state, Tail(bucket))

ConnectExact(state, recs, method) ==
  FoldSet(LAMBDA v, st :
            ConnectBucket(st, ByKey(recs, {i \in DOMAIN recs :
                                             Attribute(recs[i], method) = v}), method),
          state, {Attribute(recs[i], method) : i \in DOMAIN recs})

Exact(recs) ==
  FoldLeft(LAMBDA st, method : ConnectExact(st, recs, method),
           [blocks |-> Singletons(recs), edges |-> {}],
           <<"raw", "sanitized", "normalized">>)

Tokens(r) == Texts[r.text].tokens

\* The buckets a record is put into: one per band, its template, its device.
Buckets(r) ==
  {<<"lsh", b, Texts[r.text].bands[b]>> : b \in DOMAIN Texts[r.text].bands}
    \cup {<<"template", 0, Texts[r.text].template>>, <<"device", r.network, r.device>>}

Smaller(recs, i, j) ==
  \/ Cardinality(Tokens(recs[i])) < Cardinality(Tokens(recs[j]))
  \/ Cardinality(Tokens(recs[i])) = Cardinality(Tokens(recs[j])) /\ recs[i].key < recs[j].key

\* Pairs of one bucket, at most Window places apart.
Candidates(recs) ==
  {<<i, j>> \in (DOMAIN recs) \X (DOMAIN recs) :
     /\ i < j
     /\ \E b \in Buckets(recs[i]) \cap Buckets(recs[j]) :
          Cardinality({m \in DOMAIN recs :
                         /\ b \in Buckets(recs[m])
                         /\ Smaller(recs, m, i) # Smaller(recs, m, j)
                         /\ m \notin {i, j}}) < Window}

\* In parts of 840, which every union of up to eight tokens divides.
Jaccard(s, t) == (840 * Cardinality(s \cap t)) \div Cardinality(s \cup t)
Similar(r, s) ==
  /\ Cardinality(Tokens(r)) >= MinTokens
  /\ Cardinality(Tokens(s)) >= MinTokens
  /\ 100 * Jaccard(Tokens(r), Tokens(s)) >= 840 * Threshold

\* The candidates that are similar enough and not yet together, the most similar first.
Similarity(recs, p) == Jaccard(Tokens(recs[p[1]]), Tokens(recs[p[2]]))
KeyBefore(recs, p, q) ==
  \/ recs[p[1]].key < recs[q[1]].key
  \/ recs[p[1]].key = recs[q[1]].key /\ recs[p[2]].key < recs[q[2]].key
Scored(recs, blocks) ==
  SetToSortSeq({p \in Candidates(recs) : ~Joined(blocks, p[1], p[2])
                                           /\ Similar(recs[p[1]], recs[p[2]])},
               LAMBDA p, q : \/ Similarity(recs, p) > Similarity(recs, q)
                             \/ Similarity(recs, p) = Similarity(recs, q)
                                  /\ KeyBefore(recs, p, q))

LinkSimilar(recs, exact) ==
  FoldLeft(LAMBDA st, p : Link(st, [left |-> p[1], right |-> p[2], method |-> "similar",
                                    similarity |-> Similarity(recs, p)]),
           exact, Scored(recs, exact.blocks))

Linked(recs) == LinkSimilar(recs, Exact(recs))

\* Mutant: the latest capture represents its family.
LatestRepresents(recs, block) ==
  CHOOSE i \in block : \A j \in block \ {i} :
    recs[j].at < recs[i].at \/ (recs[j].at = recs[i].at /\ recs[j].key < recs[i].key)

Representative(recs, block) ==
  CHOOSE i \in block : \A j \in block \ {i} :
    recs[i].at < recs[j].at \/ (recs[i].at = recs[j].at /\ recs[i].key < recs[j].key)

Clusters(recs, linked) ==
  {[members |-> b, representative |-> Representative(recs, b),
    links |-> {e \in linked.edges : e.left \in b}] :
   b \in {b \in linked.blocks : Cardinality(b) > 1}}

TemplateGroups(recs) ==
  {g \in {{j \in DOMAIN recs : Texts[recs[j].text].template = Texts[recs[i].text].template} :
          i \in DOMAIN recs} : Cardinality(g) > 1}

\* deduplicate_dataset
BuildResult(recs, linked) ==
  [unique |-> {Representative(recs, b) : b \in linked.blocks},
   exact |-> Cardinality({e \in linked.edges : e.method # "similar"}),
   near |-> Cardinality({e \in linked.edges : e.method = "similar"}),
   clusters |-> Clusters(recs, linked),
   templates |-> TemplateGroups(recs)]

Deduplicate(recs) == BuildResult(recs, Linked(recs))

\* The validators of DuplicateCluster and of the result.
Reach(cluster, from) ==
  LET grow[n \in 0 .. Cardinality(cluster.members)] ==
        IF n = 0 THEN {from}
        ELSE grow[n - 1] \cup {m \in cluster.members : \E e \in cluster.links :
               \/ e.left = m /\ e.right \in grow[n - 1]
               \/ e.right = m /\ e.left \in grow[n - 1]}
  IN grow[Cardinality(cluster.members)]

ClusterAccepted(c) ==
  /\ c.representative \in c.members
  /\ Cardinality(c.links) = Cardinality(c.members) - 1
  /\ \A e \in c.links : {e.left, e.right} \subseteq c.members
  /\ Reach(c, c.representative) = c.members

DedupAccepted(recs, d) ==
  /\ \A c \in d.clusters : ClusterAccepted(c)
  /\ \A c, k \in d.clusters : c # k => c.members \cap k.members = {}
  /\ Cardinality(d.unique) + d.exact + d.near = Len(recs)
  /\ d.unique = DOMAIN recs \ UNION {c.members \ {c.representative} : c \in d.clusters}
  /\ \A method \in {"exact", "near"} :
       Cardinality(UNION {{e \in c.links : (e.method = "similar") <=> (method = "near")} :
                          c \in d.clusters})
         = IF method = "near" THEN d.near ELSE d.exact

-----------------------------------------------------------------------------
(* The split.  A policy has fractions in hundredths, the smallest number of *)
(* groups of a split, and whether the order in time must be strict.         *)

Splits == <<"train", "validation", "test">>

\* Mutant: only networks are kept together.
SameNetworkOnly(r, s) == r.source = s.source /\ r.network = s.network

\* _connect_entity_groups, then the clusters.
SameEntity(r, s) ==
  r.source = s.source /\ (r.network = s.network \/ r.site = s.site \/ r.device = s.device)

Entangled(recs, d) ==
  {p \in (DOMAIN recs) \X (DOMAIN recs) :
     \/ SameEntity(recs[p[1]], recs[p[2]])
     \/ \E c \in d.clusters : {p[1], p[2]} \subseteq c.members}

Groups(recs, d) ==
  FoldSet(LAMBDA p, blocks : IF Joined(blocks, p[1], p[2]) THEN blocks
                             ELSE Join(blocks, p[1], p[2]),
          Singletons(recs), Entangled(recs, d))

Earliest(recs, set) == Min({recs[i].at : i \in set})
Latest(recs, set) == Max({recs[i].at : i \in set})

\* Lexicographic order of tuples.
LexLess(x, y) ==
  \E i \in DOMAIN x : x[i] < y[i] /\ \A j \in 1 .. i - 1 : x[j] = y[j]

Times(recs, g) == <<Latest(recs, g), Earliest(recs, g), Min({recs[i].key : i \in g})>>

\* By the last capture, then the first, then an arbitrary id: the code's is a hash of the
\* members, here it is the smallest key.
Chronological(recs, groups) ==
  SetToSortSeq(groups, LAMBDA g, h : LexLess(Times(recs, g), Times(recs, h)))

Magnitude(x) == IF x < 0 THEN -x ELSE x

\* The error of two boundaries, all counts times 100: weights before t train, those from t
\* to v validate.
Prefix(weights, n) == FoldLeft(LAMBDA x, y : x + y, 0, SubSeq(weights, 1, n))
Total(weights) == Prefix(weights, Len(weights))
TrainError(weights, policy, t) ==
  Magnitude(100 * Prefix(weights, t) - Total(weights) * policy.train)
Error(weights, policy, t, v) ==
  TrainError(weights, policy, t)
  + Magnitude(100 * (Prefix(weights, v) - Prefix(weights, t))
              - Total(weights) * policy.validation)
  + Magnitude(100 * (Total(weights) - Prefix(weights, v)) - Total(weights) * policy.test)

Score(weights, policy, z) ==
  <<Error(weights, policy, z[1], z[2]), TrainError(weights, policy, z[1]), z[1], z[2]>>
Better(weights, policy, x, y) ==
  LexLess(Score(weights, policy, x), Score(weights, policy, y))

\* bisect_left(prefix, target, low, high + 1), the target times 100.
Bisect(weights, target, low, high) ==
  Min({p \in low .. high : 100 * Prefix(weights, p) >= target} \cup {high + 1})

\* Mutant: only the boundary at the target is tried.
TriedOnce(weights, policy, t) ==
  LET low == t + policy.minimum
      high == Len(weights) - policy.minimum
  IN {v \in {low, Bisect(weights, 100 * Prefix(weights, t)
                                    + Total(weights) * policy.validation, low, high)} :
        v \in low .. high}

\* Instead of every second boundary the code tries the ends and the neighbours of two targets.
Tried(weights, policy, t) ==
  LET low == t + policy.minimum
      high == Len(weights) - policy.minimum
      targets == {100 * Prefix(weights, t) + Total(weights) * policy.validation,
                  Total(weights) * (100 - policy.test)}
  IN {v \in {low, high} \cup UNION {{p - 1, p, p + 1} :
                                     p \in {Bisect(weights, x, low, high) : x \in targets}} :
        v \in low .. high}

TrainBoundaries(weights, policy) == policy.minimum .. Len(weights) - 2 * policy.minimum

BestOf(pairs, weights, policy) ==
  CHOOSE x \in pairs : \A y \in pairs \ {x} : Better(weights, policy, x, y)
ChooseBoundaries(weights, policy) ==
  BestOf(UNION {{<<t, v>> : v \in Tried(weights, policy, t)} :
                t \in TrainBoundaries(weights, policy)}, weights, policy)

NoSplit == [error |-> TRUE]

Between(cut, groups, s) ==
  CASE s = "train" -> 1 .. cut[1]
    [] s = "validation" -> cut[1] + 1 .. cut[2]
    [] s = "test" -> cut[2] + 1 .. Len(groups)

\* split_deduplicated_dataset
Audited(recs, d, groups, weights, cut, parts) ==
  [error |-> FALSE, parts |-> parts, groups |-> groups, weights |-> weights, cut |-> cut,
   strict |-> /\ Latest(recs, parts["train"]) <= Earliest(recs, parts["validation"])
              /\ Latest(recs, parts["validation"]) <= Earliest(recs, parts["test"]),
   crossing |-> {t \in d.templates : \A s \in ToSet(Splits) : ~(t \subseteq parts[s])}]

Allocated(recs, d, groups, weights, cut) ==
  Audited(recs, d, groups, weights, cut,
          [s \in ToSet(Splits) |-> UNION {groups[i] : i \in Between(cut, groups, s)}])

StrictOrRefused(split, policy) == IF policy.strict /\ ~split.strict THEN NoSplit ELSE split

SplitGroups(recs, d, groups, weights, policy) ==
  IF Len(groups) < 3 * policy.minimum THEN NoSplit
  ELSE StrictOrRefused(Allocated(recs, d, groups, weights, ChooseBoundaries(weights, policy)),
                       policy)

Weights(d, groups) == [i \in DOMAIN groups |-> Cardinality(groups[i] \cap d.unique)]
Grouped(recs, d, groups, policy) == SplitGroups(recs, d, groups, Weights(d, groups), policy)

Split(recs, d, policy) ==
  IF Len(recs) < 3 THEN NoSplit
  ELSE Grouped(recs, d, Chronological(recs, Groups(recs, d)), policy)

-----------------------------------------------------------------------------
(* The quality report.  sources gives the review and the uses of each       *)
(* source that has a record of its provenance; gate is the quality policy.  *)

Of(recs, sources) == {i \in DOMAIN recs : recs[i].source \in DOMAIN sources}
Unseen(recs, split, attribute) ==
  LET entities(s) == {<<recs[i].source, recs[i][attribute]>> : i \in split.parts[s]}
  IN [some |-> Cardinality(entities("test") \ entities("train")),
      all |-> Cardinality(entities("test"))]

Leaks(recs, split, attribute, gate) ==
  LET u == Unseen(recs, split, attribute) IN 100 * u.some < gate.unseen * u.all

Blocking(recs, split, sources, use, gate) ==
  UNION {recs[i].scan : i \in DOMAIN recs}
  \cup (IF Of(recs, sources) # DOMAIN recs THEN {"missing_provenance"} ELSE {})
  \cup (IF \E i \in Of(recs, sources) : sources[recs[i].source].review # "approved"
        THEN {"review_not_approved"} ELSE {})
  \cup (IF \E i \in Of(recs, sources) : use \notin sources[recs[i].source].uses
        THEN {"use_not_permitted"} ELSE {})
  \cup (IF Leaks(recs, split, "network", gate) THEN {"test_network_leakage"} ELSE {})
  \cup (IF Leaks(recs, split, "site", gate) THEN {"test_site_leakage"} ELSE {})

Fraction(policy, s) ==
  CASE s = "train" -> policy.train [] s = "validation" -> policy.validation
    [] s = "test" -> policy.test

Warnings(recs, d, split, policy, gate) ==
  LET n == Cardinality(d.unique)
      roles == {recs[i].role : i \in d.unique}
      share(r) == 100 * Cardinality({i \in d.unique : recs[i].role = r})
  IN (IF split.strict THEN {} ELSE {"temporal_overlap"})
     \cup {s \in ToSet(Splits) :
             Magnitude(100 * Cardinality(split.parts[s] \cap d.unique)
                       - n * Fraction(policy, s)) > n * gate.deviation}
     \cup {r \in roles : n >= gate.balanced /\ share(r) > n * gate.role}

\* build_dataset_quality_report
Verdict(blocking, warnings, audited) ==
  [blocking |-> blocking, warnings |-> warnings, audited |-> audited, valid |-> blocking = {}]
Report(recs, d, split, policy, sources, use, gate) ==
  Verdict(Blocking(recs, split, sources, use, gate), Warnings(recs, d, split, policy, gate),
          {recs[i].source : i \in Of(recs, sources)})

\* The whole pipeline: a corpus is written (artifacts.py) when the report allows it.
Judged(input, d, split) ==
  [dedup |-> d, split |-> split,
   report |-> IF split.error THEN NoSplit
              ELSE Report(input.recs, d, split, input.policy, input.sources, input.use,
                          input.gate)]
Prepared(input, d) == Judged(input, d, Split(input.recs, d, input.policy))
Pipeline(input) == Prepared(input, Deduplicate(input.recs))

-----------------------------------------------------------------------------
(* Properties of an input and of what the pipeline makes of it.             *)

\* The collapse of duplicates passes its own validators, keeps one record of every family,
\* and does not depend on the order of import: no record is both kept and counted as a copy,
\* two records of one text are never both kept, and the earliest capture of a family stays.
Least(i, j) == IF i < j THEN i ELSE j
Most(i, j) == IF i < j THEN j ELSE i
Reordered(recs) == [i \in DOMAIN recs |-> recs[Len(recs) + 1 - i]]
Names(recs, set) == {recs[i].key : i \in set}

FamiliesCollapse(input, d, again) ==
  LET recs == input.recs IN /\ DedupAccepted(recs, d)
     /\ Names(Reordered(recs), again.unique) = Names(recs, d.unique)
     /\ \A i, j \in d.unique : i # j =>
          /\ recs[i].raw # recs[j].raw
          /\ Texts[recs[i].text].norm # Texts[recs[j].text].norm
          /\ Similar(recs[i], recs[j]) => <<Least(i, j), Most(i, j)>> \notin Candidates(recs)
     /\ \A c \in d.clusters : \A m \in c.members :
          recs[m].at >= recs[c.representative].at

\* Whatever is trained on, nothing of it is tested on: every record is in one split, every
\* split has a record to use, no network, site, device or family of duplicates is in two,
\* the splits are the best the groups allow, and a strict order means what it says.
AllBoundaries(weights, policy) ==
  {<<t, v>> \in TrainBoundaries(weights, policy) \X (1 .. Len(weights)) :
     v \in t + policy.minimum .. Len(weights) - policy.minimum}

BestBoundaries(weights, policy) == BestOf(AllBoundaries(weights, policy), weights, policy)

SplitsIsolate(input, made) ==
  LET recs == input.recs
      split == made.split
  IN ~split.error =>
       /\ \A i \in DOMAIN recs :
            Cardinality({s \in ToSet(Splits) : i \in split.parts[s]}) = 1
       /\ \A s \in ToSet(Splits) : split.parts[s] \cap made.dedup.unique # {}
       /\ \A s, t \in ToSet(Splits) : s # t =>
            \A i \in split.parts[s], j \in split.parts[t] :
              /\ recs[i].source = recs[j].source =>
                   \A a \in {"network", "site", "device"} : recs[i][a] # recs[j][a]
              /\ recs[i].raw # recs[j].raw
              /\ Texts[recs[i].text].norm # Texts[recs[j].text].norm
       /\ split.cut = BestBoundaries(split.weights, input.policy)
       /\ input.policy.strict =>
            \A i \in split.parts["train"], j \in split.parts["test"] : recs[i].at <= recs[j].at

\* A corpus is valid only when every record of it, kept or collapsed, comes from an approved
\* source that permits the use and has a clean scan; and what the splitter isolates, the
\* report never calls a leak.
ReportGuards(input, made) ==
  ~made.split.error =>
    /\ made.report.valid =>
         \A i \in DOMAIN input.recs :
           /\ input.recs[i].source \in made.report.audited
           /\ input.sources[input.recs[i].source].review = "approved"
           /\ input.use \in input.sources[input.recs[i].source].uses
           /\ input.recs[i].scan = {}
    /\ made.report.blocking \cap {"test_network_leakage", "test_site_leakage"} = {}

=============================================================================
