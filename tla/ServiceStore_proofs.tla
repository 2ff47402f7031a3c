------------------------- MODULE ServiceStore_proofs -------------------------
(***************************************************************************)
(* Safety of the store for any number of handlers, processes, records and  *)
(* faults, from any database that its own transactions could have left:    *)
(* records stay readable, a device keeps its identity, transactions are    *)
(* whole, slots are released, and the store implements EvidenceLog.        *)
(***************************************************************************)
EXTENDS ServiceStore, FiniteSetTheorems, TLAPS

\* Whatever is stored stays as it is.
TablesGrow ==
  /\ \A x \in Key : /\ rows[x] # None => rows'[x] = rows[x]
                    /\ outcomes[x] # None => outcomes'[x] = outcomes[x]
  /\ \A d \in Device : devices[d] # None => devices'[d] = devices[d]
  /\ sources \subseteq sources'

-----------------------------------------------------------------------------
(* Valid records stay valid *)

\* A stored row is read as before, in all its parts.
LEMMA RowStays ==
  ASSUME TablesGrow, NEW x \in Key, Stored(x)
  PROVE  /\ Stored(x)' /\ rows'[x] = rows[x]
         /\ TextOf(x)' = TextOf(x) /\ DeviceOf(x)' = DeviceOf(x) /\ Host(x)' = Host(x)
         /\ Complete(x)' = Complete(x) /\ Group(x)' = Group(x)
<1>1. rows'[x] = rows[x] /\ x # None /\ rows[x] # None
  BY DEF TablesGrow, Stored
<1>2. QED
  BY <1>1 DEF Stored, TextOf, DeviceOf, Host, Complete, Group

\* The keys of a kind are keys.
LEMMA KeyOf ==
  /\ \A kind \in Kind : Of(kind) \subseteq Key
  /\ \A x : x \in Key => x # None /\ x[1] \in Kind /\ x[2] \in Name \union Caller
  /\ \A kind, x : x \in Of(kind) => x[1] = kind
BY StoreConstants DEF Of, Key

LEMMA IndependentStays ==
  ASSUME TablesGrow, NEW S \in SUBSET Key, \A x \in S : Stored(x), Independent(S)
  PROVE  Independent(S)'
BY RowStays DEF Independent

\* The identity of a device is never changed.
LEMMA IdentityStays ==
  ASSUME StoreInv, TablesGrow, NEW d \in Device, NEW t, Identity(t) # None,
         devices[d] = Identity(t)
  PROVE  devices'[d] = Identity(t)
BY DEF TablesGrow

\* The configurations that a model was trained on are stored.
LEMMA TrainingStored ==
  ASSUME StoreInv, NEW m \in Of("model"), Stored(m)
  PROVE  rows[m].wish.using \subseteq Key /\ \A x \in rows[m].wish.using : Stored(x)
<1>1. m \in Key /\ m[1] = "model" /\ rows[m] # None
  BY KeyOf DEF Kind, Minted, Stored
<1>2. rows[m].wish.kind = "model" /\ Shaped(rows[m].wish) /\ ValidRow(rows[m])
  BY <1>1 DEF StoreInv, RowShape, RecordsReadable, Readable
<1>3. ValidModel(rows[m]) /\ rows[m].wish.using \subseteq Of("configuration")
  BY <1>2 DEF ValidRow, Shaped
<1>4. QED
  BY <1>3, KeyOf DEF ValidModel, Kind, Minted

\* So a configuration's analysis, and a candidate's.
LEMMA AboutStored ==
  ASSUME StoreInv, NEW x \in Of("analysis") \union Of("candidate"), Stored(x)
  PROVE  rows[x].wish.about \in Of("configuration") /\ Stored(rows[x].wish.about)
<1>1. x \in Key /\ x[1] \in {"analysis", "candidate"} /\ rows[x] # None
  BY KeyOf DEF Kind, Minted, Stored
<1>2. rows[x].wish.kind = x[1] /\ Shaped(rows[x].wish) /\ ValidRow(rows[x])
  BY <1>1 DEF StoreInv, RowShape, RecordsReadable, Readable
<1>3. ValidAnalysis(rows[x]) \/ ValidCandidate(rows[x])
  BY <1>1, <1>2 DEF ValidRow
<1>4. QED
  BY <1>1, <1>2, <1>3 DEF ValidAnalysis, ValidCandidate, Shaped

\* And the analysis that a candidate was generated from.
LEMMA CandidateStored ==
  ASSUME StoreInv, NEW x \in Of("candidate"), Stored(x)
  PROVE  rows[x].wish.reference \in Of("analysis") /\ Stored(rows[x].wish.reference)
<1>1. x \in Key /\ x[1] = "candidate" /\ rows[x] # None
  BY KeyOf DEF Kind, Minted, Stored
<1>2. rows[x].wish.kind = x[1] /\ Shaped(rows[x].wish) /\ ValidRow(rows[x])
  BY <1>1 DEF StoreInv, RowShape, RecordsReadable, Readable
<1>3. ValidCandidate(rows[x]) /\ rows[x].wish.reference \in Of("analysis")
  BY <1>1, <1>2 DEF ValidRow, Shaped
<1>4. QED
  BY <1>3 DEF ValidCandidate

LEMMA ModelStays ==
  ASSUME TablesGrow, NEW r, r.wish.using \subseteq Key, ValidModel(r)
  PROVE  ValidModel(r)'
<1>1. \A x \in r.wish.using : Stored(x) /\ x \in Key
  BY DEF ValidModel
<1>2. Independent(r.wish.using)'
  BY <1>1, IndependentStays DEF ValidModel
<1>3. QED
  BY <1>1, <1>2, RowStays DEF ValidModel

LEMMA AnalysisStays ==
  ASSUME StoreInv, TablesGrow, NEW r, r.wish.kind = "analysis", Shaped(r.wish),
         ValidAnalysis(r)
  PROVE  ValidAnalysis(r)'
<1>1. /\ r.wish.about \in Key /\ Stored(r.wish.about)
      /\ r.wish.using \subseteq Key
      /\ r.wish.reference # None => r.wish.reference \in Key
      /\ r.wish.model # None => r.wish.model \in Of("model") /\ r.wish.model \in Key
  BY KeyOf DEF Shaped, ValidAnalysis, Kind, Minted
<1>2. ValidReference(r)'
  BY <1>1, RowStays DEF ValidAnalysis, ValidReference
<1>3. ValidPeers(r)'
  <2>1. \A x \in r.wish.using : Stored(x)
    BY DEF ValidAnalysis, ValidPeers
  <2>2. Independent(r.wish.using)'
    BY <1>1, <2>1, IndependentStays DEF ValidAnalysis, ValidPeers
  <2>3. QED
    BY <1>1, <2>1, <2>2, RowStays DEF ValidAnalysis, ValidPeers
<1>4. ValidStatistics(r)'
  <2>1. SUFFICES ASSUME r.wish.model # None
                 PROVE  ValidStatistics(r)'
    BY DEF ValidStatistics
  <2>2. Stored(r.wish.model)
    BY <2>1 DEF ValidAnalysis, ValidStatistics
  <2>3. /\ rows[r.wish.model].wish.using \subseteq Key
        /\ \A x \in rows[r.wish.model].wish.using : Stored(x)
    BY <1>1, <2>1, <2>2, TrainingStored
  <2>4. Stored(r.wish.model)' /\ rows'[r.wish.model] = rows[r.wish.model]
    BY <1>1, <2>1, <2>2, RowStays
  <2>5. QED
    BY <1>1, <2>1, <2>2, <2>3, <2>4, RowStays DEF ValidAnalysis, ValidStatistics
<1>5. QED
  BY <1>1, <1>2, <1>3, <1>4, RowStays DEF ValidAnalysis

LEMMA KeysOf ==
  \A kind \in Kind, n \in Name \union Caller : <<kind, n>> \in Of(kind) /\ <<kind, n>> \in Key
BY DEF Of, Key

\* A configuration has the identity of its device, which is one.
LEMMA ConfigurationStored ==
  ASSUME StoreInv, NEW x \in Of("configuration"), Stored(x)
  PROVE  /\ DeviceOf(x) \in Device /\ TextOf(x) \in Text
         /\ devices[DeviceOf(x)] = Identity(TextOf(x)) /\ Identity(TextOf(x)) # None
<1>1. x \in Key /\ x[1] = "configuration" /\ rows[x] # None
  BY KeyOf DEF Kind, Minted, Stored
<1>2. /\ rows[x].wish.kind = x[1] /\ Shaped(rows[x].wish) /\ ValidRow(rows[x])
      /\ Identity(rows[x].wish.text) # None
  BY <1>1 DEF StoreInv, RowShape, RecordsReadable, Readable
<1>3. QED
  BY <1>1, <1>2 DEF ValidRow, ValidConfiguration, Shaped, DeviceOf, TextOf

LEMMA FeedbackStays ==
  ASSUME TablesGrow, NEW r, r.wish.kind = "feedback", Shaped(r.wish), ValidFeedback(r)
  PROVE  ValidFeedback(r)'
<1>1. r.wish.about \in Key
  BY KeyOf DEF Shaped, Kind, Minted
<1>2. QED
  BY <1>1, RowStays DEF ValidFeedback

LEMMA InferenceStays ==
  ASSUME StoreInv, TablesGrow, NEW r, r.wish.kind = "inference", Shaped(r.wish),
         ValidInference(r)
  PROVE  ValidInference(r)'
<1>1. r.wish.about \in Of("analysis") /\ r.wish.about \in Key /\ Stored(r.wish.about)
  BY KeyOf DEF Shaped, ValidInference, Kind, Minted
<1>2. Analyzed(r) \in Key /\ Stored(Analyzed(r))
  BY <1>1, AboutStored, KeyOf DEF Analyzed, Kind, Minted
<1>3. rows'[r.wish.about] = rows[r.wish.about] /\ Analyzed(r)' = Analyzed(r)
  BY <1>1, RowStays DEF Analyzed
<1>4. Stored(r.wish.about)' /\ Stored(Analyzed(r))' /\ rows'[Analyzed(r)] = rows[Analyzed(r)]
  BY <1>1, <1>2, <1>3, RowStays DEF Stored
<1>5. QED
  BY <1>3, <1>4 DEF ValidInference

LEMMA CandidateStays ==
  ASSUME TablesGrow, NEW r, r.wish.kind = "candidate", Shaped(r.wish), ValidCandidate(r)
  PROVE  ValidCandidate(r)'
<1>1. /\ r.wish.about \in Key /\ Stored(r.wish.about)
      /\ r.wish.reference \in Key /\ Stored(r.wish.reference)
  BY KeyOf DEF Shaped, ValidCandidate, Kind, Minted
<1>2. QED
  BY <1>1, RowStays DEF ValidCandidate

LEMMA ParentsStay ==
  ASSUME StoreInv, TablesGrow, NEW r, r.wish.kind = "materialization", Shaped(r.wish),
         ParentsAgree(r)
  PROVE  ParentsAgree(r)'
<1>1. /\ CandidateOf(r) \in Of("candidate") /\ CandidateOf(r) \in Key
      /\ r.wish.about \in Of("configuration") /\ r.wish.about \in Key
      /\ Stored(CandidateOf(r)) /\ Stored(r.wish.about)
  BY KeysOf, KeyOf DEF Shaped, ParentsAgree, CandidateOf, Kind, Minted
<1>2. /\ rows[CandidateOf(r)].wish.reference \in Key
      /\ Stored(rows[CandidateOf(r)].wish.reference)
  BY <1>1, CandidateStored, KeyOf DEF Kind, Minted
<1>3. /\ rows'[CandidateOf(r)] = rows[CandidateOf(r)] /\ Stored(CandidateOf(r))'
      /\ rows'[r.wish.about] = rows[r.wish.about] /\ Stored(r.wish.about)'
      /\ DeviceOf(r.wish.about)' = DeviceOf(r.wish.about)
      /\ TextOf(r.wish.about)' = TextOf(r.wish.about)
      /\ rows'[rows[CandidateOf(r)].wish.reference] = rows[rows[CandidateOf(r)].wish.reference]
  BY <1>1, <1>2, RowStays
<1>4. devices'[DeviceOf(r.wish.about)] = Identity(TextOf(r.wish.about))
  BY <1>1, ConfigurationStored, IdentityStays
<1>5. CandidateOf(r)' = CandidateOf(r)
  BY DEF CandidateOf
<1>6. QED
  BY <1>3, <1>4, <1>5 DEF ParentsAgree, Identity

LEMMA MaterializationStays ==
  ASSUME StoreInv, TablesGrow, NEW r, r.wish.kind = "materialization", Shaped(r.wish),
         ValidMaterialization(r)
  PROVE  ValidMaterialization(r)'
<1>1. /\ AfterOf(r) \in Key /\ Stored(AfterOf(r)) /\ PatchOf(r) \in Key /\ Stored(PatchOf(r))
      /\ r.wish.about \in Key /\ Stored(r.wish.about)
  BY KeysOf, KeyOf DEF Shaped, ValidMaterialization, ParentsAgree, AfterOf, PatchOf, Kind,
                       Minted
<1>2. ParentsAgree(r)'
  BY ParentsStay DEF ValidMaterialization
<1>3. AfterOf(r)' = AfterOf(r) /\ PatchOf(r)' = PatchOf(r)
  BY DEF AfterOf, PatchOf
<1>4. /\ rows'[AfterOf(r)] = rows[AfterOf(r)] /\ Stored(AfterOf(r))'
      /\ rows'[PatchOf(r)] = rows[PatchOf(r)] /\ Stored(PatchOf(r))'
      /\ rows'[r.wish.about] = rows[r.wish.about]
  BY <1>1, RowStays
<1>5. QED
  BY <1>2, <1>3, <1>4 DEF ValidMaterialization, DeviceOf, TextOf

LEMMA PatchStays ==
  ASSUME TablesGrow, NEW r, r.wish.kind = "patch", Shaped(r.wish), ValidPatch(r)
  PROVE  ValidPatch(r)'
<1>1. /\ r.wish.about \in Key /\ Stored(r.wish.about)
      /\ r.wish.reference \in Key /\ Stored(r.wish.reference)
  BY KeyOf DEF Shaped, ValidPatch, Kind, Minted
<1>2. /\ rows'[r.wish.about] = rows[r.wish.about] /\ Stored(r.wish.about)'
      /\ rows'[r.wish.reference] = rows[r.wish.reference] /\ Stored(r.wish.reference)'
  BY <1>1, RowStays
<1>3. QED
  BY <1>2 DEF ValidPatch, Comparable, DeviceOf, TextOf, Identity

\* What a reader accepts is accepted after every transaction that only adds.
LEMMA ValidStays ==
  ASSUME StoreInv, TablesGrow, NEW r, Shaped(r.wish), ValidRow(r),
         r.wish.kind = "configuration" => Identity(r.wish.text) # None
  PROVE  ValidRow(r)'
<1>1. r.wish.kind = "configuration" => ValidConfiguration(r)'
  <2>1. SUFFICES ASSUME r.wish.kind = "configuration" PROVE ValidConfiguration(r)'
    OBVIOUS
  <2>2. r.wish.device \in Device /\ devices[r.wish.device] = Identity(r.wish.text)
    BY <2>1 DEF Shaped, ValidRow, ValidConfiguration
  <2>3. QED
    BY <2>1, <2>2, IdentityStays DEF ValidConfiguration, Identity
<1>2. r.wish.kind = "model" => ValidModel(r)'
  <2>1. SUFFICES ASSUME r.wish.kind = "model" PROVE ValidModel(r)'
    OBVIOUS
  <2>2. r.wish.using \subseteq Key
    BY <2>1, KeyOf DEF Shaped, Kind, Minted
  <2>3. QED
    BY <2>1, <2>2, ModelStays DEF ValidRow
<1>3. /\ r.wish.kind = "analysis" => ValidAnalysis(r)'
      /\ r.wish.kind = "feedback" => ValidFeedback(r)'
      /\ r.wish.kind = "inference" => ValidInference(r)'
      /\ r.wish.kind = "candidate" => ValidCandidate(r)'
      /\ r.wish.kind = "materialization" => ValidMaterialization(r)'
      /\ r.wish.kind = "patch" => ValidPatch(r)'
  BY AnalysisStays, FeedbackStays, InferenceStays, CandidateStays, MaterializationStays,
     PatchStays DEF ValidRow
<1>4. QED
  BY <1>1, <1>2, <1>3 DEF ValidRow

\* So is every row that is stored.
LEMMA ReadableStays ==
  ASSUME StoreInv, TablesGrow, NEW x \in Key, rows[x] # None, outcomes'[x] = outcomes[x]
  PROVE  Readable(x)'
<1>1. Stored(x)
  BY KeyOf DEF Stored
<1>2. rows'[x] = rows[x]
  BY <1>1, RowStays
<1>3. /\ Readable(x) /\ Shaped(rows[x].wish)
      /\ rows[x].wish.kind = "configuration" => Identity(rows[x].wish.text) # None
  BY DEF StoreInv, RowShape, RecordsReadable
<1>4. ValidRow(rows[x])'
  BY <1>2, <1>3, ValidStays DEF Readable
<1>5. QED
  BY <1>2, <1>3, <1>4 DEF Readable, OutcomeOf

LEMMA PresentStays ==
  ASSUME TablesGrow, NEW w, Shaped(w), ~Missing(w)
  PROVE  ~Missing(w)'
<1>1. /\ w.kind \in {"analysis", "feedback", "inference", "candidate", "patch", "materialization"}
           => w.about \in Key
      /\ w.kind \in {"candidate", "patch"} => w.reference \in Key
      /\ w.kind = "materialization" => <<"candidate", w.name>> \in Key
  BY KeyOf, KeysOf DEF Shaped, Kind, Minted
<1>2. QED
  BY <1>1, RowStays DEF Missing, CandidateOf

LEMMA PreparedStays ==
  ASSUME StoreInv, TablesGrow, NEW r, r.wish.kind = "materialization", Shaped(r.wish),
         Prepared(r)
  PROVE  Prepared(r)'
<1>1. r.wish.about \in Key /\ Stored(r.wish.about)
  BY KeyOf DEF Shaped, Prepared, ParentsAgree, Kind, Minted
<1>2. TextOf(r.wish.about)' = TextOf(r.wish.about)
  BY <1>1, RowStays
<1>3. ParentsAgree(r)'
  BY ParentsStay DEF Prepared
<1>4. QED
  BY <1>2, <1>3 DEF Prepared, SourceRetained, TablesGrow, Identity

\* What a handler prepared from stored records stays acceptable.
LEMMA AcceptableStays ==
  ASSUME StoreInv, TablesGrow, NEW r, Shaped(r.wish), ~Missing(r.wish), Acceptable(r)
  PROVE  Acceptable(r)'
<1>1. r.wish.kind = "configuration" => Parsed[r.wish.text] # None
  BY DEF Acceptable
<1>2. r.wish.kind \in {"model", "analysis", "feedback", "patch"} => ValidRow(r)'
  BY ValidStays DEF Acceptable
<1>3. r.wish.kind = "inference" =>
        (r.wish.pinned /\ Complete(Analyzed(r)) /\ SourceRetained(Analyzed(r)))'
  <2>1. SUFFICES ASSUME r.wish.kind = "inference"
                 PROVE  (r.wish.pinned /\ Complete(Analyzed(r)) /\ SourceRetained(Analyzed(r)))'
    OBVIOUS
  <2>2. r.wish.about \in Of("analysis") /\ r.wish.about \in Key /\ Stored(r.wish.about)
    BY <2>1, KeyOf DEF Shaped, Missing, Kind, Minted
  <2>3. Analyzed(r) \in Key /\ Stored(Analyzed(r))
    BY <2>2, AboutStored, KeyOf DEF Analyzed, Kind, Minted
  <2>4. Analyzed(r)' = Analyzed(r)
    BY <2>2, RowStays DEF Analyzed
  <2>5. Complete(Analyzed(r))' = Complete(Analyzed(r))
    <3> DEFINE a == Analyzed(r)
    <3>1. rows'[a] = rows[a]
      BY <2>3, RowStays
    <3>2. QED
      BY <2>4, <3>1 DEF Complete, TextOf
  <2>6. QED
    BY <2>1, <2>4, <2>5 DEF Acceptable, SourceRetained, TablesGrow
<1>4. r.wish.kind = "candidate" => ValidCandidate(r)' /\ SourceRetained(r.wish.about)'
  BY CandidateStays DEF Acceptable, SourceRetained, TablesGrow
<1>5. r.wish.kind = "materialization" => Prepared(r)'
  BY PreparedStays DEF Acceptable
<1>6. QED
  BY <1>1, <1>2, <1>3, <1>4, <1>5 DEF Acceptable

-----------------------------------------------------------------------------
(* Transactions *)

Inserts(c) == pc[c] = "insert" /\ KeyUnused(c) /\ Commit(c)
Concludes(c) == pc[c] = "commit" /\ CommitOutcome(c)

\* The tables change in these two places only.
LEMMA DurableStep ==
  ASSUME NEW c \in Caller, Step(c) \/ DatabaseError(c)
  PROVE  UNCHANGED tables \/ Inserts(c) \/ Concludes(c)
<1>1. CASE Insert(c)
  BY <1>1 DEF Insert, Inserts
<1>2. CASE Finish(c)
  BY <1>2 DEF Finish, Concludes
<1>3. CASE \/ Lookup(c) \/ TakeSlot(c) \/ Prepare(c) \/ LockParents(c) \/ Reserve(c)
           \/ Raced(c) \/ RunEnds(c) \/ RunFails(c)
  BY <1>3 DEF Lookup, TakeSlot, Prepare, LockParents, Reserve, Raced, RunEnds, RunFails
<1>4. CASE DatabaseError(c)
  BY <1>4 DEF DatabaseError, Inserts, Concludes
<1>5. QED
  BY <1>1, <1>2, <1>3, <1>4 DEF Step

\* A valid row other than a materialization rests on stored records that are final.
LEMMA BasisStored ==
  ASSUME NEW r, Shaped(r.wish), ValidRow(r), r.wish.kind \in Kind \ {"materialization"},
         r.wish.kind = "configuration" => r.wish.about = None
  PROVE  \A y \in Basis(r) \ {None} : Stored(y) /\ y \in Key /\ y[1] # "inference"
<1>1. CASE r.wish.kind = "configuration"
  BY <1>1 DEF Shaped, Basis
<1>2. CASE r.wish.kind = "model"
  BY <1>2, KeyOf DEF Shaped, Basis, ValidRow, ValidModel, Kind, Minted
<1>3. CASE r.wish.kind = "analysis"
  <2>1. /\ r.wish.about \in Of("configuration") /\ Stored(r.wish.about)
        /\ r.wish.reference # None =>
             r.wish.reference \in Of("configuration") /\ Stored(r.wish.reference)
        /\ r.wish.model # None => r.wish.model \in Of("model") /\ Stored(r.wish.model)
        /\ \A y \in r.wish.using : y \in Of("configuration") /\ Stored(y)
    BY <1>3 DEF Shaped, ValidRow, ValidAnalysis, ValidReference, ValidPeers, ValidStatistics
  <2>2. QED
    BY <1>3, <2>1, KeyOf DEF Basis, Kind, Minted
<1>4. CASE r.wish.kind \in {"feedback", "inference"}
  BY <1>4, KeyOf DEF Shaped, Basis, ValidRow, ValidFeedback, ValidInference, Kind, Minted
<1>5. CASE r.wish.kind = "candidate"
  BY <1>5, KeyOf DEF Shaped, Basis, ValidRow, ValidCandidate, Kind, Minted
<1>6. CASE r.wish.kind = "patch"
  BY <1>6, KeyOf DEF Shaped, Basis, ValidRow, ValidPatch, Kind, Minted
<1>7. QED
  BY <1>1, <1>2, <1>3, <1>4, <1>5, <1>6 DEF Kind, Minted

\* What a transaction that adds the rows N has to leave behind.
LEMMA StoreGrows ==
  ASSUME StoreInv, TablesGrow, NEW N \in SUBSET Key,
         rows' \in [Key -> Record \union {None}], audit' \in [Key -> Nat],
         outcomes' = outcomes, DOMAIN devices' = Device,
         sources' \subseteq {x \in Key : rows'[x] # None},
         \A x \in Key \ N : /\ rows'[x] = rows[x] /\ audit'[x] = audit[x]
                            /\ x \in sources' <=> x \in sources,
         \A x \in N : /\ rows[x] = None
                      /\ RowShape(x)' /\ Cited(x)' /\ ValidRow(rows[x])'
                      /\ audit'[x] = Audited(x)',
         Outputs'
  PROVE  StoreInv'
<1>1. outcomes' \in [Key -> Ending \union {None}]
  BY DEF StoreInv
<1>2. \A x \in Key : outcomes'[x] # None => x[1] = "inference" /\ rows'[x] # None
  BY DEF StoreInv
<1>3. \A x \in Key : RowShape(x)' /\ Cited(x)' /\ audit'[x] = Audited(x)'
  <2>1. SUFFICES ASSUME NEW x \in Key, x \notin N
                 PROVE  RowShape(x)' /\ Cited(x)' /\ audit'[x] = Audited(x)'
    OBVIOUS
  <2>2. RowShape(x) /\ Cited(x) /\ audit[x] = Audited(x)
    BY DEF StoreInv
  <2>3. RowShape(x)'
    BY <2>1, <2>2 DEF RowShape
  <2>4. Cited(x)'
    <3>1. SUFFICES ASSUME rows[x] # None, NEW y \in Basis(rows[x]) \ {None}
                   PROVE  Stored(y)' /\ y \in Key /\ y[1] # "inference"
      BY <2>1 DEF Cited, Basis, CandidateOf, AfterOf, PatchOf
    <3>2. Stored(y) /\ y \in Key /\ y[1] # "inference"
      BY <2>2, <3>1 DEF Cited
    <3>3. QED
      BY <3>2, RowStays
  <2>5. audit'[x] = Audited(x)'
    BY <2>1, <2>2 DEF Audited
  <2>6. QED
    BY <2>3, <2>4, <2>5
<1>4. RecordsReadable'
  <2>1. SUFFICES ASSUME NEW x \in Key, rows'[x] # None
                 PROVE  Readable(x)'
    BY DEF RecordsReadable
  <2>2. CASE x \in N
    <3>1. outcomes'[x] = None
      BY <2>2 DEF StoreInv
    <3>2. QED
      BY <2>2, <3>1 DEF Readable
  <2>3. CASE x \notin N
    BY <2>1, <2>3, ReadableStays
  <2>4. QED
    BY <2>2, <2>3
<1>5. QED
  BY <1>1, <1>2, <1>3, <1>4 DEF StoreInv

\* The rows that a handler adds.
Added(c) ==
  IF Is(c, {"materialization"}) THEN {Id(c), AfterOf(made[c]), PatchOf(made[c])} ELSE {Id(c)}

LEMMA IdKey ==
  ASSUME NEW c \in Caller, wants[c] \in Wish, Requested(wants[c])
  PROVE  /\ Id(c) \in Key /\ Id(c) # None /\ Id(c)[1] = wants[c].kind
         /\ wants[c].kind \in Minted => Id(c)[2] = c
         /\ wants[c].kind \notin Minted => Id(c)[2] = wants[c].name /\ wants[c].name \in Name
<1>1. wants[c].kind \in Kind
  BY DEF Wish
<1>2. wants[c].kind \notin Minted => wants[c].name \in Name
  BY DEF Requested, Shaped
<1>3. Id(c) \in Key
  BY <1>1, <1>2, KeysOf DEF Id, Is, Wanted
<1>4. QED
  BY <1>1, <1>2, <1>3, KeyOf DEF Id, Is, Wanted

\* What a handler that is about to insert knows of its row.
LEMMA Inserting ==
  ASSUME IInv, NEW c \in Caller, Inserts(c)
  PROVE  /\ wants[c] \in Wish /\ Requested(wants[c]) /\ Shaped(wants[c])
         /\ made[c] \in Record /\ made[c].wish = wants[c]
         /\ ~Missing(wants[c]) /\ Acceptable(made[c])
         /\ Id(c) \in Key /\ Id(c) # None /\ Id(c)[1] = wants[c].kind /\ rows[Id(c)] = None
         /\ wants[c].name \in {None, Id(c)[2]}
<1>1. pc[c] = "insert" /\ KeyUnused(c) /\ CallInv(c)
  BY DEF Inserts, IInv
<1>2. /\ wants[c] \in Wish /\ Requested(wants[c])
      /\ made[c] \in Record /\ made[c].wish = wants[c]
      /\ ~Missing(wants[c]) /\ Acceptable(made[c])
      /\ \A kind \in Minted : rows[<<kind, c>>] = None
  BY <1>1 DEF CallInv, Making
<1>3. Shaped(wants[c]) /\ (wants[c].kind \in Minted => wants[c].name = None)
  BY <1>2 DEF Requested
<1>4. /\ Id(c) \in Key /\ Id(c) # None /\ Id(c)[1] = wants[c].kind
      /\ wants[c].kind \notin Minted => Id(c)[2] = wants[c].name
  BY <1>2, IdKey
<1>5. rows[Id(c)] = None
  <2>1. CASE wants[c].kind \in Minted
    BY <1>2, <2>1 DEF Id, Is, Wanted
  <2>2. CASE wants[c].kind \notin Minted
    BY <1>1, <1>4, <2>2 DEF KeyUnused, Is, Wanted, Stored, Minted
  <2>3. QED
    BY <2>1, <2>2
<1>6. QED
  BY <1>2, <1>3, <1>4, <1>5

\* The outputs of a materialization are described like other requests.
LEMMA OutputWishes ==
  ASSUME NEW w \in Wish, NEW kind \in Kind, NEW name \in Name
  PROVE  /\ \A device \in Device, text \in Text, labels \in Label \union {None} :
              [w EXCEPT !.kind = kind, !.name = name, !.device = device, !.text = text,
                        !.labels = labels, !.keep = TRUE] \in Wish
         /\ \A x \in Key : [w EXCEPT !.kind = kind, !.name = name, !.reference = x] \in Wish
<1>1. ASSUME NEW device \in Device, NEW text \in Text, NEW labels \in Label \union {None}
      PROVE  [w EXCEPT !.kind = kind, !.name = name, !.device = device, !.text = text,
                       !.labels = labels, !.keep = TRUE] \in Wish
  BY DEF Wish
<1>2. ASSUME NEW x \in Key
      PROVE  [w EXCEPT !.kind = kind, !.name = name, !.reference = x] \in Wish
  BY DEF Wish
<1>3. QED
  BY <1>1, <1>2

\* What an insertion of any kind leaves as it was.
LEMMA InsertGrows ==
  ASSUME IInv, NEW c \in Caller, Inserts(c)
  PROVE  /\ TablesGrow /\ outcomes' = outcomes
         /\ Added(c) \in SUBSET Key
         /\ \A x \in Added(c) : rows[x] = None /\ rows'[x] # None
         /\ \A x \in Key \ Added(c) : rows'[x] = rows[x] /\ audit'[x] = audit[x]
         /\ \A x \in Key \ Added(c) : x \in sources' <=> x \in sources
         /\ rows' \in [Key -> Record \union {None}] /\ audit' \in [Key -> Nat]
         /\ DOMAIN devices' = Device
         /\ sources' \subseteq {x \in Key : rows'[x] # None}
         /\ rows'[Id(c)] = made[c]
<1> DEFINE w == wants[c]  r == made[c]
<1>1. /\ w \in Wish /\ Shaped(w) /\ Requested(w) /\ r \in Record /\ r.wish = w /\ r # None
      /\ Id(c) \in Key /\ Id(c)[1] = w.kind /\ rows[Id(c)] = None
  BY Inserting, StoreConstants
<1>2. /\ rows \in [Key -> Record \union {None}] /\ audit \in [Key -> Nat]
      /\ DOMAIN devices = Device /\ sources \subseteq {x \in Key : rows[x] # None}
  BY DEF IInv, StoreInv
<1>3. Commit(c) /\ KeyUnused(c)
  BY DEF Inserts
<1>4. CASE w.kind = "configuration"
  <2>1. CommitUpload(c) /\ Added(c) = {Id(c)}
    BY <1>3, <1>4 DEF Commit, Is, Wanted, Added
  <2>2. rows' = [rows EXCEPT ![Id(c)] = r] /\ outcomes' = outcomes
    BY <2>1 DEF CommitUpload
  <2>3. \A d \in Device : devices[d] # None => devices'[d] = devices[d]
    BY <1>2, <1>3, <1>4, <2>1 DEF CommitUpload, KeyUnused, DeviceNew, Is, Wanted
  <2>4. DOMAIN devices' = Device
    BY <1>2, <2>1 DEF CommitUpload
  <2>5. sources' \in {sources, sources \union {Id(c)}}
    BY <2>1 DEF CommitUpload
  <2>6. audit' \in [Key -> Nat] /\ \A x \in Key \ {Id(c)} : audit'[x] = audit[x]
    BY <1>1, <1>2, <2>1 DEF CommitUpload
  <2>7. QED
    BY <1>1, <1>2, <2>1, <2>2, <2>3, <2>4, <2>5, <2>6 DEF TablesGrow
<1>5. CASE w.kind = "materialization"
  <2> DEFINE x == AfterOf(r)  y == PatchOf(r)
  <2>1. CommitMaterialization(c) /\ Added(c) = {Id(c), x, y}
    BY <1>3, <1>5 DEF Commit, Is, Wanted, Added
  <2>2. x \in Key /\ y \in Key /\ x # y /\ Id(c) # x /\ Id(c) # y
    BY <1>1, <1>5, KeysOf, KeyOf DEF Shaped, AfterOf, PatchOf, Kind, Minted
  <2>3. rows[x] = None /\ rows[y] = None
    BY <1>3, <1>5, <2>2, KeyOf DEF KeyUnused, OutputsUnused, Stored, Is, Wanted
  <2>4. rows' = [rows EXCEPT ![Id(c)] = r, ![x] = AfterRow(r), ![y] = PatchRow(r)]
    BY <2>1 DEF CommitMaterialization
  <2>5. outcomes' = outcomes /\ devices' = devices /\ sources' = sources \union {x}
    BY <2>1 DEF CommitMaterialization
  <2>6. audit' = [audit EXCEPT ![Id(c)] = @ + 1, ![x] = @ + 2, ![y] = @ + 1]
    BY <2>1 DEF CommitMaterialization
  <2>7. r.wish.about \in Of("configuration") /\ r.wish.about \in Key /\ Stored(r.wish.about)
    BY <1>1, <1>5, Inserting, KeyOf
       DEF Shaped, Acceptable, Prepared, ParentsAgree, Kind, Minted
  <2>8. DeviceOf(r.wish.about) \in Device /\ TextOf(r.wish.about) \in Text
    BY <2>7, ConfigurationStored DEF IInv
  <2>9. rows[r.wish.about] \in Record
    BY <1>2, <2>7 DEF Stored
  <2>10. AfterRow(r) \in Record /\ PatchRow(r) \in Record
    <3>1. Repaired[TextOf(r.wish.about)] \in Text /\ w.after \in Name /\ w.patch \in Name
      BY <1>1, <1>5, <2>8, StoreConstants DEF Shaped
    <3>2. rows[r.wish.about].wish.labels \in Label \union {None}
      BY <2>9 DEF Record, Wish
    <3>3. x \in Key
      BY <2>2
    <3>4. AfterRow(r) \in Record
      <4>1. [r.wish EXCEPT !.kind = "configuration", !.name = r.wish.after,
                           !.device = DeviceOf(r.wish.about),
                           !.text = Repaired[TextOf(r.wish.about)],
                           !.labels = rows[r.wish.about].wish.labels, !.keep = TRUE] \in Wish
        <5>1. r.wish \in Wish /\ "configuration" \in Kind /\ r.wish.after \in Name
          BY <1>1, <3>1 DEF Kind, Minted
        <5>2. \A device \in Device, text \in Text, labels \in Label \union {None} :
                [r.wish EXCEPT !.kind = "configuration", !.name = r.wish.after,
                               !.device = device, !.text = text, !.labels = labels,
                               !.keep = TRUE] \in Wish
          BY <5>1, OutputWishes
        <5>3. QED
          BY <2>8, <3>1, <3>2, <5>2, Zenon
      <4>2. QED
        BY <1>1, <4>1 DEF AfterRow, Record
    <3>5. PatchRow(r) \in Record
      <4>1. [r.wish EXCEPT !.kind = "patch", !.name = r.wish.patch, !.reference = x] \in Wish
        BY <1>1, <3>1, <3>3, OutputWishes DEF Kind, Minted
      <4>2. QED
        BY <1>1, <4>1 DEF PatchRow, Record
    <3>6. QED
      BY <3>4, <3>5
  <2>11. AfterRow(r) # None /\ PatchRow(r) # None
    BY <2>10, StoreConstants
  <2>12. rows' \in [Key -> Record \union {None}]
    BY <1>1, <1>2, <2>4, <2>10
  <2>13. rows'[Id(c)] = r /\ rows'[x] = AfterRow(r) /\ rows'[y] = PatchRow(r)
    BY <1>1, <1>2, <2>2, <2>4
  <2>14. \A z \in Key \ {Id(c), x, y} : rows'[z] = rows[z]
    BY <1>2, <2>4
  <2>15. audit' \in [Key -> Nat] /\ \A z \in Key \ {Id(c), x, y} : audit'[z] = audit[z]
    <3>1. DOMAIN audit' = Key /\ \A z \in Key \ {Id(c), x, y} : audit'[z] = audit[z]
      BY <1>2, <2>6
    <3>2. /\ audit'[Id(c)] = audit[Id(c)] + 1 /\ audit'[x] = audit[x] + 2
          /\ audit'[y] = audit[y] + 1
      BY <1>1, <1>2, <2>2, <2>6
    <3>3. \A z \in Key : audit[z] \in Nat /\ audit'[z] \in Nat
      BY <1>1, <1>2, <2>2, <3>1, <3>2
    <3>4. audit' = [z \in Key |-> audit'[z]]
      BY <2>6, <3>1
    <3>5. QED
      BY <3>1, <3>3, <3>4
  <2>16. \A z \in Added(c) : rows[z] = None /\ rows'[z] # None
    BY <1>1, <2>1, <2>3, <2>11, <2>13
  <2>17. TablesGrow
    BY <1>2, <2>1, <2>5, <2>14, <2>16 DEF TablesGrow
  <2>18. sources' \subseteq {z \in Key : rows'[z] # None}
    BY <1>2, <2>1, <2>2, <2>5, <2>14, <2>16
  <2>19. QED
    BY <1>1, <1>2, <2>1, <2>2, <2>5, <2>12, <2>13, <2>14, <2>15, <2>16, <2>17, <2>18
<1>6. CASE w.kind \notin {"configuration", "materialization"}
  <2>1. CommitRow(c) /\ Added(c) = {Id(c)}
    BY <1>3, <1>6 DEF Commit, Is, Wanted, Added
  <2>2. /\ rows' = [rows EXCEPT ![Id(c)] = r] /\ audit' = [audit EXCEPT ![Id(c)] = @ + 1]
        /\ outcomes' = outcomes /\ devices' = devices /\ sources' = sources
    BY <2>1 DEF CommitRow
  <2>3. QED
    BY <1>1, <1>2, <2>1, <2>2 DEF TablesGrow
<1>7. QED
  BY <1>4, <1>5, <1>6

\* A record that a handler adds alone fits its key, is readable, rests on stored records
\* and is audited.
LEMMA NewRow ==
  ASSUME IInv, NEW c \in Caller, Inserts(c), wants[c].kind # "materialization",
         NEW x, x = Id(c), NEW r, r = made[c], NEW w, w = wants[c]
  PROVE  RowShape(x)' /\ Cited(x)' /\ ValidRow(rows[x])' /\ audit'[x] = Audited(x)'
<1>1. /\ w \in Wish /\ Shaped(w) /\ Requested(w) /\ r \in Record /\ r.wish = w
      /\ x \in Key /\ x[1] = w.kind /\ rows[x] = None
      /\ Acceptable(r) /\ w.name \in {None, x[2]} /\ w.kind \in Kind
  BY Inserting DEF Wish
<1>2. TablesGrow /\ rows'[x] = r /\ outcomes' = outcomes
  BY InsertGrows
<1>3. StoreInv
  BY DEF IInv
<1>4. r # None
  BY <1>1, StoreConstants
<1>5. w.kind = "configuration" => Identity(w.text) # None /\ w.about = None
  BY <1>1, StoreConstants DEF Acceptable, Identity, Shaped, Requested
<1>6. RowShape(x)'
  BY <1>1, <1>2, <1>5 DEF RowShape, Identity
<1>7. w.kind # "configuration" => ValidRow(r)
  <2>1. CASE w.kind \in {"model", "analysis", "feedback", "patch"}
    BY <1>1, <2>1 DEF Acceptable
  <2>2. CASE w.kind = "candidate"
    BY <1>1, <2>2 DEF Acceptable, ValidRow
  <2>3. CASE w.kind = "inference"
    <3>1. ValidInference(r)
      BY <2>3 DEF IInv, CallInv, Inserts, Is, Wanted
    <3>2. QED
      BY <1>1, <2>3, <3>1 DEF ValidRow
  <2>4. QED
    BY <1>1, <2>1, <2>2, <2>3 DEF Kind, Minted
<1>8. ValidRow(r)'
  <2>1. CASE w.kind = "configuration"
    <3>1. CommitUpload(c) /\ KeyUnused(c)
      BY <2>1 DEF Inserts, Commit, Is, Wanted
    <3>2. found[c] \in BOOLEAN /\ (~found[c] => ValidConfiguration(r))
      BY <2>1 DEF IInv, CallInv, Inserts, Is, Wanted
    <3>3. w.device \in Device /\ DOMAIN devices = Device
      BY <1>1, <1>3, <2>1 DEF Shaped, StoreInv
    <3>4. devices'[w.device] = Identity(w.text)
      BY <1>1, <3>1, <3>2, <3>3 DEF CommitUpload, Wanted, ValidConfiguration
    <3>5. QED
      BY <1>1, <2>1, <3>4 DEF ValidRow, ValidConfiguration, Identity
  <2>2. CASE w.kind # "configuration"
    <3>1. ValidRow(r)
      BY <1>7, <2>2
    <3>2. QED
      BY <1>1, <1>2, <1>3, <2>2, <3>1, ValidStays
  <2>3. QED
    BY <2>1, <2>2
<1>9. \A y \in Basis(r) \ {None} : Stored(y)' /\ y \in Key /\ y[1] # "inference"
  <2>1. CASE w.kind = "configuration"
    BY <1>1, <1>5, <2>1 DEF Basis, Shaped, Minted
  <2>2. CASE w.kind # "configuration"
    <3>1. ValidRow(r)
      BY <1>7, <2>2
    <3>2. \A y \in Basis(r) \ {None} : Stored(y) /\ y \in Key /\ y[1] # "inference"
      BY <1>1, <2>2, <3>1, BasisStored
    <3>3. QED
      BY <1>2, <3>2, RowStays
  <2>3. QED
    BY <2>1, <2>2
<1>10. Cited(x)'
  BY <1>2, <1>9 DEF Cited, Basis, CandidateOf, AfterOf, PatchOf
<1>11. audit'[x] = Audited(x)'
  <2>1. /\ audit \in [Key -> Nat] /\ audit[x] = 0 /\ outcomes'[x] = None
        /\ x \notin sources
    BY <1>1, <1>2, <1>3 DEF StoreInv, Audited
  <2>2. CASE w.kind = "configuration"
    <3>1. CommitUpload(c)
      BY <2>2 DEF Inserts, Commit, Is, Wanted
    <3>2. /\ audit'[x] = audit[x] + (IF w.keep THEN 2 ELSE 1)
          /\ sources' = IF w.keep THEN sources \union {x} ELSE sources
      BY <1>1, <2>1, <3>1 DEF CommitUpload, Wanted
    <3>3. QED
      BY <1>2, <1>4, <2>1, <3>2 DEF Audited
  <2>3. CASE w.kind # "configuration"
    <3>1. CommitRow(c)
      BY <2>3 DEF Inserts, Commit, Is, Wanted
    <3>2. audit'[x] = audit[x] + 1 /\ sources' = sources
      BY <1>1, <2>1, <3>1 DEF CommitRow
    <3>3. QED
      BY <1>2, <1>4, <2>1, <3>2 DEF Audited
  <2>4. QED
    BY <2>2, <2>3
<1>12. QED
  BY <1>2, <1>6, <1>8, <1>10, <1>11

\* So are the three that a materialization adds.
LEMMA NewOutputs ==
  ASSUME IInv, NEW c \in Caller, Inserts(c), wants[c].kind = "materialization",
         NEW x, x = Id(c), NEW r, r = made[c], NEW after, after = AfterOf(r),
         NEW patch, patch = PatchOf(r)
  PROVE  /\ Added(c) = {x, after, patch}
         /\ \A y \in {x, after, patch} : /\ RowShape(y)' /\ Cited(y)' /\ ValidRow(rows[y])'
                                         /\ audit'[y] = Audited(y)'
         /\ after \in sources' /\ rows'[x] = r
<1> DEFINE before == r.wish.about
<1>1. /\ r.wish = wants[c] /\ Shaped(r.wish) /\ r \in Record /\ Acceptable(r)
      /\ r.wish.kind = "materialization" /\ x \in Key /\ x[1] = "materialization"
      /\ r.wish.name = x[2] /\ x[2] \in Name
  BY Inserting, IdKey DEF Minted, Shaped
<1>2. CommitMaterialization(c) /\ Added(c) = {x, after, patch}
  BY DEF Inserts, Commit, Is, Wanted, Added
<1>3. StoreInv /\ TablesGrow /\ outcomes' = outcomes
  BY InsertGrows DEF IInv
<1>4. /\ after \in Of("configuration") /\ after \in Key /\ after[1] = "configuration"
      /\ after[2] = r.wish.after /\ r.wish.after \in Name
      /\ patch \in Of("patch") /\ patch \in Key /\ patch[1] = "patch"
      /\ patch[2] = r.wish.patch /\ r.wish.patch \in Name
      /\ x # after /\ x # patch /\ after # patch
  BY <1>1, KeysOf, KeyOf DEF Shaped, AfterOf, PatchOf, Kind, Minted
<1>5. rows[x] = None /\ rows[after] = None /\ rows[patch] = None
  BY <1>2, InsertGrows
<1>6. rows'[x] = r /\ rows'[after] = AfterRow(r) /\ rows'[patch] = PatchRow(r)
  <2>1. rows' = [rows EXCEPT ![x] = r, ![after] = AfterRow(r), ![patch] = PatchRow(r)]
    BY <1>2 DEF CommitMaterialization
  <2>2. DOMAIN rows = Key
    BY <1>3 DEF StoreInv
  <2>3. QED
    BY <1>1, <1>4, <2>1, <2>2
<1>7. devices' = devices /\ sources' = sources \union {after}
  BY <1>2 DEF CommitMaterialization
<1>8. /\ Prepared(r) /\ ParentsAgree(r) /\ ParentsAgree(r)'
      /\ before \in Of("configuration") /\ before \in Key /\ Stored(before)
      /\ rows'[before] = rows[before] /\ before # None
  <2>1. Prepared(r) /\ ParentsAgree(r)
    BY <1>1 DEF Acceptable, Prepared
  <2>2. before \in Of("configuration") /\ before \in Key /\ Stored(before)
    BY <1>1, <2>1, KeyOf DEF Shaped, ParentsAgree, Kind, Minted
  <2>3. QED
    BY <1>1, <1>3, <2>1, <2>2, ParentsStay, RowStays DEF Stored
<1>9. /\ DeviceOf(before) \in Device /\ TextOf(before) \in Text
      /\ devices[DeviceOf(before)] = Identity(TextOf(before))
      /\ Identity(TextOf(before)) # None
  BY <1>3, <1>8, ConfigurationStored
<1>10. PICK device, text : device = DeviceOf(before) /\ text = Repaired[TextOf(before)]
  OBVIOUS
<1>11. /\ device \in Device /\ text \in Text /\ devices[device] = Identity(text)
       /\ Identity(text) # None /\ ~Parsed[text].telnet
  BY <1>8, <1>9, <1>10, StoreConstants DEF Prepared
<1>12. PICK a, p : a = AfterRow(r) /\ p = PatchRow(r)
  OBVIOUS
<1>13. /\ a \in Record /\ p \in Record /\ a # None /\ p # None
       /\ rows'[after] = a /\ rows'[patch] = p
  <2>1. after \in Added(c) /\ patch \in Added(c) /\ rows' \in [Key -> Record \union {None}]
    BY <1>2, InsertGrows
  <2>2. rows'[after] # None /\ rows'[patch] # None
    BY <2>1, InsertGrows
  <2>3. QED
    BY <1>4, <1>6, <1>12, <2>1, <2>2
<1>14. /\ a.at = r.at /\ a.wish.kind = "configuration" /\ a.wish.name = r.wish.after
       /\ a.wish.device = device /\ a.wish.text = text /\ a.wish.about = before
       /\ a.wish.reference = None /\ a.wish.using = {} /\ a.wish.model = None
  BY <1>1, <1>10, <1>12 DEF AfterRow, Record, Wish, Shaped, Minted
<1>15. /\ p.at = r.at /\ p.wish.kind = "patch" /\ p.wish.name = r.wish.patch
       /\ p.wish.about = before /\ p.wish.reference = after /\ p.wish.using = {}
       /\ p.wish.model = None /\ p.wish.pinned = r.wish.pinned
  BY <1>1, <1>12 DEF PatchRow, Record, Wish, Shaped, Minted
<1>16. Shaped(a.wish) /\ Shaped(p.wish)
  BY <1>4, <1>8, <1>11, <1>14, <1>15 DEF Shaped, Minted
<1>17. RowShape(x)' /\ RowShape(after)' /\ RowShape(patch)'
  <2>1. RowShape(x)'
    BY <1>1, <1>6 DEF RowShape
  <2>2. RowShape(after)'
    BY <1>4, <1>11, <1>13, <1>14, <1>16 DEF RowShape, Identity
  <2>3. RowShape(patch)'
    BY <1>4, <1>13, <1>15, <1>16 DEF RowShape
  <2>4. QED
    BY <2>1, <2>2, <2>3
<1>18. /\ TextOf(before)' = TextOf(before) /\ DeviceOf(before)' = DeviceOf(before)
       /\ DeviceOf(after)' = device /\ TextOf(after)' = text
       /\ Stored(before)' /\ Stored(after)' /\ Stored(patch)'
  BY <1>4, <1>8, <1>13, <1>14, KeyOf DEF TextOf, DeviceOf, Stored
<1>19. ValidMaterialization(r)'
  <2>1. AfterOf(r)' = after /\ PatchOf(r)' = patch
    BY DEF AfterOf, PatchOf
  <2>2. Repaired[TextOf(before)]' = text /\ DeviceOf(before)' = device
    BY <1>10, <1>18
  <2>3. QED
    BY <1>8, <1>13, <1>14, <1>15, <1>18, <2>1, <2>2 DEF ValidMaterialization
<1>20. ValidConfiguration(a)'
  BY <1>7, <1>11, <1>14 DEF ValidConfiguration, Identity
<1>21. ValidPatch(p)'
  <2>1. Parsed[TextOf(before)].telnet
    <3>1. CandidateOf(r) \in Of("candidate") /\ CandidateOf(r) \in Key /\ Stored(CandidateOf(r))
      BY <1>1, <1>8, KeysOf DEF ParentsAgree, CandidateOf, Kind, Minted
    <3>2. PICK n \in Key : n = CandidateOf(r) /\ rows[n] # None /\ n[1] = "candidate"
      BY <3>1, KeyOf DEF Stored, Kind, Minted
    <3>3. ValidRow(rows[n]) /\ rows[n].wish.kind = "candidate"
      BY <1>3, <3>2 DEF StoreInv, RowShape, RecordsReadable, Readable
    <3>4. rows[n].wish.about = before
      BY <1>8, <3>2 DEF ParentsAgree
    <3>5. QED
      BY <3>3, <3>4 DEF ValidRow, ValidCandidate
  <2>2. TextOf(before) # text
    BY <1>11, <2>1
  <2>3. before # after
    BY <1>4, <1>8 DEF Prepared
  <2>4. Identity(TextOf(before)) = Identity(text)
    BY <1>8, <1>10 DEF Prepared
  <2>5. rows[before].at <= r.at /\ r.wish.pinned /\ r.at <= r.at
    BY <1>1, <1>8 DEF ParentsAgree, Record, Time
  <2>6. Comparable(before, after)'
    BY <1>8, <1>10, <1>13, <1>14, <1>18, <2>2, <2>3, <2>4, <2>5 DEF Comparable, Identity
  <2>7. QED
    BY <1>13, <1>14, <1>15, <1>18, <2>5, <2>6 DEF ValidPatch
<1>22. ValidRow(r)' /\ ValidRow(a)' /\ ValidRow(p)'
  BY <1>1, <1>14, <1>15, <1>19, <1>20, <1>21 DEF ValidRow
<1>23. /\ before[1] = "configuration" /\ CandidateOf(r) \in Key
       /\ CandidateOf(r)[1] = "candidate" /\ Stored(CandidateOf(r))'
  <2>1. before[1] = "configuration"
    BY <1>8, KeyOf DEF Kind, Minted
  <2>2. CandidateOf(r) \in Key /\ CandidateOf(r)[1] = "candidate"
    BY <1>1, KeysOf DEF CandidateOf, Kind, Minted
  <2>3. Stored(CandidateOf(r))
    BY <1>8 DEF ParentsAgree
  <2>4. Stored(CandidateOf(r))'
    BY <1>3, <2>2, <2>3, RowStays
  <2>5. QED
    BY <2>1, <2>2, <2>4
<1>24. Cited(x)' /\ Cited(after)' /\ Cited(patch)'
  <2>1. /\ Basis(a) = {before, None} /\ Basis(p) = {before, after, None}
        /\ Basis(r) = {before, None, CandidateOf(r), after, patch}
    BY <1>1, <1>14, <1>15 DEF Basis, Shaped, Minted
  <2>2. \A y \in (Basis(a) \union Basis(p) \union Basis(r)) \ {None} :
          Stored(y)' /\ y \in Key /\ y[1] # "inference"
    BY <1>4, <1>8, <1>18, <1>23, <2>1
  <2>3. \A y \in Basis(a) \ {None} : Stored(y)' /\ y \in Key /\ y[1] # "inference"
    BY <2>2
  <2>4. \A y \in Basis(p) \ {None} : Stored(y)' /\ y \in Key /\ y[1] # "inference"
    BY <2>2
  <2>5. \A y \in Basis(r) \ {None} : Stored(y)' /\ y \in Key /\ y[1] # "inference"
    BY <2>2
  <2>6. QED
    BY <1>6, <1>13, <2>3, <2>4, <2>5 DEF Cited, Basis, CandidateOf, AfterOf, PatchOf
<1>25. /\ audit'[x] = Audited(x)' /\ audit'[after] = Audited(after)'
       /\ audit'[patch] = Audited(patch)'
  <2>1. \A y \in {x, after, patch} : audit[y] = 0 /\ outcomes'[y] = None /\ y \notin sources
    BY <1>1, <1>3, <1>4, <1>5 DEF StoreInv, Audited
  <2>2. audit \in [Key -> Nat]
    BY <1>3 DEF StoreInv
  <2>3. audit' = [audit EXCEPT ![x] = @ + 1, ![after] = @ + 2, ![patch] = @ + 1]
    BY <1>2 DEF CommitMaterialization
  <2>4. audit'[x] = 1 /\ audit'[after] = 2 /\ audit'[patch] = 1
    BY <1>1, <1>4, <2>1, <2>2, <2>3
  <2>5. x \notin sources' /\ patch \notin sources' /\ after \in sources'
    BY <1>4, <1>7, <2>1
  <2>6. rows'[x] # None /\ rows'[after] # None /\ rows'[patch] # None
    BY <1>1, <1>6, <1>13, StoreConstants
  <2>7. QED
    BY <2>1, <2>4, <2>5, <2>6 DEF Audited
<1>26. QED
  <2>1. ValidRow(rows[x])' /\ ValidRow(rows[after])' /\ ValidRow(rows[patch])'
    BY <1>6, <1>13, <1>22
  <2>2. QED
    BY <1>2, <1>6, <1>7, <1>17, <1>24, <1>25, <2>1

\* The outputs of a materialization stay its own, and new ones are.
LEMMA OutputsStay ==
  ASSUME IInv, NEW c \in Caller, Inserts(c)
  PROVE  Outputs'
<1>1. PICK x, r, w : x = Id(c) /\ r = made[c] /\ w = wants[c]
  OBVIOUS
<1>2. /\ Outputs /\ TablesGrow /\ r.wish = w /\ r # None
      /\ x \in Key /\ x[1] = w.kind /\ rows[x] = None
      /\ w.kind \in Minted => w.name = None
  BY <1>1, Inserting, InsertGrows, StoreConstants DEF IInv, StoreInv, Requested
<1>3. /\ \A y \in Key : rows[y] # None => rows'[y] = rows[y]
      /\ \A y \in Key : rows'[y] # None /\ rows[y] = None => y \in Added(c)
      /\ rows'[x] = r
  BY <1>1, <1>2, InsertGrows DEF TablesGrow
<1>4. ASSUME NEW y \in Key, y[1] = "materialization", rows[y] # None
      PROVE  /\ Stored(AfterOf(rows[y])) /\ AfterOf(rows[y]) \in sources
             /\ Stored(PatchOf(rows[y]))
             /\ Stored(AfterOf(rows[y]))' /\ AfterOf(rows[y])' \in sources'
             /\ Stored(PatchOf(rows[y]))'
             /\ AfterOf(rows[y])' = AfterOf(rows[y])
  <2>1. /\ Stored(AfterOf(rows[y])) /\ AfterOf(rows[y]) \in sources
        /\ Stored(PatchOf(rows[y]))
    BY <1>2, <1>4 DEF Outputs
  <2>2. rows'[y] = rows[y]
    BY <1>3, <1>4
  <2>3. /\ AfterOf(rows[y])' = AfterOf(rows[y]) /\ PatchOf(rows[y])' = PatchOf(rows[y])
    BY <2>2 DEF AfterOf, PatchOf
  <2>4. Shaped(rows[y].wish) /\ rows[y].wish.kind = "materialization"
    BY <1>4 DEF IInv, StoreInv, RowShape
  <2>5. AfterOf(rows[y]) \in Key /\ PatchOf(rows[y]) \in Key
    BY <2>4, KeysOf DEF Shaped, AfterOf, PatchOf, Kind, Minted
  <2>6. rows'[AfterOf(rows[y])] # None /\ rows'[PatchOf(rows[y])] # None
    BY <1>3, <2>1, <2>5 DEF Stored
  <2>7. Stored(AfterOf(rows[y]))' /\ Stored(PatchOf(rows[y]))'
    BY <2>1, <2>3, <2>6 DEF Stored
  <2>8. AfterOf(rows[y])' \in sources'
    BY <1>2, <2>1, <2>3 DEF TablesGrow
  <2>9. QED
    BY <2>1, <2>3, <2>7, <2>8
<1>5. CASE w.kind # "materialization"
  <2>1. Added(c) = {x}
    BY <1>1, <1>5 DEF Added, Is, Wanted
  <2>2. \A y \in Key : y[1] = "materialization" /\ rows'[y] # None => rows[y] # None
    BY <1>2, <1>3, <1>5, <2>1
  <2>3. \A y \in Key : y[1] = "configuration" /\ rows'[y] # None /\ rows'[y].wish.name # None
                         => rows[y] # None
    BY <1>2, <1>3, <2>1 DEF Minted
  <2>4. \A y \in Key : y[1] = "materialization" /\ rows'[y] # None =>
          /\ Stored(AfterOf(rows[y]))' /\ AfterOf(rows[y])' \in sources'
          /\ Stored(PatchOf(rows[y]))'
    BY <1>4, <2>2
  <2>5. ASSUME NEW y \in Key, y[1] = "configuration", rows'[y] # None,
               rows'[y].wish.name # None
        PROVE  \E z \in Key : z[1] = "materialization" /\ rows'[z] # None
                              /\ AfterOf(rows[z])' = y
    <3>1. rows[y] # None /\ rows'[y] = rows[y]
      BY <1>3, <2>3, <2>5
    <3>2. PICK z \in Key : z[1] = "materialization" /\ rows[z] # None /\ AfterOf(rows[z]) = y
      BY <1>2, <2>5, <3>1 DEF Outputs
    <3>3. QED
      BY <1>3, <1>4, <3>2
  <2>6. ASSUME NEW y \in Key, NEW z \in Key,
               y[1] = "materialization", rows'[y] # None,
               z[1] = "materialization", rows'[z] # None,
               AfterOf(rows[y])' = AfterOf(rows[z])'
        PROVE  y = z
    <3>1. rows[y] # None /\ rows[z] # None
      BY <2>2, <2>6
    <3>2. AfterOf(rows[y]) = AfterOf(rows[z])
      BY <1>4, <2>6, <3>1
    <3>3. QED
      BY <1>2, <2>6, <3>1, <3>2 DEF Outputs
  <2>7. QED
    BY <2>4, <2>5, <2>6 DEF Outputs
<1>6. CASE w.kind = "materialization"
  <2>1. PICK after, patch : after = AfterOf(r) /\ patch = PatchOf(r)
    OBVIOUS
  <2>2. Added(c) = {x, after, patch} /\ after \in sources'
    BY <1>1, <1>6, <2>1, NewOutputs
  <2>3. /\ after \in Key /\ after[1] = "configuration" /\ rows[after] = None
        /\ patch \in Key /\ patch[1] = "patch" /\ after # None /\ patch # None
        /\ rows'[after] # None /\ rows'[patch] # None
    <3>1. Shaped(r.wish) /\ r.wish.kind = "materialization"
      BY <1>1, <1>2, <1>6, Inserting
    <3>2. /\ after \in Key /\ after[1] = "configuration" /\ patch \in Key /\ patch[1] = "patch"
          /\ after # None /\ patch # None
      BY <2>1, <3>1, KeysOf, KeyOf DEF Shaped, AfterOf, PatchOf, Kind, Minted
    <3>3. QED
      BY <2>2, <3>2, InsertGrows
  <2>4. AfterOf(rows[x])' = after /\ PatchOf(rows[x])' = patch
    BY <1>3, <2>1 DEF AfterOf, PatchOf
  <2>5. Stored(after)' /\ Stored(patch)'
    BY <2>3 DEF Stored
  <2>6. \A y \in Key : y[1] = "materialization" /\ rows'[y] # None => rows[y] # None \/ y = x
    BY <1>3, <2>2, <2>3
  <2>7. \A y \in Key : y[1] = "configuration" /\ rows'[y] # None => rows[y] # None \/ y = after
    BY <1>2, <1>3, <1>6, <2>2, <2>3
  <2>8. \A y \in Key : y[1] = "materialization" /\ rows'[y] # None =>
          /\ Stored(AfterOf(rows[y]))' /\ AfterOf(rows[y])' \in sources'
          /\ Stored(PatchOf(rows[y]))'
    <3>1. SUFFICES ASSUME NEW y \in Key, y[1] = "materialization", rows'[y] # None
                   PROVE  /\ Stored(AfterOf(rows[y]))' /\ AfterOf(rows[y])' \in sources'
                          /\ Stored(PatchOf(rows[y]))'
      OBVIOUS
    <3>2. CASE rows[y] # None
      BY <1>4, <3>1, <3>2
    <3>3. CASE y = x
      <4>1. Stored(AfterOf(rows[x]))' /\ Stored(PatchOf(rows[x]))'
        BY <2>4, <2>5 DEF Stored
      <4>2. QED
        BY <2>2, <2>4, <3>3, <4>1
    <3>4. QED
      BY <2>6, <3>1, <3>2, <3>3
  <2>9. ASSUME NEW y \in Key, y[1] = "configuration", rows'[y] # None,
               rows'[y].wish.name # None
        PROVE  \E z \in Key : z[1] = "materialization" /\ rows'[z] # None
                              /\ AfterOf(rows[z])' = y
    <3>1. CASE rows[y] # None
      <4>1. rows'[y] = rows[y]
        BY <1>3, <3>1
      <4>2. PICK z \in Key : z[1] = "materialization" /\ rows[z] # None /\ AfterOf(rows[z]) = y
        BY <1>2, <2>9, <3>1, <4>1 DEF Outputs
      <4>3. QED
        BY <1>3, <1>4, <4>2
    <3>2. CASE y = after
      BY <1>2, <1>3, <1>6, <2>4, <3>2
    <3>3. QED
      BY <2>7, <2>9, <3>1, <3>2
  <2>10. ASSUME NEW y \in Key, NEW z \in Key,
                y[1] = "materialization", rows'[y] # None,
                z[1] = "materialization", rows'[z] # None,
                AfterOf(rows[y])' = AfterOf(rows[z])'
         PROVE  y = z
    <3>1. \A v \in Key : v[1] = "materialization" /\ rows[v] # None => AfterOf(rows[v])' # after
      BY <1>4, <2>3 DEF Stored
    <3>2. CASE rows[y] # None /\ rows[z] # None
      <4>1. AfterOf(rows[y]) = AfterOf(rows[z])
        BY <1>4, <2>10, <3>2
      <4>2. QED
        BY <1>2, <2>10, <3>2, <4>1 DEF Outputs
    <3>3. QED
      BY <2>4, <2>6, <2>10, <3>1, <3>2
  <2>11. QED
    BY <2>8, <2>9, <2>10 DEF Outputs
<1>7. QED
  BY <1>5, <1>6

\* An insertion leaves the tables as every transaction must.
LEMMA InsertSound ==
  ASSUME IInv, NEW c \in Caller, Inserts(c)
  PROVE  StoreInv'
<1>1. PICK N : N = Added(c)
  OBVIOUS
<1>2. /\ StoreInv /\ TablesGrow /\ outcomes' = outcomes /\ N \in SUBSET Key
      /\ \A x \in N : rows[x] = None
      /\ \A x \in Key \ N : rows'[x] = rows[x] /\ audit'[x] = audit[x]
      /\ \A x \in Key \ N : x \in sources' <=> x \in sources
      /\ rows' \in [Key -> Record \union {None}] /\ audit' \in [Key -> Nat]
      /\ DOMAIN devices' = Device /\ sources' \subseteq {x \in Key : rows'[x] # None}
  BY <1>1, InsertGrows DEF IInv
<1>3. \A x \in N : RowShape(x)' /\ Cited(x)' /\ ValidRow(rows[x])' /\ audit'[x] = Audited(x)'
  <2>1. CASE wants[c].kind # "materialization"
    <3>1. N = {Id(c)}
      BY <1>1, <2>1 DEF Added, Is, Wanted
    <3>2. PICK x : x = Id(c)
      OBVIOUS
    <3>3. RowShape(x)' /\ Cited(x)' /\ ValidRow(rows[x])' /\ audit'[x] = Audited(x)'
      BY <2>1, <3>2, NewRow
    <3>4. QED
      BY <3>1, <3>2, <3>3
  <2>2. CASE wants[c].kind = "materialization"
    BY <1>1, <2>2, NewOutputs
  <2>3. QED
    BY <2>1, <2>2
<1>4. Outputs'
  BY OutputsStay
<1>5. QED
  BY <1>2, <1>3, <1>4, StoreGrows

LEMMA QuietSound ==
  ASSUME StoreInv, UNCHANGED tables
  PROVE  StoreInv' /\ TablesGrow
<1>1. /\ rows' = rows /\ outcomes' = outcomes /\ devices' = devices /\ sources' = sources
      /\ audit' = audit
  BY DEF tables
<1>2. TablesGrow
  BY <1>1 DEF TablesGrow
<1>3. Outputs'
  BY <1>1 DEF StoreInv, Outputs, Stored, AfterOf, PatchOf
<1>4. /\ rows \in [Key -> Record \union {None}] /\ audit \in [Key -> Nat]
      /\ DOMAIN devices = Device /\ sources \subseteq {x \in Key : rows[x] # None}
  BY DEF StoreInv
<1>5. PICK N \in SUBSET Key : N = {}
  OBVIOUS
<1>6. QED
  BY <1>1, <1>2, <1>3, <1>4, <1>5, StoreGrows

\* The outcome of an inference is stored once, and is not older than its intent.
LEMMA OutcomeSound ==
  ASSUME IInv, NEW c \in Caller, Concludes(c), NEW x, x = Id(c)
  PROVE  /\ TablesGrow /\ StoreInv' /\ rows' = rows
         /\ x \in Key /\ outcomes[x] = None /\ outcomes'[x] = found[c] /\ rows[x] = made[c]
         /\ \A y \in Key \ {x} : outcomes'[y] = outcomes[y]
<1>1. pc[c] = "commit" /\ CommitOutcome(c) /\ StoreInv
  BY DEF Concludes, IInv
<1>2. /\ wants[c] \in Wish /\ Requested(wants[c]) /\ Is(c, {"inference"})
      /\ made[c] \in Record /\ rows[x] = made[c] /\ outcomes[x] = None
      /\ found[c] \in Ending /\ OutcomeOf(found[c], made[c])
  BY <1>1 DEF IInv, CallInv, Making, Running
<1>3. x \in Key /\ x[1] = "inference" /\ rows[x] # None
  BY <1>2, IdKey, StoreConstants DEF Is, Wanted
<1>4. /\ rows \in [Key -> Record \union {None}] /\ audit \in [Key -> Nat]
      /\ outcomes \in [Key -> Ending \union {None}] /\ DOMAIN devices = Device
      /\ sources \subseteq {y \in Key : rows[y] # None} /\ found[c] # None
  BY <1>1, <1>2, StoreConstants DEF StoreInv
<1>5. /\ outcomes' = [outcomes EXCEPT ![x] = found[c]] /\ audit' = [audit EXCEPT ![x] = @ + 1]
      /\ rows' = rows /\ devices' = devices /\ sources' = sources
  BY <1>1 DEF CommitOutcome
<1>6. /\ outcomes'[x] = found[c] /\ audit'[x] = audit[x] + 1
      /\ \A y \in Key \ {x} : outcomes'[y] = outcomes[y] /\ audit'[y] = audit[y]
  BY <1>3, <1>4, <1>5
<1>7. TablesGrow
  BY <1>2, <1>5, <1>6 DEF TablesGrow
<1>8. outcomes' \in [Key -> Ending \union {None}] /\ audit' \in [Key -> Nat]
  BY <1>2, <1>3, <1>4, <1>5
<1>9. \A y \in Key : RowShape(y)' /\ Cited(y)' /\ audit'[y] = Audited(y)'
  <2>1. SUFFICES ASSUME NEW y \in Key
                 PROVE  RowShape(y)' /\ Cited(y)' /\ audit'[y] = Audited(y)'
    OBVIOUS
  <2>2. RowShape(y) /\ Cited(y) /\ audit[y] = Audited(y)
    BY <1>1 DEF StoreInv
  <2>3. RowShape(y)'
    BY <1>5, <2>2 DEF RowShape
  <2>4. Cited(y)'
    BY <1>5, <2>2 DEF Cited, Basis, CandidateOf, AfterOf, PatchOf, Stored
  <2>5. audit'[y] = Audited(y)'
    BY <1>2, <1>3, <1>4, <1>5, <1>6, <2>2 DEF Audited
  <2>6. QED
    BY <2>3, <2>4, <2>5
<1>10. \A y \in Key : outcomes'[y] # None => y[1] = "inference" /\ rows'[y] # None
  BY <1>1, <1>3, <1>5, <1>6 DEF StoreInv
<1>11. RecordsReadable'
  <2>1. SUFFICES ASSUME NEW y \in Key, rows'[y] # None
                 PROVE  Readable(y)'
    BY DEF RecordsReadable
  <2>2. CASE y # x
    BY <1>1, <1>5, <1>6, <1>7, <2>1, <2>2, ReadableStays
  <2>3. CASE y = x
    <3>1. ValidRow(rows[x]) /\ Shaped(rows[x].wish) /\ rows[x].wish.kind = "inference"
      BY <1>1, <1>3 DEF StoreInv, RowShape, RecordsReadable, Readable
    <3>2. ValidRow(rows[x])'
      BY <1>1, <1>5, <1>7, <3>1, ValidStays
    <3>3. OutcomeOf(outcomes[x], rows[x])'
      BY <1>2, <1>5, <1>6 DEF OutcomeOf
    <3>4. QED
      BY <2>3, <3>2, <3>3 DEF Readable
  <2>4. QED
    BY <2>2, <2>3
<1>12. Outputs'
  BY <1>1, <1>5 DEF StoreInv, Outputs, Stored, AfterOf, PatchOf
<1>13. sources' \subseteq {y \in Key : rows'[y] # None} /\ DOMAIN devices' = Device
       /\ rows' \in [Key -> Record \union {None}]
  BY <1>4, <1>5
<1>14. StoreInv'
  BY <1>8, <1>9, <1>10, <1>11, <1>12, <1>13 DEF StoreInv
<1>15. QED
  BY <1>2, <1>3, <1>5, <1>6, <1>7, <1>14

-----------------------------------------------------------------------------
(* What a handler knows stays true *)

Ready(c) ==
  made[c] \in Record /\ made[c].wish = wants[c] /\ ~Missing(wants[c]) /\ Acceptable(made[c])

LEMMA ReadyStays ==
  ASSUME StoreInv, TablesGrow, NEW c \in Caller, Requested(wants[c]), Ready(c),
         wants'[c] = wants[c], made'[c] = made[c]
  PROVE  Ready(c)'
<1>1. PICK w, r : w = wants[c] /\ r = made[c]
  OBVIOUS
<1>2. r \in Record /\ r.wish = w /\ ~Missing(w) /\ Acceptable(r) /\ Shaped(w)
  BY <1>1 DEF Ready, Requested
<1>3. ~Missing(w)' /\ Acceptable(r)'
  BY <1>2, PresentStays, AcceptableStays
<1>4. QED
  BY <1>1, <1>2, <1>3 DEF Ready

LEMMA ToldStays ==
  ASSUME StoreInv, TablesGrow, NEW c \in Caller, CallInv(c),
         wants'[c] = wants[c], answer'[c] = answer[c],
         pc'[c] = pc[c] \/ pc[c] # "done"
  PROVE  Told(c)'
<1>1. Told(c) /\ (pc[c] # "idle" => wants[c] \in Wish /\ Requested(wants[c]))
  BY DEF CallInv
<1>2. CASE answer[c] = None
  BY <1>2 DEF Told, Answered
<1>3. CASE answer[c] # None
  <2>1. pc[c] = "done" /\ pc'[c] = "done"
    BY <1>1, <1>3 DEF Told
  <2>2. PICK x \in Key : x = Id(c)
    BY <1>1, <2>1, IdKey
  <2>3. Id(c)' = x
    BY <2>2 DEF Id, Is, Wanted
  <2>4. SUFFICES ASSUME Answered(c)
                 PROVE  /\ rows'[x] # None /\ rows'[x].wish = wants'[c]
                        /\ answer'[c].view.row = rows'[x]
                        /\ answer'[c].view.outcome \in {None, outcomes'[x]}
    BY <2>1, <2>3 DEF Told, Answered, Wanted
  <2>5. /\ rows[x] # None /\ rows[x].wish = wants[c] /\ answer[c].view.row = rows[x]
        /\ answer[c].view.outcome \in {None, outcomes[x]}
    BY <1>1, <2>2, <2>4 DEF Told, Wanted
  <2>6. rows'[x] = rows[x] /\ (outcomes[x] # None => outcomes'[x] = outcomes[x])
    BY <2>5 DEF TablesGrow
  <2>7. QED
    BY <2>5, <2>6
<1>4. QED
  BY <1>2, <1>3

\* What the caller's own fields say is the same.
Frozen(c) ==
  /\ pc'[c] = pc[c] /\ site'[c] = site[c] /\ wants'[c] = wants[c] /\ role'[c] = role[c]
  /\ made'[c] = made[c] /\ found'[c] = found[c] /\ answer'[c] = answer[c]

LEMMA OtherStays ==
  ASSUME IInv, TablesGrow, NEW c \in Caller, Frozen(c),
         pc[c] \notin {"done", "dead"} =>
           \A kind \in Minted : rows'[<<kind, c>>] = rows[<<kind, c>>],
         pc[c] \in Running => outcomes'[Id(c)] = outcomes[Id(c)]
  PROVE  CallInv(c)'
<1>1. CallInv(c) /\ StoreInv
  BY DEF IInv
<1>2. PICK x, r, w, f : x = Id(c) /\ r = made[c] /\ w = wants[c] /\ f = found[c]
  OBVIOUS
<1>3. /\ pc[c] # "idle" => site[c] \in Process /\ w \in Wish /\ Requested(w)
      /\ pc'[c] = pc[c] /\ site'[c] = site[c] /\ wants'[c] = w /\ made'[c] = r /\ found'[c] = f
      /\ Id(c)' = x
  BY <1>1, <1>2 DEF Frozen, CallInv, Id, Is, Wanted
<1>4. pc[c] \in Making => /\ r \in Record /\ r.wish = w /\ ~Missing(w) /\ Acceptable(r)
                          /\ Shaped(w) /\ x \in Key /\ Requested(w) /\ Ready(c)
  BY <1>1, <1>2, <1>3, IdKey DEF CallInv, Requested, Making, Ready
<1>5. pc[c] \in Making => Ready(c)'
  BY <1>1, <1>2, <1>3, <1>4, ReadyStays
<1>6. pc'[c] = "insert" /\ Is(c, {"configuration"})' =>
        f \in BOOLEAN /\ (~f => ValidConfiguration(r)')
  <2>1. SUFFICES ASSUME pc[c] = "insert", w.kind = "configuration"
                 PROVE  f \in BOOLEAN /\ (~f => ValidConfiguration(r)')
    BY <1>3 DEF Is, Wanted
  <2>2. f \in BOOLEAN /\ (~f => ValidConfiguration(r))
    BY <1>1, <1>2, <2>1 DEF CallInv, Is, Wanted
  <2>3. r.wish.device \in Device /\ Identity(r.wish.text) # None
    BY <1>4, <2>1, StoreConstants DEF Making, Shaped, Acceptable, Identity
  <2>4. ValidConfiguration(r) => ValidConfiguration(r)'
    BY <1>1, <2>3, IdentityStays DEF ValidConfiguration, Identity
  <2>5. QED
    BY <2>2, <2>4
<1>7. pc'[c] = "insert" /\ Is(c, {"inference"})' => ValidInference(r)'
  <2>1. SUFFICES ASSUME pc[c] = "insert", w.kind = "inference"
                 PROVE  ValidInference(r)'
    BY <1>3 DEF Is, Wanted
  <2>2. ValidInference(r)
    BY <1>1, <1>2, <2>1 DEF CallInv, Is, Wanted
  <2>3. r.wish.kind = "inference" /\ Shaped(r.wish)
    BY <1>4, <2>1 DEF Making
  <2>4. QED
    BY <1>1, <2>2, <2>3, InferenceStays
<1>8. pc'[c] \in Running => Is(c, {"inference"})' /\ rows'[x] = r /\ outcomes'[x] = None
  <2>1. SUFFICES ASSUME pc[c] \in Running
                 PROVE  Is(c, {"inference"})' /\ rows'[x] = r /\ outcomes'[x] = None
    BY <1>3
  <2>2. Is(c, {"inference"}) /\ rows[x] = r /\ outcomes[x] = None
    BY <1>1, <1>2, <2>1 DEF CallInv
  <2>3. x \in Key /\ r # None
    BY <1>4, <2>1, StoreConstants DEF Making, Running
  <2>4. rows'[x] = r /\ outcomes'[x] = None
    BY <1>2, <2>1, <2>2, <2>3 DEF TablesGrow
  <2>5. QED
    BY <1>2, <1>3, <2>2, <2>4 DEF Is, Wanted
<1>9. pc'[c] = "commit" => f \in Ending /\ OutcomeOf(f, r)
  BY <1>1, <1>2, <1>3 DEF CallInv
<1>10. Told(c)'
  BY <1>1, ToldStays DEF Frozen
<1>11. pc'[c] = "slot" => Is(c, {"model", "inference"})'
  BY <1>1, <1>2, <1>3 DEF CallInv, Is, Wanted
<1>12. pc'[c] \notin {"done", "dead"} => \A kind \in Minted : rows'[<<kind, c>>] = None
  BY <1>1, <1>3 DEF CallInv
<1>13. QED
  BY <1>2, <1>3, <1>5, <1>6, <1>7, <1>8, <1>9, <1>10, <1>11, <1>12 DEF CallInv, Ready, OutcomeOf

-----------------------------------------------------------------------------
(* The steps of a handler *)

\* What is shown of every step of c's own.
Holding == {"prepare", "reserve", "insert", "raced", "running", "failing", "commit"}
Stages == {"idle", "lookup", "slot", "prepare", "done", "dead"} \union Making

Good(c) ==
  /\ TypeOK'
  /\ SlotsFreeAgain'
  /\ CallInv(c)'
  /\ Owns(c)' => Owns(c) \/ rows[Id(c)] = None
  /\ wants'[c] = wants[c] \/ ~Owns(c)'
  /\ \A d \in Caller \ {c} : Frozen(d)

\* An answer releases the slots of c, and of no other.
LEMMA AnswerKeeps ==
  ASSUME TypeOK, SlotsFreeAgain, NEW c \in Caller, NEW code, NEW view,
         Answer(c, code, view), UNCHANGED <<call, made, found>>
  PROVE  /\ slots' \in [Process -> [training: Caller \union {None},
                                    worker: Caller \union {None}]]
         /\ pc' \in [Caller -> Stages] /\ pc'[c] = "done"
         /\ answer'[c] = [code |-> code, view |-> view] /\ DOMAIN answer' = Caller
         /\ \A d \in Caller \ {c} : Frozen(d)
         /\ SlotsFreeAgain'
<1>1. /\ slots \in [Process -> [training: Caller \union {None}, worker: Caller \union {None}]]
      /\ pc \in [Caller -> Stages] /\ DOMAIN answer = Caller
  BY DEF TypeOK, Stages
<1>2. /\ pc' = [pc EXCEPT ![c] = "done"]
      /\ answer' = [answer EXCEPT ![c] = [code |-> code, view |-> view]]
      /\ site' = site /\ wants' = wants /\ role' = role /\ made' = made /\ found' = found
  BY DEF Answer, Goto, call
<1>3. slots' = [q \in Process |-> [s \in DOMAIN slots[q] |->
                 IF slots[q][s] = c THEN None ELSE slots[q][s]]]
  BY DEF Answer
<1>4. \A q \in Process : DOMAIN slots[q] = {"training", "worker"}
  BY <1>1
<1>5. \A q \in Process, s \in {"training", "worker"} :
        slots'[q][s] = IF slots[q][s] = c THEN None ELSE slots[q][s]
  BY <1>3, <1>4
<1>6. slots' \in [Process -> [training: Caller \union {None}, worker: Caller \union {None}]]
  BY <1>1, <1>3, <1>4
<1>7. SlotsFreeAgain'
  BY <1>1, <1>2, <1>5 DEF SlotsFreeAgain, SlotOf, Is, Wanted
<1>8. pc' \in [Caller -> Stages]
  BY <1>1, <1>2 DEF Stages
<1>9. QED
  BY <1>1, <1>2, <1>6, <1>7, <1>8 DEF Frozen

\* A step from a stage in which c may hold a slot leads to another such stage.
LEMMA ContinueKeeps ==
  ASSUME TypeOK, SlotsFreeAgain, NEW c \in Caller, NEW s \in Stages, Continue(c, s),
         UNCHANGED call,
         \A d \in Caller \ {c} : made'[d] = made[d] /\ found'[d] = found[d],
         \/ s \in Holding
         \/ pc[c] \notin Holding
         \/ ~Is(c, {"model", "inference"})
  PROVE  /\ slots' = slots /\ answer' = answer
         /\ pc' \in [Caller -> Stages] /\ pc'[c] = s
         /\ \A d \in Caller \ {c} : Frozen(d)
         /\ SlotsFreeAgain'
<1>1. /\ slots \in [Process -> [training: Caller \union {None}, worker: Caller \union {None}]]
      /\ pc \in [Caller -> Stages]
  BY DEF TypeOK, Stages
<1>2. /\ pc' = [pc EXCEPT ![c] = s] /\ slots' = slots /\ answer' = answer
      /\ site' = site /\ wants' = wants /\ role' = role
  BY DEF Continue, Goto, call
<1>3. SlotsFreeAgain'
  <2>1. SUFFICES ASSUME NEW q \in Process, NEW t \in {"training", "worker"},
                        NEW d, d = slots[q][t], d # None
                 PROVE  /\ site[d] = q /\ SlotOf(d)' = t /\ Is(d, {"model", "inference"})'
                        /\ pc'[d] \in Holding
    BY <1>2 DEF SlotsFreeAgain, Holding
  <2>2. /\ site[d] = q /\ SlotOf(d) = t /\ Is(d, {"model", "inference"}) /\ pc[d] \in Holding
    BY <2>1 DEF SlotsFreeAgain, Holding
  <2>3. d \in Caller
    BY <1>1, <2>1
  <2>4. SlotOf(d)' = t /\ Is(d, {"model", "inference"})'
    BY <1>2, <2>2 DEF SlotOf, Is, Wanted
  <2>5. pc'[d] \in Holding
    BY <1>1, <1>2, <2>2, <2>3
  <2>6. QED
    BY <2>2, <2>4, <2>5
<1>4. pc' \in [Caller -> Stages]
  BY <1>1, <1>2
<1>5. QED
  BY <1>1, <1>2, <1>3, <1>4 DEF Frozen

\* The server's ids are not taken by others.
LEMMA MintedStay ==
  ASSUME IInv, NEW c \in Caller, Inserts(c)
  PROVE  \A d \in Caller : d # c \/ wants[c].kind \notin Minted =>
           \A kind \in Minted : rows'[<<kind, d>>] = rows[<<kind, d>>]
<1>1. SUFFICES ASSUME NEW d \in Caller, d # c \/ wants[c].kind \notin Minted,
                      NEW kind \in Minted
               PROVE  rows'[<<kind, d>>] = rows[<<kind, d>>]
  OBVIOUS
<1>2. <<kind, d>> \in Key
  BY KeysOf DEF Kind
<1>3. wants[c] \in Wish /\ Requested(wants[c]) /\ made[c].wish = wants[c] /\ Shaped(wants[c])
  BY Inserting
<1>4. Id(c) # <<kind, d>>
  <2>1. CASE wants[c].kind \in Minted
    BY <1>1, <1>3, <2>1, IdKey
  <2>2. CASE wants[c].kind \notin Minted
    BY <1>3, <2>2, IdKey, StoreConstants
  <2>3. QED
    BY <2>1, <2>2
<1>5. wants[c].kind = "materialization" =>
        AfterOf(made[c]) # <<kind, d>> /\ PatchOf(made[c]) # <<kind, d>>
  BY <1>3, StoreConstants DEF AfterOf, PatchOf, Shaped
<1>6. <<kind, d>> \notin Added(c)
  BY <1>4, <1>5 DEF Added, Is, Wanted
<1>7. QED
  BY <1>2, <1>6, InsertGrows

\* A stored record is shown as it is.
LEMMA ReplayTold ==
  ASSUME IInv, NEW c \in Caller, wants[c] \in Wish, Requested(wants[c]), Stored(Id(c)),
         Replay(c), UNCHANGED <<tables, call, made, found>>
  PROVE  /\ Told(c)' /\ answer'[c].code # "created"
<1>1. PICK x \in Key : x = Id(c) /\ rows[x] # None
  BY IdKey DEF Stored
<1>2. /\ Id(c)' = x /\ rows' = rows /\ outcomes' = outcomes /\ wants' = wants
  BY <1>1 DEF Id, Is, Wanted, tables, call
<1>3. pc'[c] = "done" /\ answer'[c] = [code |-> ReplayCode(c),
                                       view |-> IF ReplayCode(c) = "found" THEN View(Id(c)) ELSE None]
  BY AnswerKeeps DEF Replay, IInv
<1>4. ReplayCode(c) \in {"unavailable", "found", "conflict"}
  BY DEF ReplayCode
<1>5. ReplayCode(c) = "found" => rows[x].wish = wants[c]
  BY <1>1 DEF ReplayCode, Wanted
<1>6. ReplayCode(c) = "found" => answer'[c].view = [row |-> rows[x], outcome |-> outcomes[x]]
  BY <1>1, <1>3 DEF View
<1>7. Answered(c)' => ReplayCode(c) = "found"
  BY <1>3, <1>4 DEF Answered
<1>8. QED
  BY <1>1, <1>2, <1>3, <1>4, <1>5, <1>6, <1>7 DEF Told, Wanted

\* A step that answers is good when what it tells is true.
LEMMA AnswerGood ==
  ASSUME IInv, NEW c \in Caller, NEW code, NEW view, Answer(c, code, view),
         UNCHANGED <<call, made, found, offered>>, clock' \in Time, faults' \in Nat,
         pc[c] # "idle", Told(c)',
         code = "created" => Owns(c) \/ rows[Id(c)] = None
  PROVE  Good(c)
<1>1. TypeOK /\ SlotsFreeAgain /\ CallInv(c)
  BY DEF IInv
<1>2. /\ slots' \in [Process -> [training: Caller \union {None},
                                 worker: Caller \union {None}]]
      /\ pc' \in [Caller -> Stages] /\ pc'[c] = "done"
      /\ answer'[c] = [code |-> code, view |-> view] /\ DOMAIN answer' = Caller
      /\ \A d \in Caller \ {c} : Frozen(d)
      /\ SlotsFreeAgain'
  BY <1>1, AnswerKeeps
<1>3. site' = site /\ wants' = wants /\ role' = role /\ made' = made /\ found' = found
  BY DEF call
<1>4. TypeOK'
  BY <1>1, <1>2, <1>3 DEF TypeOK, Stages
<1>5. CallInv(c)'
  BY <1>1, <1>2, <1>3 DEF CallInv, Making, Running
<1>6. Owns(c)' => Owns(c) \/ rows[Id(c)] = None
  BY <1>2 DEF Owns, Running
<1>7. QED
  BY <1>2, <1>3, <1>4, <1>5, <1>6 DEF Good

\* So is one that tells nothing of a record.
LEMMA Refused ==
  ASSUME IInv, NEW c \in Caller, NEW code, NEW view, Answer(c, code, view),
         UNCHANGED <<call, made, found, offered>>, clock' \in Time, faults' \in Nat,
         pc[c] # "idle", code \notin {"created", "found"}
  PROVE  Good(c)
<1>1. pc'[c] = "done" /\ answer'[c] = [code |-> code, view |-> view]
  BY AnswerKeeps DEF IInv
<1>2. Told(c)'
  BY <1>1 DEF Told, Answered
<1>3. QED
  BY <1>2, AnswerGood

\* A step that goes on is good when c then knows what it has to.
LEMMA ContinueGood ==
  ASSUME IInv, NEW c \in Caller, NEW s \in Stages, Continue(c, s),
         UNCHANGED <<call, world>>,
         \A d \in Caller \ {c} : made'[d] = made[d] /\ found'[d] = found[d],
         made' \in [Caller -> Record \union {None}], DOMAIN found' = Caller,
         \/ s \in Holding
         \/ pc[c] \notin Holding
         \/ ~Is(c, {"model", "inference"}),
         CallInv(c)', pc[c] # "done",
         s \in Running => Owns(c) \/ rows[Id(c)] = None
  PROVE  Good(c)
<1>1. TypeOK /\ SlotsFreeAgain /\ CallInv(c)
  BY DEF IInv
<1>2. /\ slots' = slots /\ answer' = answer
      /\ pc' \in [Caller -> Stages] /\ pc'[c] = s
      /\ \A d \in Caller \ {c} : Frozen(d)
      /\ SlotsFreeAgain'
  BY <1>1, ContinueKeeps
<1>3. /\ site' = site /\ wants' = wants /\ role' = role
      /\ offered' = offered /\ clock' = clock /\ faults' = faults
  BY DEF call, world
<1>4. TypeOK'
  BY <1>1, <1>2, <1>3 DEF TypeOK, Stages
<1>5. answer[c] = None
  BY <1>1 DEF CallInv, Told
<1>6. Owns(c)' => Owns(c) \/ rows[Id(c)] = None
  BY <1>2, <1>5 DEF Owns
<1>7. QED
  BY <1>2, <1>3, <1>4, <1>6 DEF Good

LEMMA AskGood ==
  ASSUME IInv, NEW c \in Caller, NEW o \in offered, NEW as \in Roles(o[2]),
         Ask(c, o[1], o[2], as)
  PROVE  Good(c)
<1>1. TypeOK /\ SlotsFreeAgain /\ CallInv(c)
  BY DEF IInv
<1>2. PICK w, q, s : w = o[2] /\ q = o[1] /\ s = FirstStage(w)
  OBVIOUS
<1>3. w \in Wish /\ Requested(w) /\ q \in Process /\ w.kind \in Kind
  BY <1>1, <1>2 DEF TypeOK, Wish
<1>4. /\ pc[c] = "idle" /\ pc' = [pc EXCEPT ![c] = s] /\ site' = [site EXCEPT ![c] = q]
      /\ wants' = [wants EXCEPT ![c] = w] /\ role' = [role EXCEPT ![c] = as]
      /\ rows' = rows /\ outcomes' = outcomes /\ slots' = slots /\ made' = made
      /\ found' = found /\ answer' = answer
      /\ offered' = offered /\ clock' = clock /\ faults' = faults
  BY <1>2 DEF Ask, Goto, tables, world
<1>5. s \in {"slot", "prepare", "lookup"} /\ (s = "slot" => w.kind = "model")
  BY <1>2, <1>3 DEF FirstStage, Kind, Minted
<1>6. as \in Role \union {None}
  BY DEF Roles
<1>7. answer[c] = None
  BY <1>1, <1>4 DEF CallInv, Told
<1>8. TypeOK'
  BY <1>1, <1>3, <1>4, <1>5, <1>6 DEF TypeOK
<1>9. SlotsFreeAgain'
  <2>1. SUFFICES ASSUME NEW p \in Process, NEW t \in {"training", "worker"},
                        NEW d, d = slots[p][t], d # None
                 PROVE  /\ site'[d] = p /\ SlotOf(d)' = t /\ Is(d, {"model", "inference"})'
                        /\ pc'[d] \in Holding
    BY <1>4 DEF SlotsFreeAgain, Holding
  <2>2. /\ site[d] = p /\ SlotOf(d) = t /\ Is(d, {"model", "inference"}) /\ pc[d] \in Holding
    BY <1>1, <2>1 DEF SlotsFreeAgain, Holding
  <2>3. d \in Caller /\ d # c
    BY <1>1, <1>4, <2>1, <2>2 DEF TypeOK, Holding
  <2>4. QED
    BY <1>1, <1>4, <2>2, <2>3 DEF TypeOK, SlotOf, Is, Wanted
<1>10. pc'[c] = s /\ site'[c] = q /\ wants'[c] = w
  BY <1>1, <1>4 DEF TypeOK
<1>11. CallInv(c)'
  BY <1>1, <1>3, <1>4, <1>5, <1>7, <1>10
     DEF CallInv, Told, Answered, Making, Running, Is, Wanted
<1>12. ~Owns(c)'
  BY <1>4, <1>5, <1>7, <1>10 DEF Owns, Running
<1>13. \A d \in Caller \ {c} : Frozen(d)
  BY <1>1, <1>4 DEF TypeOK, Frozen
<1>14. QED
  BY <1>8, <1>9, <1>11, <1>12, <1>13 DEF Good

\* Until a row is prepared, c knows no more than its request.
LEMMA EarlyGood ==
  ASSUME IInv, NEW c \in Caller, NEW s \in {"slot", "prepare"}, Continue(c, s),
         UNCHANGED <<tables, call, made, found, world>>,
         pc[c] \in {"lookup", "slot"}, s = "slot" => Is(c, {"model", "inference"})
  PROVE  Good(c)
<1>1. TypeOK /\ CallInv(c) /\ SlotsFreeAgain
  BY DEF IInv
<1>2. s \in Stages /\ pc[c] \notin Holding /\ s \notin Running /\ s \notin Making
  BY DEF Stages, Holding, Running, Making
<1>3. pc'[c] = s /\ answer' = answer
  BY <1>1, <1>2, ContinueKeeps
<1>4. answer[c] = None
  BY <1>1 DEF CallInv, Told
<1>5. CallInv(c)'
  BY <1>1, <1>2, <1>3, <1>4
     DEF CallInv, Told, Answered, Making, Running, Is, Wanted, tables, call
<1>6. made' \in [Caller -> Record \union {None}] /\ DOMAIN found' = Caller
  BY <1>1 DEF TypeOK
<1>7. QED
  BY <1>2, <1>5, <1>6, ContinueGood

LEMMA LookupGood ==
  ASSUME IInv, NEW c \in Caller, Lookup(c)
  PROVE  Good(c)
<1>1. /\ pc[c] = "lookup" /\ wants[c] \in Wish /\ Requested(wants[c])
      /\ clock \in Time /\ faults \in Nat
  BY DEF Lookup, IInv, CallInv, TypeOK
<1>2. UNCHANGED <<tables, call, made, found, world>>
  BY DEF Lookup
<1>3. /\ UNCHANGED <<call, made, found, offered>> /\ clock' \in Time /\ faults' \in Nat
  BY <1>1, <1>2 DEF world
<1>4. CASE Answer(c, "consent_required", None) \/ Answer(c, "disabled", None)
  BY <1>1, <1>3, <1>4, Refused
<1>5. CASE Stored(Id(c)) /\ Replay(c)
  <2>1. Told(c)' /\ answer'[c].code # "created"
    BY <1>1, <1>2, <1>5, ReplayTold
  <2>2. PICK code, view : Answer(c, code, view) /\ Replay(c)
    BY <1>5 DEF Replay
  <2>3. answer'[c] = [code |-> code, view |-> view]
    BY <1>3, <2>2, AnswerKeeps DEF IInv
  <2>4. QED
    BY <1>1, <1>3, <2>1, <2>2, <2>3, AnswerGood
<1>6. CASE Continue(c, "slot") /\ Is(c, {"inference"})
  BY <1>1, <1>2, <1>6, EarlyGood DEF Is
<1>7. CASE Continue(c, "prepare")
  BY <1>1, <1>2, <1>7, EarlyGood
<1>8. QED
  BY <1>4, <1>5, <1>6, <1>7 DEF Lookup

LEMMA TakeSlotGood ==
  ASSUME IInv, NEW c \in Caller, TakeSlot(c)
  PROVE  Good(c)
<1>1. /\ pc[c] = "slot" /\ site[c] \in Process /\ Is(c, {"model", "inference"})
      /\ clock \in Time /\ faults \in Nat /\ TypeOK /\ CallInv(c) /\ SlotsFreeAgain
      /\ wants[c] \in Wish /\ Requested(wants[c])
  BY DEF TakeSlot, IInv, CallInv, TypeOK
<1>2. UNCHANGED <<tables, call, made, found, world>>
  BY DEF TakeSlot
<1>3. CASE Answer(c, "busy", None)
  BY <1>1, <1>2, <1>3, Refused DEF world
<1>4. CASE /\ slots[site[c]][SlotOf(c)] = None
           /\ slots' = [slots EXCEPT ![site[c]][SlotOf(c)] = c]
           /\ Goto(c, "prepare")
           /\ UNCHANGED answer
  <2>1. PICK q, t : q = site[c] /\ t = SlotOf(c)
    OBVIOUS
  <2>2. t \in {"training", "worker"} /\ q \in Process
    BY <1>1, <2>1 DEF SlotOf
  <2>3. /\ slots \in [Process -> [training: Caller \union {None},
                                  worker: Caller \union {None}]]
        /\ pc \in [Caller -> Stages]
    BY <1>1 DEF TypeOK, Stages
  <2>4. /\ pc' = [pc EXCEPT ![c] = "prepare"] /\ site' = site /\ wants' = wants /\ role' = role
        /\ made' = made /\ found' = found /\ answer' = answer /\ rows' = rows
        /\ outcomes' = outcomes /\ offered' = offered /\ clock' = clock /\ faults' = faults
    BY <1>2, <1>4 DEF Goto, call, tables, world
  <2>5. \A p \in Process, u \in {"training", "worker"} :
          slots'[p][u] = IF p = q /\ u = t THEN c ELSE slots[p][u]
    BY <1>4, <2>1, <2>2, <2>3
  <2>6. slots' \in [Process -> [training: Caller \union {None}, worker: Caller \union {None}]]
    <3>1. slots' = [slots EXCEPT ![q] = [slots[q] EXCEPT ![t] = c]]
      BY <1>4, <2>1
    <3>2. [slots[q] EXCEPT ![t] = c] \in [training: Caller \union {None},
                                          worker: Caller \union {None}]
      BY <2>2, <2>3
    <3>3. QED
      BY <2>2, <2>3, <3>1, <3>2
  <2>7. SlotsFreeAgain'
    <3>1. SUFFICES ASSUME NEW p \in Process, NEW u \in {"training", "worker"},
                          NEW d, d = slots'[p][u], d # None
                   PROVE  /\ site[d] = p /\ SlotOf(d) = u /\ Is(d, {"model", "inference"})
                          /\ pc'[d] \in Holding
      BY <2>4 DEF SlotsFreeAgain, Holding, SlotOf, Is, Wanted
    <3>2. CASE p = q /\ u = t
      BY <1>1, <2>1, <2>3, <2>4, <2>5, <3>1, <3>2 DEF Holding
    <3>3. CASE ~(p = q /\ u = t)
      <4>1. d = slots[p][u]
        BY <2>5, <3>1, <3>3
      <4>2. /\ site[d] = p /\ SlotOf(d) = u /\ Is(d, {"model", "inference"})
            /\ pc[d] \in Holding
        BY <1>1, <3>1, <4>1 DEF SlotsFreeAgain, Holding
      <4>3. d \in Caller
        BY <2>3, <3>1, <4>1
      <4>4. pc'[d] \in Holding
        BY <2>3, <2>4, <4>2, <4>3 DEF Holding
      <4>5. QED
        BY <4>2, <4>4
    <3>4. QED
      BY <3>2, <3>3
  <2>8. TypeOK'
    BY <1>1, <2>4, <2>6 DEF TypeOK
  <2>9. pc'[c] = "prepare" /\ answer[c] = None
    BY <1>1, <2>3, <2>4 DEF CallInv, Told
  <2>10. CallInv(c)'
    BY <1>1, <2>4, <2>9 DEF CallInv, Told, Answered, Making, Running, Is, Wanted
  <2>11. ~Owns(c)'
    BY <2>4, <2>9 DEF Owns, Running
  <2>12. \A d \in Caller \ {c} : Frozen(d)
    BY <2>3, <2>4 DEF Frozen
  <2>13. QED
    BY <2>7, <2>8, <2>10, <2>11, <2>12 DEF Good
<1>5. QED
  BY <1>3, <1>4 DEF TakeSlot

\* A step with a prepared row that changes no table.
LEMMA MakingGood ==
  ASSUME IInv, NEW c \in Caller, NEW s \in Making, Continue(c, s),
         UNCHANGED <<tables, call, world>>,
         \A d \in Caller \ {c} : made'[d] = made[d] /\ found'[d] = found[d],
         made' \in [Caller -> Record \union {None}], DOMAIN found' = Caller,
         pc[c] \in Making \union {"prepare"}, Ready(c)',
         Is(c, {"model", "inference"}) => s \in Holding,
         NEW r, r = made'[c],
         s = "insert" /\ Is(c, {"configuration"}) =>
           found'[c] \in BOOLEAN /\ (~found'[c] => ValidConfiguration(r)'),
         s = "insert" /\ Is(c, {"inference"}) => ValidInference(r)',
         s \in Running => pc[c] \in Running /\ made'[c] = made[c],
         s = "commit" => found'[c] \in Ending /\ OutcomeOf(found'[c], r)
  PROVE  Good(c)
<1>1. TypeOK /\ CallInv(c) /\ SlotsFreeAgain
  BY DEF IInv
<1>2. s \in Stages /\ s \notin {"done", "dead", "slot", "idle"} /\ pc[c] \notin {"done", "dead", "idle"}
  BY DEF Stages, Making
<1>3. \/ s \in Holding
      \/ pc[c] \notin Holding
      \/ ~Is(c, {"model", "inference"})
  OBVIOUS
<1>4. pc'[c] = s /\ answer' = answer
  BY <1>1, <1>2, <1>3, ContinueKeeps
<1>5. /\ rows' = rows /\ outcomes' = outcomes /\ site' = site /\ wants' = wants
      /\ Id(c)' = Id(c) /\ Told(c)'
  <2>1. rows' = rows /\ outcomes' = outcomes /\ site' = site /\ wants' = wants
    BY DEF tables, call
  <2>2. answer[c] = None
    BY <1>1, <1>2 DEF CallInv, Told
  <2>3. Told(c)'
    BY <1>4, <2>2 DEF Told, Answered
  <2>4. QED
    BY <2>1, <2>3 DEF Id, Is, Wanted
<1>6. CallInv(c)'
  <2>1. pc'[c] # "idle" => site'[c] \in Process /\ wants'[c] \in Wish /\ Requested(wants[c])'
    BY <1>1, <1>2, <1>5 DEF CallInv
  <2>2. \A kind \in Minted : rows'[<<kind, c>>] = None
    BY <1>1, <1>2, <1>5 DEF CallInv
  <2>3. /\ made'[c] \in Record /\ made'[c].wish = wants'[c] /\ ~Missing(wants[c])'
        /\ Acceptable(made[c])'
    BY DEF Ready
  <2>4. pc'[c] = "insert" /\ Is(c, {"configuration"})' =>
          found'[c] \in BOOLEAN /\ (~found'[c] => ValidConfiguration(made[c])')
    BY <1>4, <1>5 DEF Is, Wanted
  <2>5. pc'[c] = "insert" /\ Is(c, {"inference"})' => ValidInference(made[c])'
    BY <1>4, <1>5 DEF Is, Wanted
  <2>6. pc'[c] \in Running =>
          Is(c, {"inference"})' /\ rows'[Id(c)'] = made'[c] /\ outcomes'[Id(c)'] = None
    BY <1>1, <1>4, <1>5 DEF CallInv, Is, Wanted
  <2>7. pc'[c] = "commit" => found'[c] \in Ending /\ OutcomeOf(found'[c], made'[c])
    BY <1>4
  <2>8. QED
    BY <1>2, <1>4, <1>5, <2>1, <2>2, <2>3, <2>4, <2>5, <2>6, <2>7 DEF CallInv, OutcomeOf
<1>7. s \in Running => Owns(c)
  BY DEF Owns
<1>8. QED
  BY <1>2, <1>3, <1>6, <1>7, ContinueGood

LEMMA PrepareGood ==
  ASSUME IInv, NEW c \in Caller, Prepare(c)
  PROVE  Good(c)
<1>1. /\ pc[c] = "prepare" /\ TypeOK /\ CallInv(c) /\ StoreInv
      /\ wants[c] \in Wish /\ Requested(wants[c]) /\ clock \in Time /\ faults \in Nat
  BY DEF Prepare, IInv, CallInv, TypeOK
<1>2. UNCHANGED <<tables, call, found, world>>
  BY DEF Prepare
<1>3. CASE /\ UNCHANGED made
           /\ \E code \in {"not_found", "conflict", "error"} : Answer(c, code, None)
  BY <1>1, <1>2, <1>3, Refused DEF world
<1>4. CASE /\ ~Missing(wants[c]) /\ Acceptable(New(c))
           /\ made' = [made EXCEPT ![c] = New(c)]
           /\ Continue(c, AfterPreparing(c))
  <2>1. PICK r, w, s : r = New(c) /\ w = wants[c] /\ s = AfterPreparing(c)
    OBVIOUS
  <2>2. w.kind \in Kind /\ r \in Record /\ r.wish = w
    BY <1>1, <2>1 DEF New, Record, TypeOK, Wanted, Wish
  <2>3. /\ made \in [Caller -> Record \union {None}] /\ DOMAIN found = Caller
    BY <1>1 DEF TypeOK
  <2>4. /\ made'[c] = r /\ \A d \in Caller \ {c} : made'[d] = made[d] /\ found'[d] = found[d]
        /\ made' \in [Caller -> Record \union {None}] /\ DOMAIN found' = Caller
    BY <1>2, <1>4, <2>1, <2>2, <2>3
  <2>5. s \in {"insert", "lock", "reserve"} /\ s \in Making /\ s \notin Running
    BY <2>1 DEF AfterPreparing, Making, Running
  <2>6. s = "insert" => w.kind \in {"model", "analysis"}
    BY <2>1 DEF AfterPreparing, Is, Wanted
  <2>7. Is(c, {"model", "inference"}) => s \in Holding
    BY <2>1 DEF AfterPreparing, Is, Wanted, Holding
  <2>8. wants'[c] = w /\ TablesGrow
    BY <1>1, <1>2, <2>1, QuietSound DEF call
  <2>9. Ready(c)'
    <3>1. ~Missing(w) /\ Acceptable(r) /\ Shaped(w)
      BY <1>1, <1>4, <2>1 DEF Requested
    <3>2. ~Missing(w)' /\ Acceptable(r)'
      BY <1>1, <2>2, <2>8, <3>1, PresentStays, AcceptableStays
    <3>3. QED
      BY <2>2, <2>4, <2>8, <3>2 DEF Ready
  <2>10. s = "insert" => ~Is(c, {"configuration"}) /\ ~Is(c, {"inference"})
    BY <2>1, <2>6 DEF Is, Wanted
  <2>11. s # "commit"
    BY <2>5
  <2>12. Continue(c, s)
    BY <1>4, <2>1
  <2>13. QED
    BY <1>1, <1>2, <2>4, <2>5, <2>7, <2>9, <2>10, <2>11, <2>12, MakingGood
<1>5. QED
  BY <1>3, <1>4 DEF Prepare, Wanted

\* The steps that keep the row that c prepared.
LEMMA StillReady ==
  ASSUME IInv, NEW c \in Caller, pc[c] \in Making, UNCHANGED <<tables, call, made, world>>
  PROVE  /\ TypeOK /\ CallInv(c) /\ Ready(c) /\ Ready(c)' /\ StoreInv /\ TablesGrow
         /\ wants[c] \in Wish /\ Requested(wants[c]) /\ Shaped(wants[c])
         /\ clock' \in Time /\ faults' \in Nat /\ offered' = offered
         /\ made' \in [Caller -> Record \union {None}] /\ made' = made
         /\ pc[c] # "idle"
<1>1. TypeOK /\ CallInv(c) /\ StoreInv /\ pc[c] # "idle"
  BY DEF IInv, Making
<1>2. TablesGrow
  BY <1>1, QuietSound
<1>3. wants[c] \in Wish /\ Requested(wants[c]) /\ Shaped(wants[c])
  BY <1>1 DEF CallInv, Requested
<1>4. Ready(c)
  BY <1>1 DEF CallInv, Ready
<1>5. Ready(c)'
  BY <1>1, <1>2, <1>3, <1>4, ReadyStays DEF call
<1>6. QED
  BY <1>1, <1>2, <1>3, <1>4, <1>5 DEF TypeOK, world

LEMMA LockParentsGood ==
  ASSUME IInv, NEW c \in Caller, LockParents(c)
  PROVE  Good(c)
<1>1. pc[c] = "lock" /\ UNCHANGED <<tables, call, made, found, world>> /\ Continue(c, "reserve")
  BY DEF LockParents
<1>2. Ready(c)' /\ TypeOK /\ made' \in [Caller -> Record \union {None}] /\ pc[c] \in Making
  BY <1>1, StillReady DEF Making
<1>3. DOMAIN found' = Caller
  BY <1>1, <1>2 DEF TypeOK
<1>4. "reserve" \in Making /\ "reserve" \in Holding /\ "reserve" \notin Running
  BY DEF Making, Holding, Running
<1>5. QED
  BY <1>1, <1>2, <1>3, <1>4, MakingGood

LEMMA ReplayGood ==
  ASSUME IInv, NEW c \in Caller, wants[c] \in Wish, Requested(wants[c]), Stored(Id(c)),
         Replay(c), UNCHANGED <<tables, call, made, found, world>>, pc[c] # "idle"
  PROVE  Good(c)
<1>1. clock' \in Time /\ faults' \in Nat /\ UNCHANGED <<call, made, found, offered>>
  BY DEF IInv, TypeOK, world
<1>2. Told(c)' /\ answer'[c].code # "created"
  BY ReplayTold
<1>3. PICK code, view : Answer(c, code, view) /\ Replay(c)
  BY DEF Replay
<1>4. answer'[c] = [code |-> code, view |-> view]
  BY <1>1, <1>3, AnswerKeeps DEF IInv
<1>5. QED
  BY <1>1, <1>2, <1>3, <1>4, AnswerGood

LEMMA ReserveGood ==
  ASSUME IInv, NEW c \in Caller, Reserve(c)
  PROVE  Good(c)
<1>1. pc[c] = "reserve" /\ pc[c] \in Making /\ UNCHANGED <<tables, call, made, world>>
  BY DEF Reserve, Making
<1>2. /\ Ready(c) /\ Ready(c)' /\ TypeOK /\ made' \in [Caller -> Record \union {None}]
      /\ wants[c] \in Wish /\ Requested(wants[c]) /\ StoreInv /\ TablesGrow
      /\ clock' \in Time /\ faults' \in Nat /\ offered' = offered /\ made' = made
      /\ pc[c] # "idle" /\ Shaped(wants[c])
  BY <1>1, StillReady
<1>3. /\ "insert" \in Making /\ "insert" \in Holding /\ "insert" \notin Running
  BY DEF Making, Holding, Running
<1>4. PICK r, w : r = made[c] /\ w = wants[c]
  OBVIOUS
<1>5. r.wish = w /\ r = made'[c] /\ Shaped(w) /\ Acceptable(r)
  BY <1>2, <1>4 DEF Ready
<1>6. CASE \E code \in {"conflict", "unavailable"} : Answer(c, code, None) /\ UNCHANGED found
  BY <1>1, <1>2, <1>6, Refused
<1>7. CASE Stored(Id(c)) /\ Replay(c) /\ UNCHANGED found
  BY <1>1, <1>2, <1>7, ReplayGood
<1>8. CASE /\ Is(c, {"configuration"})
           /\ DeviceNew(Wanted(c).device) \/ ValidConfiguration(made[c])
           /\ found' = [found EXCEPT ![c] = DeviceNew(Wanted(c).device)]
           /\ Continue(c, "insert")
  <2>1. DOMAIN found = Caller
    BY <1>2 DEF TypeOK
  <2>2. /\ DOMAIN found' = Caller /\ \A d \in Caller \ {c} : found'[d] = found[d]
        /\ found'[c] = DeviceNew(w.device)
    BY <1>4, <1>8, <2>1 DEF Wanted
  <2>3. found'[c] \in BOOLEAN
    BY <2>2 DEF DeviceNew
  <2>4. ~found'[c] => ValidConfiguration(r)'
    <3>1. SUFFICES ASSUME ~DeviceNew(w.device) PROVE ValidConfiguration(r)'
      BY <2>2
    <3>2. ValidConfiguration(r)
      BY <1>4, <1>8, <3>1 DEF Wanted
    <3>3. QED
      BY <1>1, <3>2 DEF ValidConfiguration, tables, Identity
  <2>5. ~Is(c, {"inference"})
    BY <1>8 DEF Is
  <2>6. QED
    BY <1>1, <1>2, <1>3, <1>5, <1>8, <2>2, <2>3, <2>4, <2>5, MakingGood
<1>9. CASE /\ ~Is(c, {"configuration"})
           /\ Is(c, {"inference"}) => ValidInference(made[c])
           /\ Continue(c, "insert")
           /\ UNCHANGED found
  <2>1. DOMAIN found' = Caller
    BY <1>2, <1>9 DEF TypeOK
  <2>2. Is(c, {"inference"}) => ValidInference(r)'
    <3>1. SUFFICES ASSUME Is(c, {"inference"}) PROVE ValidInference(r)'
      OBVIOUS
    <3>2. ValidInference(r) /\ r.wish.kind = "inference"
      BY <1>4, <1>5, <1>9, <3>1 DEF Is, Wanted
    <3>3. QED
      BY <1>2, <1>5, <3>2, InferenceStays
  <2>3. QED
    BY <1>1, <1>2, <1>3, <1>5, <1>9, <2>1, <2>2, MakingGood
<1>10. QED
  BY <1>6, <1>7, <1>8, <1>9 DEF Reserve

LEMMA InsertGood ==
  ASSUME IInv, NEW c \in Caller, Insert(c)
  PROVE  Good(c)
<1>1. /\ pc[c] = "insert" /\ UNCHANGED <<call, made, found, world>> /\ TypeOK /\ CallInv(c)
      /\ StoreInv /\ pc[c] \in Making
  BY DEF Insert, IInv, Making
<1>2. /\ clock' \in Time /\ faults' \in Nat /\ offered' = offered
      /\ made' \in [Caller -> Record \union {None}] /\ DOMAIN found' = Caller
  BY <1>1 DEF TypeOK, world
<1>3. PICK x, r, w : x = Id(c) /\ r = made[c] /\ w = wants[c]
  OBVIOUS
<1>4. Id(c)' = x /\ made'[c] = r /\ wants'[c] = w /\ site'[c] = site[c]
  BY <1>1, <1>3 DEF call, Id, Is, Wanted
<1>5. ASSUME KeyUnused(c), Commit(c)
      PROVE  /\ Inserts(c) /\ TablesGrow /\ outcomes' = outcomes /\ rows'[x] = r /\ r # None
             /\ r.wish = w /\ rows[x] = None /\ x \in Key /\ w \in Wish /\ Requested(w)
             /\ Ready(c)'
  <2>1. Inserts(c)
    BY <1>1, <1>5 DEF Inserts
  <2>2. TablesGrow /\ outcomes' = outcomes /\ rows'[x] = r
    BY <1>3, <2>1, InsertGrows
  <2>3. /\ r.wish = w /\ rows[x] = None /\ x \in Key /\ w \in Wish /\ Requested(w)
        /\ Ready(c) /\ r # None
    BY <1>3, <2>1, Inserting, StoreConstants DEF Ready
  <2>4. Ready(c)'
    BY <1>1, <1>3, <1>4, <2>2, <2>3, ReadyStays
  <2>5. QED
    BY <2>1, <2>2, <2>3, <2>4
<1>6. CASE /\ KeyUnused(c) /\ Is(c, {"inference"})
           /\ Commit(c)
           /\ Continue(c, "running")
  <2>1. /\ Inserts(c) /\ TablesGrow /\ outcomes' = outcomes /\ rows'[x] = r /\ r # None
        /\ r.wish = w /\ rows[x] = None /\ x \in Key /\ w \in Wish /\ Requested(w)
        /\ Ready(c)'
    BY <1>5, <1>6
  <2>2. "running" \in Stages /\ "running" \in Holding /\ "running" \in Running
    BY DEF Stages, Holding, Running, Making
  <2>3. pc'[c] = "running" /\ answer' = answer
    BY <1>1, <1>6, <2>2, ContinueKeeps DEF IInv
  <2>4. outcomes'[x] = None
    BY <1>1, <2>1 DEF StoreInv
  <2>5. \A kind \in Minted : rows'[<<kind, c>>] = None
    <3>1. w.kind \notin Minted
      BY <1>3, <1>6 DEF Is, Wanted, Minted
    <3>2. \A kind \in Minted : rows'[<<kind, c>>] = rows[<<kind, c>>]
      BY <1>3, <2>1, <3>1, MintedStay
    <3>3. QED
      BY <1>1, <3>2 DEF CallInv
  <2>6. answer[c] = None
    BY <1>1 DEF CallInv, Told
  <2>7. Told(c)'
    BY <2>3, <2>6 DEF Told, Answered
  <2>8. /\ Is(c, {"inference"})' /\ site'[c] \in Process /\ wants'[c] \in Wish
        /\ Requested(wants[c])'
    BY <1>1, <1>3, <1>4, <1>6, <2>1 DEF CallInv, Is, Wanted
  <2>9. CallInv(c)'
    BY <1>4, <2>1, <2>3, <2>4, <2>5, <2>7, <2>8 DEF CallInv, Ready
  <2>10. rows[Id(c)] = None
    BY <1>3, <2>1
  <2>11. QED
    BY <1>1, <1>2, <1>6, <2>2, <2>9, <2>10, ContinueGood
<1>7. CASE /\ KeyUnused(c) /\ ~Is(c, {"inference"})
           /\ Commit(c)
           /\ Answer(c, "created", [row |-> made[c], outcome |-> None])
  <2>1. /\ rows'[x] = r /\ r # None /\ r.wish = w /\ rows[x] = None
    BY <1>5, <1>7
  <2>2. /\ pc'[c] = "done"
        /\ answer'[c] = [code |-> "created", view |-> [row |-> r, outcome |-> None]]
    BY <1>1, <1>3, <1>7, AnswerKeeps DEF IInv
  <2>3. Told(c)'
    BY <1>4, <2>1, <2>2 DEF Told, Answered, Wanted
  <2>4. rows[Id(c)] = None
    BY <1>3, <2>1
  <2>5. QED
    BY <1>1, <1>2, <1>7, <2>3, <2>4, AnswerGood
<1>8. CASE Continue(c, "raced") /\ UNCHANGED tables
  <2>1. Ready(c)'
    BY <1>1, <1>8, StillReady
  <2>2. "raced" \in Making /\ "raced" \in Holding /\ "raced" \notin Running
    BY DEF Making, Holding, Running
  <2>3. QED
    BY <1>1, <1>2, <1>3, <1>4, <1>8, <2>1, <2>2, MakingGood
<1>9. QED
  BY <1>6, <1>7, <1>8 DEF Insert

LEMMA RacedGood ==
  ASSUME IInv, NEW c \in Caller, Raced(c)
  PROVE  Good(c)
<1>1. /\ pc[c] \in Making /\ UNCHANGED <<tables, call, made, found, world>>
  BY DEF Raced, Making
<1>2. /\ wants[c] \in Wish /\ Requested(wants[c]) /\ clock' \in Time /\ faults' \in Nat
      /\ offered' = offered /\ pc[c] # "idle"
  BY <1>1, StillReady
<1>3. CASE \E code \in {"unavailable", "conflict"} : Answer(c, code, None)
  BY <1>1, <1>2, <1>3, Refused
<1>4. CASE Stored(Id(c)) /\ Replay(c)
  BY <1>1, <1>2, <1>4, ReplayGood
<1>5. QED
  BY <1>3, <1>4 DEF Raced

\* The steps of a run of the local model.
LEMMA RunGood ==
  ASSUME IInv, NEW c \in Caller, pc[c] \in {"running", "failing"},
         UNCHANGED <<tables, call, made, world>>,
         NEW s \in {"failing", "commit"}, Continue(c, s), NEW f,
         found' = [found EXCEPT ![c] = f],
         s = "commit" => f \in Ending /\ OutcomeOf(f, made[c])
  PROVE  Good(c)
<1>1. /\ pc[c] \in Making /\ pc[c] \in Running
      /\ s \in Making /\ s \in Holding /\ s \in Running /\ s # "insert"
  BY DEF Making, Running, Holding
<1>2. /\ TypeOK /\ Ready(c)' /\ made' \in [Caller -> Record \union {None}] /\ made' = made
  BY <1>1, StillReady
<1>3. /\ DOMAIN found' = Caller /\ found'[c] = f
      /\ \A d \in Caller \ {c} : made'[d] = made[d] /\ found'[d] = found[d]
  BY <1>2 DEF TypeOK
<1>4. PICK r : r = made'[c]
  OBVIOUS
<1>5. s = "commit" => found'[c] \in Ending /\ OutcomeOf(found'[c], r)
  BY <1>2, <1>3, <1>4
<1>6. QED
  BY <1>1, <1>2, <1>3, <1>4, <1>5, MakingGood

LEMMA RunEndsGood ==
  ASSUME IInv, NEW c \in Caller, RunEnds(c)
  PROVE  Good(c)
<1>1. pc[c] = "running" /\ UNCHANGED <<tables, call, made, world>>
  BY DEF RunEnds
<1>2. Ended("completed") \in Ending
  BY DEF Ended, Ending, IInv, TypeOK
<1>3. CASE /\ OutcomeOf(Ended("completed"), made[c])
           /\ found' = [found EXCEPT ![c] = Ended("completed")]
           /\ Continue(c, "commit")
  BY <1>1, <1>2, <1>3, RunGood
<1>4. CASE found' = [found EXCEPT ![c] = None] /\ Continue(c, "failing")
  BY <1>1, <1>4, RunGood
<1>5. QED
  BY <1>3, <1>4 DEF RunEnds

LEMMA RunFailsGood ==
  ASSUME IInv, NEW c \in Caller, RunFails(c)
  PROVE  Good(c)
<1>1. pc[c] = "failing" /\ UNCHANGED <<tables, call, made, world>>
  BY DEF RunFails
<1>2. Ended("failed") \in Ending
  BY DEF Ended, Ending, IInv, TypeOK
<1>3. CASE /\ OutcomeOf(Ended("failed"), made[c])
           /\ found' = [found EXCEPT ![c] = Ended("failed")]
           /\ Continue(c, "commit")
  BY <1>1, <1>2, <1>3, RunGood
<1>4. CASE UNCHANGED found /\ Answer(c, "unavailable", None)
  <2>1. pc[c] # "idle" /\ clock' \in Time /\ faults' \in Nat /\ offered' = offered
    BY <1>1 DEF IInv, TypeOK, world
  <2>2. QED
    BY <1>1, <1>4, <2>1, Refused
<1>5. QED
  BY <1>3, <1>4 DEF RunFails

LEMMA FinishGood ==
  ASSUME IInv, NEW c \in Caller, Finish(c)
  PROVE  Good(c)
<1>1. /\ pc[c] = "commit" /\ UNCHANGED <<call, made, found, world>> /\ Concludes(c)
      /\ CallInv(c)
  BY DEF Finish, Concludes, IInv
<1>2. pc[c] # "idle" /\ clock' \in Time /\ faults' \in Nat /\ offered' = offered
  BY <1>1 DEF IInv, TypeOK, world
<1>3. CASE Answer(c, "failed", None)
  BY <1>1, <1>2, <1>3, Refused
<1>4. CASE Answer(c, "created", [row |-> made[c], outcome |-> found[c]])
  <2>1. PICK x : x = Id(c)
    OBVIOUS
  <2>2. Id(c)' = x /\ wants' = wants
    BY <1>1, <2>1 DEF call, Id, Is, Wanted
  <2>3. rows' = rows /\ outcomes'[x] = found[c] /\ rows[x] = made[c]
    BY <1>1, <2>1, OutcomeSound
  <2>4. made[c] \in Record /\ made[c].wish = wants[c] /\ made[c] # None
    BY <1>1, StoreConstants DEF CallInv, Making
  <2>5. /\ pc'[c] = "done"
        /\ answer'[c] = [code |-> "created", view |-> [row |-> made[c], outcome |-> found[c]]]
    BY <1>1, <1>4, AnswerKeeps DEF IInv
  <2>6. Told(c)'
    BY <2>2, <2>3, <2>4, <2>5 DEF Told, Answered, Wanted
  <2>7. Owns(c)
    BY <1>1 DEF Owns, Running
  <2>8. QED
    BY <1>1, <1>2, <1>4, <2>6, <2>7, AnswerGood
<1>5. QED
  BY <1>3, <1>4 DEF Finish

LEMMA DatabaseErrorGood ==
  ASSUME IInv, NEW c \in Caller, DatabaseError(c)
  PROVE  Good(c)
<1>1. /\ UNCHANGED <<call, made, found, offered, clock>> /\ faults' = faults + 1
      /\ pc[c] # "idle" /\ Answer(c, "unavailable", None)
  BY DEF DatabaseError, Fault
<1>2. clock' \in Time /\ faults' \in Nat
  BY <1>1 DEF IInv, TypeOK
<1>3. QED
  BY <1>1, <1>2, Refused

-----------------------------------------------------------------------------
(* All together *)

LEMMA StepGood ==
  ASSUME IInv, NEW c \in Caller, Step(c) \/ DatabaseError(c)
  PROVE  Good(c)
BY LookupGood, TakeSlotGood, PrepareGood, LockParentsGood, ReserveGood, InsertGood, RacedGood,
   RunEndsGood, RunFailsGood, FinishGood, DatabaseErrorGood DEF Step

\* What c stores leaves the tables sound and disturbs no other handler.
LEMMA EffectSound ==
  ASSUME IInv, NEW c \in Caller, UNCHANGED tables \/ Inserts(c) \/ Concludes(c)
  PROVE  /\ StoreInv' /\ TablesGrow
         /\ \A d \in Caller \ {c} : Frozen(d) => CallInv(d)'
<1>1. CASE UNCHANGED tables
  <2>1. StoreInv' /\ TablesGrow
    BY <1>1, QuietSound DEF IInv
  <2>2. rows' = rows /\ outcomes' = outcomes
    BY <1>1 DEF tables
  <2>3. QED
    BY <2>1, <2>2, OtherStays
<1>2. CASE Inserts(c)
  <2>1. StoreInv' /\ TablesGrow /\ outcomes' = outcomes
    BY <1>2, InsertSound, InsertGrows
  <2>2. \A d \in Caller \ {c} : \A kind \in Minted : rows'[<<kind, d>>] = rows[<<kind, d>>]
    BY <1>2, MintedStay
  <2>3. QED
    BY <2>1, <2>2, OtherStays
<1>3. CASE Concludes(c)
  <2>1. PICK x : x = Id(c)
    OBVIOUS
  <2>2. /\ StoreInv' /\ TablesGrow /\ rows' = rows
        /\ \A y \in Key \ {x} : outcomes'[y] = outcomes[y]
    BY <1>3, <2>1, OutcomeSound
  <2>3. ASSUME NEW d \in Caller \ {c}, pc[d] \in Running
        PROVE  outcomes'[Id(d)] = outcomes[Id(d)]
    <3>1. Owns(c) /\ Owns(d)
      BY <1>3, <2>3 DEF Concludes, Owns, Running
    <3>2. Id(d) # x
      BY <2>1, <2>3, <3>1 DEF IInv, OneOwner
    <3>3. Id(d) \in Key
      BY <2>3, IdKey DEF IInv, CallInv, Running
    <3>4. QED
      BY <2>2, <3>2, <3>3
  <2>4. QED
    BY <2>2, <2>3, OtherStays
<1>4. QED
  BY <1>1, <1>2, <1>3

\* Whoever owns an id has stored its record.
LEMMA OwnedStored ==
  ASSUME IInv, NEW c \in Caller, Owns(c)
  PROVE  rows[Id(c)] # None
<1>1. CallInv(c)
  BY DEF IInv
<1>2. CASE pc[c] \in Running
  BY <1>1, <1>2, StoreConstants DEF CallInv, Running, Making
<1>3. CASE answer[c] # None /\ answer[c].code = "created"
  BY <1>1, <1>3 DEF CallInv, Told, Answered
<1>4. QED
  BY <1>2, <1>3 DEF Owns

LEMMA GoodSound ==
  ASSUME IInv, NEW c \in Caller, Good(c), UNCHANGED tables \/ Inserts(c) \/ Concludes(c)
  PROVE  IInv'
<1>1. StoreInv' /\ \A d \in Caller \ {c} : Frozen(d) => CallInv(d)'
  BY EffectSound
<1>2. \A d \in Caller : CallInv(d)'
  BY <1>1 DEF Good
<1>3. OneOwner'
  <2>1. \A d \in Caller \ {c} : Owns(d)' = Owns(d) /\ Id(d)' = Id(d)
    BY DEF Good, Frozen, Owns, Id, Is, Wanted
  <2>2. Owns(c)' => Id(c)' = Id(c) /\ (Owns(c) \/ rows[Id(c)] = None)
    BY DEF Good, Id, Is, Wanted
  <2>3. ASSUME NEW d \in Caller \ {c}, Owns(c)', Owns(d)'
        PROVE  Id(c)' # Id(d)'
    <3>1. Owns(d) /\ Id(d)' = Id(d) /\ Id(c)' = Id(c) /\ (Owns(c) \/ rows[Id(c)] = None)
      BY <2>1, <2>2, <2>3
    <3>2. rows[Id(d)] # None
      BY <3>1, OwnedStored
    <3>3. CASE Owns(c)
      BY <3>1, <3>3 DEF IInv, OneOwner
    <3>4. CASE rows[Id(c)] = None
      BY <3>1, <3>2, <3>4
    <3>5. QED
      BY <3>1, <3>3, <3>4
  <2>4. ASSUME NEW d \in Caller \ {c}, NEW e \in Caller \ {c}, Owns(d)', Owns(e)',
               Id(d)' = Id(e)'
        PROVE  d = e
    BY <2>1, <2>4 DEF IInv, OneOwner
  <2>5. QED
    BY <2>3, <2>4 DEF OneOwner
<1>4. QED
  BY <1>1, <1>2, <1>3 DEF IInv, Good

\* A crash ends handlers and frees the slots of their process.
LEMMA CrashSound ==
  ASSUME IInv, NEW q \in Process, CrashRestart(q)
  PROVE  IInv'
<1>1. TypeOK /\ SlotsFreeAgain /\ StoreInv
  BY DEF IInv
<1>2. /\ pc' = [c \in Caller |->
              IF site[c] = q /\ pc[c] \notin {"idle", "done"} THEN "dead" ELSE pc[c]]
      /\ slots' = [slots EXCEPT ![q] = [s \in DOMAIN @ |-> None]]
      /\ site' = site /\ wants' = wants /\ role' = role /\ made' = made /\ found' = found
      /\ answer' = answer /\ offered' = offered /\ clock' = clock /\ faults' = faults + 1
      /\ UNCHANGED tables /\ rows' = rows /\ outcomes' = outcomes
  BY DEF CrashRestart, Fault, call, tables
<1>3. /\ slots \in [Process -> [training: Caller \union {None}, worker: Caller \union {None}]]
      /\ pc \in [Caller -> Stages]
  BY <1>1 DEF TypeOK, Stages
<1>4. StoreInv' /\ TablesGrow
  BY <1>1, <1>2, QuietSound
<1>5. \A p \in Process, t \in {"training", "worker"} :
        slots'[p][t] = IF p = q THEN None ELSE slots[p][t]
  BY <1>2, <1>3
<1>6. slots' \in [Process -> [training: Caller \union {None}, worker: Caller \union {None}]]
  <2>1. PICK free : free = [s \in DOMAIN slots[q] |-> None]
    OBVIOUS
  <2>2. free \in [training: Caller \union {None}, worker: Caller \union {None}]
    BY <1>3, <2>1
  <2>3. slots' = [slots EXCEPT ![q] = free]
    BY <1>2, <2>1
  <2>4. QED
    BY <1>3, <2>2, <2>3
<1>7. TypeOK'
  BY <1>1, <1>2, <1>6 DEF TypeOK
<1>8. SlotsFreeAgain'
  <2>1. SUFFICES ASSUME NEW p \in Process, NEW t \in {"training", "worker"},
                        NEW d, d = slots'[p][t], d # None
                 PROVE  /\ site[d] = p /\ SlotOf(d) = t /\ Is(d, {"model", "inference"})
                        /\ pc'[d] \in Holding
    BY <1>2 DEF SlotsFreeAgain, Holding, SlotOf, Is, Wanted
  <2>2. p # q /\ d = slots[p][t] /\ d \in Caller
    BY <1>3, <1>5, <2>1
  <2>3. /\ site[d] = p /\ SlotOf(d) = t /\ Is(d, {"model", "inference"}) /\ pc[d] \in Holding
    BY <1>1, <2>1, <2>2 DEF SlotsFreeAgain, Holding
  <2>4. QED
    BY <1>2, <2>2, <2>3
<1>9. \A c \in Caller : CallInv(c)'
  <2>1. SUFFICES ASSUME NEW c \in Caller PROVE CallInv(c)'
    OBVIOUS
  <2>2. CASE pc'[c] = pc[c]
    BY <1>2, <1>4, <2>2, OtherStays DEF Frozen
  <2>3. CASE pc'[c] = "dead" /\ pc[c] \notin {"idle", "done"}
    <3>1. CallInv(c)
      BY DEF IInv
    <3>2. answer[c] = None
      BY <2>3, <3>1 DEF CallInv, Told
    <3>3. QED
      BY <1>2, <2>3, <3>1, <3>2 DEF CallInv, Told, Answered, Making, Running
  <2>4. QED
    BY <1>2, <2>2, <2>3
<1>10. OneOwner'
  <2>1. \A c \in Caller : (Owns(c)' => Owns(c)) /\ Id(c)' = Id(c)
    BY <1>2, <1>3 DEF Owns, Running, Id, Is, Wanted
  <2>2. QED
    BY <2>1 DEF IInv, OneOwner
<1>11. QED
  BY <1>4, <1>7, <1>8, <1>9, <1>10 DEF IInv

\* Time and stuttering change nothing that anybody knows.
LEMMA TimeSound ==
  ASSUME IInv, ClockAdvances \/ ClockSetBack \/ UNCHANGED vars
  PROVE  IInv'
<1>1. TypeOK /\ SlotsFreeAgain /\ StoreInv
  BY DEF IInv
<1>2. /\ UNCHANGED tables /\ rows' = rows /\ outcomes' = outcomes /\ slots' = slots
      /\ pc' = pc /\ site' = site /\ wants' = wants /\ role' = role /\ made' = made
      /\ found' = found /\ answer' = answer /\ offered' = offered
  BY DEF ClockAdvances, ClockSetBack, vars, tables, call
<1>3. clock' \in Time /\ faults' \in Nat
  BY <1>1, StoreConstants DEF ClockAdvances, ClockSetBack, Fault, vars, TypeOK, Time
<1>4. StoreInv' /\ TablesGrow
  BY <1>1, <1>2, QuietSound
<1>5. \A c \in Caller : CallInv(c)'
  BY <1>2, <1>4, OtherStays DEF Frozen
<1>6. TypeOK'
  BY <1>1, <1>2, <1>3 DEF TypeOK
<1>7. SlotsFreeAgain'
  BY <1>1, <1>2 DEF SlotsFreeAgain, SlotOf, Is, Wanted
<1>8. OneOwner'
  BY <1>2 DEF IInv, OneOwner, Owns, Id, Is, Wanted
<1>9. QED
  BY <1>4, <1>5, <1>6, <1>7, <1>8 DEF IInv

LEMMA Step_IInv ==
  ASSUME IInv, [Next]_vars
  PROVE  IInv'
<1>1. CASE \E c \in Caller, o \in offered : \E as \in Roles(o[2]) : Ask(c, o[1], o[2], as)
  <2>1. PICK c \in Caller, o \in offered : \E as \in Roles(o[2]) : Ask(c, o[1], o[2], as)
    BY <1>1
  <2>2. Good(c) /\ UNCHANGED tables
    BY <2>1, AskGood DEF Ask
  <2>3. QED
    BY <2>2, GoodSound
<1>2. CASE \E c \in Caller : Step(c) \/ DatabaseError(c)
  BY <1>2, StepGood, DurableStep, GoodSound
<1>3. CASE \E q \in Process : CrashRestart(q)
  BY <1>3, CrashSound
<1>4. CASE ClockAdvances \/ ClockSetBack \/ UNCHANGED vars
  BY <1>4, TimeSound
<1>5. QED
  BY <1>1, <1>2, <1>3, <1>4 DEF Next

\* The tables only grow, in every step.
LEMMA Step_Grows ==
  ASSUME IInv, [Next]_vars
  PROVE  TablesGrow
<1>1. CASE \E c \in Caller : Step(c) \/ DatabaseError(c)
  BY <1>1, DurableStep, EffectSound
<1>2. CASE ~ \E c \in Caller : Step(c) \/ DatabaseError(c)
  <2>1. UNCHANGED tables
    BY <1>2 DEF Next, Ask, CrashRestart, ClockAdvances, ClockSetBack, vars, tables
  <2>2. QED
    BY <2>1, QuietSound DEF IInv
<1>3. QED
  BY <1>1, <1>2

LEMMA Init_IInv ==
  ASSUME Init, StoreInv
  PROVE  IInv
<1>1. PICK db \in Restored : rows = db.rows /\ offered = db.offered
  BY DEF Init
<1>2. /\ \A o \in offered : o[1] \in Process /\ o[2] \in Wish /\ Requested(o[2])
      /\ \A x \in Key : rows[x] # None => x[2] \in Name
  BY <1>1, StoreConstants
<1>3. /\ slots = [q \in Process |-> [training |-> None, worker |-> None]]
      /\ pc = [c \in Caller |-> "idle"] /\ site = [c \in Caller |-> None]
      /\ wants = [c \in Caller |-> None] /\ role = [c \in Caller |-> None]
      /\ made = [c \in Caller |-> None] /\ found = [c \in Caller |-> None]
      /\ answer = [c \in Caller |-> None] /\ clock = 0 /\ faults = 0
  BY DEF Init
<1>4. TypeOK
  BY <1>2, <1>3, StoreConstants DEF TypeOK, Time
<1>5. SlotsFreeAgain
  BY <1>3 DEF SlotsFreeAgain
<1>6. \A c \in Caller : CallInv(c)
  <2>1. SUFFICES ASSUME NEW c \in Caller PROVE CallInv(c)
    OBVIOUS
  <2>2. pc[c] = "idle" /\ answer[c] = None
    BY <1>3
  <2>3. \A kind \in Minted : rows[<<kind, c>>] = None
    <3>1. SUFFICES ASSUME NEW kind \in Minted PROVE rows[<<kind, c>>] = None
      OBVIOUS
    <3>2. <<kind, c>> \in Key
      BY KeysOf DEF Kind
    <3>3. c \notin Name
      BY StoreConstants
    <3>4. QED
      BY <1>2, <3>2, <3>3
  <2>4. QED
    BY <2>2, <2>3 DEF CallInv, Told, Answered, Making, Running
<1>7. OneOwner
  BY <1>3 DEF OneOwner, Owns, Running
<1>8. QED
  BY <1>4, <1>5, <1>6, <1>7 DEF IInv

-----------------------------------------------------------------------------
(* Theorems *)

\* A restored database that is empty is sound, so what follows holds of every service that
\* was started on a new database, and after each restart of one.
THEOREM EmptyIsSound ==
  ASSUME Init, rows = [x \in Key |-> None], devices = [d \in Device |-> None], sources = {}
  PROVE  StoreInv
<1>1. outcomes = [x \in Key |-> None] /\ audit = [x \in Key |-> 0]
  BY DEF Init
<1>2. QED
  BY <1>1 DEF StoreInv, RowShape, Cited, Audited, RecordsReadable, Outputs

\* The inductive invariant holds from every sound database on.
THEOREM Invariance == Spec /\ StoreInv => []IInv
<1>1. Init /\ StoreInv => IInv
  BY Init_IInv
<1>2. IInv /\ [Next]_vars => IInv'
  BY Step_IInv
<1>3. QED
  BY <1>1, <1>2, PTL DEF Spec

\* A slot is held only by a handler between the step that took it and its answer, after
\* every error, refusal and crash.
THEOREM Slots == Spec /\ StoreInv => []SlotsFreeAgain
<1>1. IInv => SlotsFreeAgain
  BY DEF IInv
<1>2. QED
  BY <1>1, Invariance, PTL

\* Whatever was accepted passes its reader's validation for ever after, whoever stores
\* what meanwhile.
THEOREM Readability == Spec /\ StoreInv => []RecordsReadable
<1>1. IInv => RecordsReadable
  BY DEF IInv, StoreInv
<1>2. QED
  BY <1>1, Invariance, PTL

\* All configurations of a device were parsed as one identity, in races of first uploads
\* and materializations too.
THEOREM Identities == Spec /\ StoreInv => []DeviceKeepsIdentity
<1>1. IInv => DeviceKeepsIdentity
  BY ConfigurationStored, KeyOf DEF IInv, DeviceKeepsIdentity, StoreInv, RowShape,
     RecordsReadable, Readable, ValidRow, ValidConfiguration, DeviceOf, TextOf
<1>2. QED
  BY <1>1, Invariance, PTL

\* Clients, tables and audit trail agree: a record is created for one client, shown as it
\* is stored, and stored whole with its outputs and audit rows.
THEOREM Agreement == Spec /\ StoreInv => []StoreAgrees
<1>1. IInv => AnswersAgree
  <2>1. SUFFICES ASSUME IInv PROVE AnswersAgree
    OBVIOUS
  <2>2. \A c \in Caller : Told(c)
    BY <2>1 DEF IInv, CallInv
  <2>3. ASSUME NEW c \in Caller, NEW d \in Caller, Answered(c), Answered(d),
               Id(c) = Id(d), c # d
        PROVE  {answer[c].code, answer[d].code} # {"created"}
    <3>1. ~(answer[c].code = "created" /\ answer[d].code = "created")
      BY <2>1, <2>3 DEF IInv, OneOwner, Owns, Answered
    <3>2. QED
      BY <3>1
  <2>4. QED
    BY <2>2, <2>3 DEF AnswersAgree, Told
<1>2. IInv => WholeTransactions
  <2>1. SUFFICES ASSUME IInv PROVE WholeTransactions
    OBVIOUS
  <2>2. Outputs /\ \A x \in Key : audit[x] = Audited(x)
    BY <2>1 DEF IInv, StoreInv
  <2>3. ASSUME NEW x \in Key, x[1] = "configuration", rows[x] # None,
               rows[x].wish.name # None
        PROVE  Cardinality({y \in Key : /\ y[1] = "materialization" /\ rows[y] # None
                                        /\ AfterOf(rows[y]) = x}) = 1
    <3>1. PICK y \in Key : y[1] = "materialization" /\ rows[y] # None /\ AfterOf(rows[y]) = x
      BY <2>2, <2>3 DEF Outputs
    <3>2. {z \in Key : z[1] = "materialization" /\ rows[z] # None /\ AfterOf(rows[z]) = x} = {y}
      BY <2>2, <3>1 DEF Outputs
    <3>3. Cardinality({y}) = 1
      BY FS_Singleton
    <3>4. QED
      BY <3>2, <3>3
  <2>4. QED
    BY <2>2, <2>3 DEF WholeTransactions, Outputs
<1>3. IInv => StoreAgrees
  BY <1>1, <1>2 DEF StoreAgrees
<1>4. QED
  BY <1>3, Invariance, PTL

LogState ==
  [x \in Key |-> CASE rows[x] = None -> "absent"
                   [] rows[x] # None /\ x[1] = "inference" /\ outcomes[x] = None -> "open"
                   [] OTHER -> "final"]

LEMMA LogStateOf ==
  ASSUME NEW x \in Key
  PROVE  /\ LogState[x] = "absent" <=> rows[x] = None
         /\ LogState[x] = "open" <=> rows[x] # None /\ x[1] = "inference" /\ outcomes[x] = None
         /\ LogState[x] \in {"absent", "open", "final"}
BY DEF LogState

LEMMA LogSound ==
  ASSUME StoreInv
  PROVE  Log!Sound
<1>1. LogState \in [Key -> {"absent", "open", "final"}]
  BY LogStateOf DEF LogState
<1>2. ASSUME NEW n \in Key, rows[n] # None, NEW m \in Basis(rows[n]) \ {None}
      PROVE  LogState[n] # "absent" /\ LogState[m] = "final"
  <2>1. Stored(m) /\ m \in Key /\ m[1] # "inference"
    BY <1>2 DEF StoreInv, Cited
  <2>2. QED
    BY <1>2, <2>1, LogStateOf DEF Stored
<1>3. ASSUME NEW n \in Key,
             NEW m \in [x \in Key |-> IF rows[x] = None THEN {} ELSE Basis(rows[x]) \ {None}][n]
      PROVE  LogState[n] # "absent" /\ LogState[m] = "final"
  BY <1>2, <1>3
<1>4. QED
  BY <1>1, <1>3 DEF Log!Sound, LogState

\* The store implements the append-only log: nothing that was stored changes, but for the
\* one outcome of an inference, and a record rests on final ones.
THEOREM Refinement == Spec /\ StoreInv => LogSpec
<1>1. IInv => Log!Init
  BY LogSound DEF IInv, Log!Init
<1>2. IInv /\ IInv' /\ [Next]_vars => Log!Next
  <2>1. SUFFICES ASSUME IInv, IInv', [Next]_vars PROVE Log!Next
    OBVIOUS
  <2>2. (StoreInv => Log!Sound)'
    BY LogSound, PTL
  <2>3. Log!Sound'
    BY <2>1, <2>2 DEF IInv
  <2>4. TablesGrow
    BY <2>1, Step_Grows
  <2>5. ASSUME NEW n \in Key
        PROVE  Log!Added(n) \/ Log!Finished(n) \/ (LogState'[n] = LogState[n] /\ Log!Kept(n))
    <3>1. CASE rows[n] = None /\ rows'[n] = None
      <4>1. LogState[n] = "absent" /\ LogState'[n] = "absent"
        BY <3>1 DEF LogState
      <4>2. Log!Kept(n)
        BY <3>1 DEF Log!Kept
      <4>3. QED
        BY <4>1, <4>2
    <3>2. CASE rows[n] = None /\ rows'[n] # None
      <4>1. LogState[n] = "absent" /\ LogState'[n] # "absent"
        BY <3>2 DEF LogState
      <4>2. QED
        BY <4>1 DEF Log!Added, LogState
    <3>3. CASE rows[n] # None
      <4>1. rows'[n] = rows[n] /\ (outcomes[n] # None => outcomes'[n] = outcomes[n])
        BY <2>4, <3>3 DEF TablesGrow
      <4>2. Log!Kept(n)
        BY <4>1 DEF Log!Kept, Basis, CandidateOf, AfterOf, PatchOf
      <4>3. \/ LogState'[n] = LogState[n]
            \/ LogState[n] = "open" /\ LogState'[n] = "final"
        BY <3>3, <4>1 DEF LogState
      <4>4. QED
        BY <4>2, <4>3 DEF Log!Finished, LogState
    <3>4. QED
      BY <3>1, <3>2, <3>3
  <2>6. QED
    BY <2>3, <2>5 DEF Log!Next, LogState
<1>3. QED
  BY <1>1, <1>2, Invariance, PTL DEF LogSpec, Log!Spec, Spec

=============================================================================
