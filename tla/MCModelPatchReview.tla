------------------------ MODULE MCModelPatchReview ------------------------
(* Small instances of ModelPatchReview for TLC. *)
EXTENDS ModelPatchReview, TLC

CONSTANTS c1, q1, q2, p1, f1, v1, v2, e1, e2, k1, k2, x1

OneTarget == (f1 :> [source_at |-> 0, analysis_at |-> 0, usable |-> TRUE])

OneDraft == {[id |-> p1, protocol |-> "grounded", finding |-> f1, consent |-> TRUE]}

MCAllows == [q \in Process |-> {"legacy", "grounded"}]

Wished(k, at, usable, checks) ==
  [id |-> k, patch |-> p1, network |-> [at |-> at, usable |-> usable], checks |-> checks]

\* One review id wanted with all checks of a network as young as the draft may be and
\* with local checks, and a second one for the worker slot or of a network that is not
\* retained.
EveryReview ==
  {Wished(k1, 1, TRUE, "all"), Wished(k1, 1, TRUE, "local"), Wished(k2, 1, TRUE, "all"),
   Wished(k2, 0, FALSE, "local")}

OneReview == {Wished(k1, 0, TRUE, "all")}

Verdicts(k) ==
  {[id |-> x1, review |-> k, patch |-> p1, verdict |-> w, attested |-> TRUE] :
     w \in {"approved", "rejected"}}

EveryVerdict ==
  Verdicts(k1)
  \union {[id |-> x1, review |-> k1, patch |-> p1, verdict |-> "approved",
           attested |-> FALSE]}

OneVerdict ==
  {[id |-> x1, review |-> k1, patch |-> p1, verdict |-> "rejected", attested |-> FALSE]}

NoVerdict == {}

SymmetricVerifiers == Permutations({v1, v2})
SymmetricDeciders == Permutations({e1, e2})

=============================================================================
