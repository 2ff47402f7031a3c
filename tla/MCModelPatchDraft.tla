------------------------- MODULE MCModelPatchDraft -------------------------
(* Small instances of ModelPatchDraft for TLC. *)
EXTENDS ModelPatchDraft, TLC

CONSTANTS c1, c2, c3, q1, q2, q3, p1, p2, f1, f2, f3, f4

Asked(protocol, finding, consent) ==
  [id |-> p1, protocol |-> protocol, finding |-> finding, consent |-> consent]

\* f1 can be drafted for; the analysis of f2 is one tick younger than its source;
\* f3 has no retained original and f4 does not exist.
MCTarget ==
  (f1 :> [source_at |-> 0, analysis_at |-> 0, usable |-> TRUE]
   @@ f2 :> [source_at |-> 1, analysis_at |-> 2, usable |-> TRUE]
   @@ f3 :> [source_at |-> 0, analysis_at |-> 0, usable |-> FALSE]
   @@ f4 :> None)

OneTarget == (f1 :> [source_at |-> 0, analysis_at |-> 0, usable |-> TRUE])

\* The same selection under both protocols fights for one id, and a second id for the
\* worker slot.
RaceRequests ==
  {Asked("legacy", f1, TRUE), Asked("grounded", f1, TRUE),
   [Asked("grounded", f1, TRUE) EXCEPT !.id = p2]}

EveryRefusal ==
  {Asked("legacy", f1, TRUE), Asked("grounded", f1, TRUE), Asked("legacy", f1, FALSE),
   Asked("legacy", f2, TRUE), Asked("legacy", f3, TRUE), Asked("legacy", f4, TRUE)}

BothAllowed == (q1 :> {"legacy", "grounded"} @@ q2 :> {"legacy", "grounded"})
MixedAllowed == (q1 :> {"legacy", "grounded"} @@ q2 :> {"legacy"} @@ q3 :> None)

Symmetric == Permutations(Call) \union Permutations({q1, q2})

=============================================================================
