------------------------- MODULE MCSourceMlRecheck -------------------------
(* Small instances of SourceMlRecheck for TLC. *)
EXTENDS SourceMlRecheck, TLC

CONSTANTS c1, c2, c3, q1, q2, q3, k1, d1, d2, d3, d4, s1, s2, m1, m2

Ask(k, p, s, m, consent) ==
  [key |-> k, patch |-> p, sha |-> s, model |-> m, consent |-> consent]

Saved(s, after_at, created_at, retained, fits) ==
  [sha |-> s, after_at |-> after_at, created_at |-> created_at,
   retained |-> retained, fits |-> fits]

OneDraft == (d1 :> Saved(s1, 0, 0, TRUE, TRUE))

MCDraft == (d1 :> Saved(s1, 0, 0, TRUE, TRUE) @@ d2 :> Saved(s2, 0, 0, TRUE, TRUE))

\* d1 is one tick younger than its after snapshot, d2 does not exist, d3 has no
\* retained original and d4 is too large.
RefusalDraft ==
  (d1 :> Saved(s1, 1, 2, TRUE, TRUE) @@ d2 :> None
   @@ d3 :> Saved(s1, 0, 0, FALSE, TRUE) @@ d4 :> Saved(s1, 0, 0, TRUE, FALSE))

\* Two requests that fight for the id k1 and for the worker slot of a process.
RaceRequests == {Ask(k1, d1, s1, m1, TRUE), Ask(k1, d2, s2, m1, TRUE)}

\* One request for each way of being refused, and one that is served.
RefusalRequests ==
  {Ask(k1, d1, s1, m1, TRUE), Ask(k1, d1, s1, m1, FALSE), Ask(k1, d1, s2, m1, TRUE),
   Ask(k1, d1, s1, m2, TRUE), Ask(k1, d2, s1, m1, TRUE), Ask(k1, d3, s1, m1, TRUE),
   Ask(k1, d4, s1, m1, TRUE)}

OneRequest == {Ask(k1, d1, s1, m1, TRUE)}

SamePin == (q1 :> m1 @@ q2 :> m1)
MixedPin == (q1 :> m1 @@ q2 :> m1 @@ q3 :> None)

Symmetric == Permutations({c1, c2, c3}) \union Permutations({q1, q2})

=============================================================================
