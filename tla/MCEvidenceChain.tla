--------------------------- MODULE MCEvidenceChain ---------------------------
(* A small instance of EvidenceChain for TLC: one patch with complete sources, one *)
(* with partial ones, and the records that can be made about them.                *)
EXTENDS EvidenceChain, TLC

CONSTANTS c1, c2, q1, q2, n1, whole, partial, same, gone, a1, a2, a3

MCParsed ==
  (whole :> "complete" @@ partial :> "partial" @@ same :> "unchanged" @@ gone :> "absent")

MCBaseline ==
  (a1 :> [of |-> whole, statistical |-> TRUE] @@ a3 :> [of |-> whole, statistical |-> TRUE]
   @@ a2 :> [of |-> partial, statistical |-> FALSE])

W(kind, name, version, over, choice, cites) ==
  [kind |-> kind, name |-> name, version |-> version, over |-> over, choice |-> choice,
   cites |-> cites, consent |-> TRUE]

Draft(p) == W("draft", n1, 1, None, p, {})
Over(kind, version, choice) ==
  W(kind, n1, version, <<"draft", n1>>, choice, {<<"draft", n1>>})

Preflight == Over("preflight", 1, None)
Network(v) == Over("network", v, None)
Forest(a) == Over("forest", 1, a)
Complete1 == Over("deterministic", 1, a1)
Partial1 == Over("deterministic", 2, a2)
Report(v, kinds) ==
  W("report", n1, v, <<"draft", n1>>, None, {<<k, n1>> : k \in kinds})
Wide(v) == Report(v, Attempt)
Narrow(v) == Report(v, {"deterministic"})
About(kind, version) ==
  W(kind, n1, version, <<"report", n1>>, IF kind = "decision" THEN "rejected" ELSE None,
    {<<"report", n1>>})

More(v) == [About("decision", v) EXCEPT !.choice = "needs_more_information"]

\* A database is built by adding rows at time 0.
SeenIn(db, w) ==
  [x \in Key |-> IF x \in w.cites THEN <<Sha(db.rows[x]), db.outcomes[x]>> ELSE None]

Added(db, w) ==
  [rows |-> Target(w) :> [wish |-> w, pins |-> SeenIn(db, w), at |-> 0, role |-> None]
            @@ db.rows,
   outcomes |-> db.outcomes]

Run(db, w) ==
  LET reserved == Added(db, w) IN
  [rows |-> reserved.rows,
   outcomes |-> Target(w) :> [of |-> Sha(reserved.rows[Target(w)]), at |-> 0,
                              status |-> "completed", protocol |-> w.version]
                @@ db.outcomes]

New == [rows |-> [x \in Key |-> None], outcomes |-> [x \in Key |-> None]]
OfWhole == Added(New, Draft(whole))
OfPartial == Added(New, Draft(partial))
Checked(v) == Run(Run(OfWhole, Network(v)), Complete1)
\* The forest that was in flight when the service stopped never ends.
Orphaned == Added(Checked(1), Forest(a1))
Evidence(v) == Run(Checked(v), Forest(a1))
Diagnosed == Run(OfPartial, Partial1)

At(db, calls) == [rows |-> db.rows, outcomes |-> db.outcomes, offered |-> calls]
With(db, wishes) == At(db, {q1} \X wishes)

MCRestored ==
  {With(New, {Draft(p) : p \in {whole, partial, same, gone}}),
   With(New, {Draft(whole), Preflight}),
   At(OfWhole, {q1, q2} \X {Network(1), Network(2)}),
   At(OfWhole, {q1, q2} \X {Network(3), Network(4)}),
   With(OfWhole, {Preflight, Complete1}),
   With(OfWhole, {Forest(a1), Forest(a3)}),
   With(OfWhole, {Forest(a2), [Forest(a1) EXCEPT !.consent = FALSE]}),
   With(OfPartial, {Partial1, Narrow(5)}),
   With(OfPartial, {Network(1), Forest(a2)}),
   With(Checked(1), {Forest(a1), Wide(1)}),
   With(Orphaned, {Forest(a1), Wide(1), Narrow(1)}),
   With(Diagnosed, {Narrow(5), Narrow(1)}),
   With(Added(Diagnosed, Narrow(5)), {About("decision", 5), About("decision", 4)}),
   With(Added(Diagnosed, Narrow(5)), {About("risk", 3), About("risk", 2)}),
   With(Evidence(2), {Wide(2), Wide(1)}),
   With(Evidence(4), {Wide(3), Wide(4)}),
   With(Evidence(4), {Wide(4), Narrow(4)}),
   With(Run(Checked(4), Forest(a3)), {Wide(4), Narrow(3)}),
   With(Added(Evidence(2), Wide(2)), {About("decision", 2), About("decision", 1)}),
   With(Added(Evidence(3), Wide(3)), {About("decision", 3), More(3)}),
   With(Added(Evidence(4), Wide(4)), {About("decision", 4), About("risk", 2)}),
   With(Added(Evidence(3), Wide(3)), {About("risk", 1), About("risk", 2)})}

=============================================================================
