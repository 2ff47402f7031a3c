--------------------------- MODULE MCServiceStore ---------------------------
(* A small instance of ServiceStore for TLC: up to three devices, each with one or *)
(* two configurations, and the records that can be made about them.                *)
EXTENDS ServiceStore, TLC

CONSTANTS c1, c2, q1, q2, n1, n2, n3, n4, d1, d2, d3, h1, h2, h3, lab,
          open, closed, part, other, third, bad

Read(host, complete, telnet) ==
  [platform |-> "ios", host |-> host, complete |-> complete, telnet |-> telnet]

MCParsed ==
  (open :> Read(h1, TRUE, TRUE) @@ closed :> Read(h1, TRUE, FALSE)
   @@ part :> Read(h1, FALSE, TRUE) @@ other :> Read(h2, TRUE, TRUE)
   @@ third :> Read(h3, TRUE, FALSE) @@ bad :> None)

\* The generator leaves text without telnet, and text it cannot change, as it is.
MCRepaired == [t \in Text |-> IF t = open THEN closed ELSE t]

W(kind, name) ==
  [kind |-> kind, name |-> name, device |-> None, text |-> None, labels |-> None,
   keep |-> FALSE, about |-> None, reference |-> None, using |-> {}, model |-> None,
   after |-> None, patch |-> None, pinned |-> TRUE, consent |-> TRUE]

Conf(n) == <<"configuration", n>>
Anal(n) == <<"analysis", n>>
Model(n) == <<"model", n>>

Upload(d, t) == [W("configuration", None) EXCEPT !.device = d, !.text = t, !.labels = lab]
Kept(d, t) == [Upload(d, t) EXCEPT !.keep = TRUE]
Train(s) == [W("model", None) EXCEPT !.using = s]
Analyze(x) == [W("analysis", None) EXCEPT !.about = x]
Against(x, ref, peers, model) ==
  [Analyze(x) EXCEPT !.reference = ref, !.using = peers, !.model = model]
Feedback(n, a) == [W("feedback", n) EXCEPT !.about = a]
Infer(n, a) == [W("inference", n) EXCEPT !.about = a]
Generate(n, x, a) == [W("candidate", n) EXCEPT !.about = x, !.reference = a]
Make(n, x, after, patch) ==
  [W("materialization", n) EXCEPT !.about = x, !.after = after, !.patch = patch]
Draft(n, x, y) == [W("patch", n) EXCEPT !.about = x, !.reference = y]

\* A database is built by adding rows at time 0.
Empty == [rows |-> [x \in Key |-> None], devices |-> [d \in Device |-> None], sources |-> {}]

Add(db, n, w) ==
  LET x == <<w.kind, n>> IN
  [rows |-> x :> [wish |-> w, at |-> 0,
                  role |-> IF w.kind = "candidate" THEN "admin" ELSE None] @@ db.rows,
   devices |-> IF w.kind = "configuration" THEN w.device :> Identity(w.text) @@ db.devices
               ELSE db.devices,
   sources |-> IF w.keep THEN db.sources \union {x} ELSE db.sources]

One == Add(Empty, n1, Kept(d1, open))
Two == Add(One, n2, Upload(d1, closed))
Fleet == Add(Add(One, n2, Upload(d2, other)), n3, Upload(d3, third))
Trained == Add(Fleet, n1, Train({Conf(n2), Conf(n3)}))
Seen == Add(Two, n1, Analyze(Conf(n1)))
Native == Add(Seen, n1, Generate(n1, Conf(n1), Anal(n1)))
Natives == Add(Native, n2, Generate(n2, Conf(n1), Anal(n1)))
Partly == Add(Add(Empty, n1, Kept(d1, part)), n1, Analyze(Conf(n1)))

\* The same on another device, whose generator output has telnet still.
Twice ==
  LET more == Add(Add(One, n2, Kept(d2, open)), n1, Analyze(Conf(n1)))
      seen == Add(more, n2, Analyze(Conf(n2)))
  IN Add(Add(seen, n1, Generate(n1, Conf(n1), Anal(n1))),
         n2, Generate(n2, Conf(n2), Anal(n2)))

At(db, calls) ==
  [rows |-> db.rows, devices |-> db.devices, sources |-> db.sources, offered |-> calls]
With(db, wishes) == At(db, {q1} \X wishes)

MCRestored ==
  {With(Empty, {Kept(d1, open), Upload(d1, other)}),
   With(Empty, {Upload(d1, open), Kept(d1, closed), Kept(d1, bad)}),
   With(One, {Upload(d1, other), Upload(d1, part), Analyze(Conf(n1)), Analyze(Conf(n2))}),
   At(Fleet, {q1, q2} \X {Train({Conf(n1), Conf(n2)}), Train({Conf(n1), Conf(n4)})}),
   With(Two, {Train({Conf(n1), Conf(n2)}), Against(Conf(n2), Conf(n1), {}, None),
              Against(Conf(n2), Conf(n2), {}, None)}),
   With(Trained, {Against(Conf(n1), None, {Conf(n2), Conf(n3)}, Model(n1)),
                  Against(Conf(n2), None, {}, Model(n1)),
                  Against(Conf(n2), None, {Conf(n1), Conf(n4)}, None)}),
   With(Seen, {Feedback(n1, Anal(n1)), [Feedback(n1, Anal(n1)) EXCEPT !.consent = FALSE],
               [Feedback(n1, Anal(n1)) EXCEPT !.pinned = FALSE], Feedback(n1, Anal(n2))}),
   At(Seen, {q1, q2} \X {Infer(n1, Anal(n1)), Infer(n2, Anal(n1))}),
   With(Seen, {Infer(n1, Anal(n1)), Infer(n1, Anal(n2)),
               [Infer(n1, Anal(n1)) EXCEPT !.consent = FALSE]}),
   With(Partly, {Infer(n1, Anal(n1)), Generate(n1, Conf(n1), Anal(n1))}),
   With(Seen, {Generate(n1, Conf(n1), Anal(n1)), Generate(n1, Conf(n1), Anal(n2)),
               Generate(n1, Conf(n2), Anal(n1))}),
   With(Native, {Make(n1, Conf(n1), n3, n1), Make(n1, Conf(n1), n4, n1)}),
   With(Native, {Make(n1, Conf(n1), n3, n1), Draft(n1, Conf(n1), Conf(n2)),
                 Make(n2, Conf(n1), n4, n1), Analyze(Conf(n1))}),
   With(Natives, {Make(n1, Conf(n1), n3, n1), Make(n2, Conf(n1), n3, n2)}),
   With(Twice, {Make(n1, Conf(n1), n3, n1), Make(n2, Conf(n2), n3, n2),
                Make(n2, Conf(n2), n4, n2)})}

=============================================================================
