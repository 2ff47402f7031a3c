------------------------ MODULE MCOperationJournal ------------------------
(* Small instances of OperationJournal for TLC. *)
EXTENDS OperationJournal, TLC

CONSTANTS r1, reader, engineer, read, draft, modelUse

MCGrants == (reader :> {read} @@ engineer :> {read, draft, modelUse})

Op(role, first, extra) == [role |-> role, first |-> first, extra |-> extra]

\* A served request with one and with two permissions, one refused at each check, and
\* one that no endpoint matches.
EveryOperation ==
  {Op(engineer, draft, None), Op(engineer, draft, modelUse), Op(None, read, None),
   Op(reader, draft, None), Op(reader, read, modelUse), Op(engineer, None, None)}

=============================================================================
