----------------------------- MODULE EvidenceLog -----------------------------
(***************************************************************************)
(* What the tables of saved records promise, whatever their columns and    *)
(* protocol versions: a log to which records are only added.  A record is  *)
(* final when it is written, or open until its one outcome is written, and *)
(* it may cite only records that are final, at the latest in the step that *)
(* adds it.  So nothing that a report, a decision or an assessment rests   *)
(* on can change after it was cited.                                       *)
(*                                                                         *)
(* EvidenceChain and ServiceStore implement this specification.            *)
(***************************************************************************)

CONSTANT Node

VARIABLES
  state,  \* state[n]: "absent", "open" or "final"
  cites,  \* cites[n]: the records that n rests on
  text    \* text[n]: what n says

logVars == <<state, cites, text>>

Sound ==
  /\ state \in [Node -> {"absent", "open", "final"}]
  /\ \A n \in Node : \A m \in cites[n] : state[n] # "absent" /\ state[m] = "final"

Init == Sound

Kept(n) == cites'[n] = cites[n] /\ text'[n] = text[n]

Added(n) == state[n] = "absent" /\ state'[n] # "absent"

Finished(n) == state[n] = "open" /\ state'[n] = "final" /\ Kept(n)

\* One transaction may add several records.
Next ==
  /\ Sound'
  /\ \A n \in Node : Added(n) \/ Finished(n) \/ (state'[n] = state[n] /\ Kept(n))

Spec == Init /\ [][Next]_logVars

=============================================================================
