--------------------------- MODULE AttemptLedger ---------------------------
(***************************************************************************)
(* What every "intent first, outcome later" workflow of the backend        *)
(* promises, whatever its tables, its slot or its clock: a client names an *)
(* attempt, the first reservation of that name binds it to one request for *)
(* ever, the costly run happens at most once, and a result is written at   *)
(* most once, after that run.  An attempt may stay pending for ever: a     *)
(* crash between the two writes is never repaired by running again.        *)
(*                                                                         *)
(* The detailed modules of the workflows implement this specification      *)
(* through a refinement mapping.                                           *)
(***************************************************************************)
EXTENDS Integers

CONSTANTS
  Key,      \* names of attempts, chosen by clients
  Request,  \* what a client may ask for
  NoRequest \* the binding of a name nobody reserved

VARIABLES
  state,  \* state[k]: how far attempt k is
  bound,  \* bound[k]: the request the name k stands for
  runs    \* runs[k]: how often the costly work of k was started

ledgerVars == <<state, bound, runs>>

State == {"absent", "pending", "completed", "failed"}

LedgerTypeOK ==
  /\ state \in [Key -> State]
  /\ bound \in [Key -> Request \union {NoRequest}]
  /\ runs \in [Key -> {0, 1}]

Init ==
  /\ state = [k \in Key |-> "absent"]
  /\ bound = [k \in Key |-> NoRequest]
  /\ runs = [k \in Key |-> 0]

Reserve(k, r) ==
  /\ state[k] = "absent"
  /\ state' = [state EXCEPT ![k] = "pending"]
  /\ bound' = [bound EXCEPT ![k] = r]
  /\ UNCHANGED runs

Run(k) ==
  /\ state[k] = "pending"
  /\ runs[k] = 0
  /\ runs' = [runs EXCEPT ![k] = 1]
  /\ UNCHANGED <<state, bound>>

Settle(k, s) ==
  /\ state[k] = "pending"
  /\ runs[k] = 1
  /\ state' = [state EXCEPT ![k] = s]
  /\ UNCHANGED <<bound, runs>>

\* Some request is reserved: the one that the name is bound to afterwards, which
\* spares TLC a search through all requests at every step of an implementation.
Next ==
  \E k \in Key :
    \/ bound'[k] \in Request /\ Reserve(k, bound'[k])
    \/ Run(k)
    \/ \E s \in {"completed", "failed"} : Settle(k, s)

Spec == Init /\ [][Next]_ledgerVars

=============================================================================
