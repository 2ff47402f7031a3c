------------------------------ MODULE WebSession ------------------------------
(***************************************************************************)
(* The page of the web interface (App.tsx): a session with one token, one  *)
(* operation at a time, the snapshot and the analysis that are shown, and  *)
(* the explanation of a finding below them (ExplanationPanel.tsx with      *)
(* ExplanationRequestGate).  A session can end at any moment - the button, *)
(* a 401 of any panel, the browser hiding the page - while its requests    *)
(* are still to be answered, and another session can begin before they     *)
(* are.  The page is not mounted anew, so every answer has to ask whether  *)
(* its client is still the active one.                                     *)
(***************************************************************************)
EXTENDS Integers, FiniteSets

CONSTANTS
  Sessions,   \* clients, 1 .. n, in the order they are made
  Snapshots,  \* stored snapshots; an analysis is known by the snapshot it is of
  MaxAsks,    \* bound: changes of the request gate
  None

ASSUME SessionConstants ==
  /\ Sessions \subseteq Nat /\ MaxAsks \in Nat
  /\ None \notin Sessions \union Snapshots \union [by : Sessions, of : Snapshots]

VARIABLES
  session,   \* the client that is shown as connected
  active,    \* the ref active.current
  made,      \* how many clients were made
  busy,
  snapshot,  \* what is shown: [by, of] or None
  result,
  listed,    \* whose list is shown
  calls,     \* requests of the page that are under way: [op, by, of]
  gate,      \* the request gate of the explanation
  asks,      \* explanations under way: [request, mode, model]
  bundle,    \* the explanation received: [by, of, mode, model]
  consents,  \* history: consents to a model call, and model calls, per mode
  asked

pageVars == <<session, active, made, busy, snapshot, result, listed, calls>>
gateVars == <<gate, asks, bundle, consents, asked>>
sessionVars == <<session, active, made, busy, snapshot, result, listed, calls,
                 gate, asks, bundle, consents, asked>>

Modes == {"legacy", "grounded"}
Outcomes == {"ok", "failed", "unauthorized"}

Shows(client, of) == [by |-> client, of |-> of]
Start(op, of) == calls' = calls \cup {[op |-> op, by |-> active, of |-> of]}

-----------------------------------------------------------------------------
(* ExplanationRequestGate: bind, allow, begin, current, finish, invalidate. *)

Gate(mode) == [mode |-> mode, sequence |-> 1, permission |-> FALSE, loading |-> FALSE]
Invalidate(g) ==
  [g EXCEPT !.sequence = g.sequence + 1, !.permission = FALSE, !.loading = FALSE]
Bind(g, mode) == IF g.mode = mode THEN g ELSE [Invalidate(g) EXCEPT !.mode = mode]
Begins(g, model) == ~g.loading /\ (model => g.permission)
Begin(g) == [g EXCEPT !.permission = FALSE, !.loading = TRUE, !.sequence = g.sequence + 1]
Current(g, request) == request = g.sequence
Finish(g, request) == IF Current(g, request) THEN [g EXCEPT !.loading = FALSE] ELSE g

\* The panel lives under the analysis that is shown; when that goes, the gate is
\* invalidated and answers under way reach nobody.
Unmount ==
  /\ gate' = Gate("legacy")
  /\ asks' = {}
  /\ bundle' = None
  /\ consents' = [m \in Modes |-> 0]
  /\ asked' = [m \in Modes |-> 0]

Keep == UNCHANGED gateVars

-----------------------------------------------------------------------------
(* The session.                                                             *)

\* disconnect
Cleared ==
  /\ active' = None /\ session' = None /\ busy' = FALSE
  /\ snapshot' = None /\ result' = None /\ listed' = None
  /\ Unmount

Disconnect == Cleared /\ UNCHANGED <<made, calls>>

\* connect: the client is active before it is known to be accepted.
Connect ==
  /\ session = None /\ ~busy
  /\ made + 1 \in Sessions
  /\ made' = made + 1
  /\ active' = made + 1
  /\ busy' = TRUE
  /\ calls' = calls \cup {[op |-> "connect", by |-> made + 1, of |-> None]}
  /\ UNCHANGED <<session, snapshot, result, listed>> /\ Keep

AlwaysFreed(c, o) ==
  /\ c.op = "connect"
  /\ IF active = c.by
     THEN IF o = "ok"
          THEN /\ session' = c.by /\ busy' = FALSE
               /\ calls' = (calls \ {c}) \cup {[op |-> "list", by |-> c.by, of |-> None]}
               /\ UNCHANGED <<active, snapshot, result, listed>> /\ Keep
          ELSE Cleared /\ calls' = calls \ {c}
     ELSE /\ busy' = FALSE
          /\ calls' = calls \ {c}
          /\ UNCHANGED <<session, active, snapshot, result, listed>> /\ Keep
  /\ UNCHANGED made

Connected(c, o) ==
  /\ c.op = "connect"
  /\ IF active = c.by
     THEN IF o = "ok"
          THEN /\ session' = c.by /\ busy' = FALSE
               /\ calls' = (calls \ {c}) \cup {[op |-> "list", by |-> c.by, of |-> None]}
               /\ UNCHANGED <<active, snapshot, result, listed>> /\ Keep
          ELSE Cleared /\ calls' = calls \ {c}
     ELSE /\ busy' = IF active = None THEN FALSE ELSE busy
          /\ calls' = calls \ {c}
          /\ UNCHANGED <<session, active, snapshot, result, listed>> /\ Keep
  /\ UNCHANGED made

-----------------------------------------------------------------------------
(* The operations: openSnapshot and openAnalysis clear what is shown before *)
(* they ask, analyze clears the analysis, upload and openMaterialized keep  *)
(* it until they have an answer.                                            *)

MayOperate == session # None /\ active # None /\ ~busy

OpenSnapshot(s) ==
  /\ MayOperate
  /\ busy' = TRUE /\ snapshot' = None /\ result' = None
  /\ Start("open", s) /\ Unmount
  /\ UNCHANGED <<session, active, made, listed>>

OpenAnalysis(s) ==
  /\ MayOperate
  /\ busy' = TRUE /\ snapshot' = None /\ result' = None
  /\ Start("analysis", s) /\ Unmount
  /\ UNCHANGED <<session, active, made, listed>>

Analyze ==
  /\ MayOperate /\ snapshot # None
  /\ busy' = TRUE /\ result' = None
  /\ Start("analyze", snapshot.of) /\ Unmount
  /\ UNCHANGED <<session, active, made, snapshot, listed>>

\* upload and openMaterialized.
Bring(op, s) ==
  /\ MayOperate /\ op \in {"upload", "materialized"}
  /\ busy' = TRUE
  /\ Start(op, s) /\ Keep
  /\ UNCHANGED <<session, active, made, snapshot, result, listed>>

\* train, submitFeedback and compareSnapshots: the page waits, and shows nothing of it.
Submit ==
  /\ MayOperate
  /\ busy' = TRUE
  /\ Start("submit", None) /\ Keep
  /\ UNCHANGED <<session, active, made, snapshot, result, listed>>

\* The end of operation: what comes after an await is done for the active client only.
Operated(c, o) ==
  /\ c.op \notin {"connect", "list"}
  /\ IF active # c.by
     THEN calls' = calls \ {c} /\ Keep
          /\ UNCHANGED <<session, active, busy, snapshot, result, listed>>
     ELSE IF o = "unauthorized"
     THEN Cleared /\ calls' = calls \ {c}
     ELSE /\ busy' = FALSE
          /\ snapshot' = IF o = "ok" /\ c.op \in {"open", "analysis", "upload", "materialized"}
                         THEN Shows(c.by, c.of) ELSE snapshot
          /\ result' = IF o = "ok" /\ c.op \in {"analysis", "analyze"} THEN Shows(c.by, c.of)
                       ELSE IF o = "ok" /\ c.op \in {"upload", "materialized"} THEN None
                       ELSE result
          /\ IF result' = None /\ result # None THEN Unmount ELSE Keep
          \* refresh restarts the effect that reads the lists
          /\ calls' = (calls \ {c}) \cup
               (IF o = "ok" /\ c.op \in {"upload", "materialized", "analyze", "submit"}
                THEN {[op |-> "list", by |-> c.by, of |-> None]} ELSE {})
          /\ listed' = IF calls' \ calls # {} THEN None ELSE listed
          /\ UNCHANGED <<session, active>>
  /\ UNCHANGED made

\* The effect that reads the three lists.
ListArrives(c, o) ==
  /\ c.op = "list"
  /\ IF active = c.by /\ session = c.by
     THEN IF o = "unauthorized"
          THEN Cleared
          ELSE /\ listed' = IF o = "ok" THEN c.by ELSE listed
               /\ UNCHANGED <<session, active, busy, snapshot, result>> /\ Keep
     ELSE UNCHANGED <<session, active, busy, snapshot, result, listed>> /\ Keep
  /\ calls' = calls \ {c}
  /\ UNCHANGED made

-----------------------------------------------------------------------------
(* The explanation.                                                         *)

Explainable == session # None /\ result # None

Allow ==
  /\ Explainable /\ ~gate.permission /\ gate.sequence < MaxAsks
  /\ gate' = [gate EXCEPT !.permission = TRUE]
  /\ consents' = [consents EXCEPT ![gate.mode] = @ + 1]
  /\ UNCHANGED <<asks, bundle, asked>> /\ UNCHANGED pageVars

\* A change of any input binds the gate to another scope.
ChangeMode(m) ==
  /\ Explainable /\ gate.mode # m /\ gate.sequence < MaxAsks
  /\ gate' = Bind(gate, m)
  /\ UNCHANGED <<asks, bundle, consents, asked>> /\ UNCHANGED pageVars

\* load: nothing of an older request is shown while it runs.
Load(model) ==
  /\ Explainable /\ ~busy /\ Begins(gate, model) /\ gate.sequence < MaxAsks
  /\ gate' = Begin(gate)
  /\ asks' = asks \cup {[request |-> gate.sequence + 1, mode |-> gate.mode, model |-> model]}
  /\ bundle' = None
  /\ asked' = IF model THEN [asked EXCEPT ![gate.mode] = @ + 1] ELSE asked
  /\ UNCHANGED consents /\ UNCHANGED pageVars

Explained(a, ok) ==
  /\ a \in asks
  /\ asks' = asks \ {a}
  /\ bundle' = IF ok /\ Current(gate, a.request)
               THEN [by |-> session, of |-> result.of, mode |-> a.mode, model |-> a.model]
               ELSE bundle
  /\ gate' = Finish(gate, a.request)
  /\ UNCHANGED <<consents, asked>> /\ UNCHANGED pageVars

-----------------------------------------------------------------------------
SessionInit ==
  /\ session = None /\ active = None /\ made = 0 /\ busy = FALSE
  /\ snapshot = None /\ result = None /\ listed = None /\ calls = {}
  /\ gate = Gate("legacy") /\ asks = {} /\ bundle = None
  /\ consents = [m \in Modes |-> 0]
  /\ asked = [m \in Modes |-> 0]

SessionNext ==
  \/ Connect \/ Disconnect \/ Analyze \/ Submit \/ Allow
  \/ \E s \in Snapshots :
       \/ OpenSnapshot(s) \/ OpenAnalysis(s)
       \/ \E op \in {"upload", "materialized"} : Bring(op, s)
  \/ \E c \in calls, o \in Outcomes : Connected(c, o) \/ Operated(c, o) \/ ListArrives(c, o)
  \/ \E m \in Modes : ChangeMode(m)
  \/ \E model \in BOOLEAN : Load(model)
  \/ \E a \in asks, ok \in BOOLEAN : Explained(a, ok)

SessionSpec == SessionInit /\ [][SessionNext]_sessionVars

-----------------------------------------------------------------------------
(* Properties.                                                              *)

\* What is on the page was read by the session that is shown, the analysis is one of the
\* snapshot beside it, and without a session nothing is left of the last one.
ShowsItsOwn ==
  /\ \A v \in {snapshot, result} \ {None} : v.by = session
  /\ listed \in {None, session}
  /\ result # None => snapshot # None /\ result.of = snapshot.of
  /\ bundle # None => bundle.by = session /\ result # None /\ bundle.of = result.of

\* The page is busy exactly while its active client has an operation under way: an answer to
\* an ended session neither frees nor blocks the next one, and two operations never overlap.
BusyIsExact ==
  LET current == {c \in calls : c.op # "list" /\ c.by = active} IN
  /\ busy <=> active # None /\ current # {}
  /\ Cardinality(current) <= 1

\* A model is asked only under a consent given for the very same inputs, and once for each.
AskedUnderConsent == \A m \in Modes : asked[m] <= consents[m]

SessionIsSound == ShowsItsOwn /\ BusyIsExact /\ AskedUnderConsent

(* The inductive invariant behind them.                                     *)

Bringing == {"open", "analysis", "upload", "materialized"}
Ops == Bringing \cup {"connect", "list", "analyze", "submit"}
OnPage == [by : Sessions, of : Snapshots] \cup {None}
Calls == [op : Ops, by : Sessions, of : Snapshots \cup {None}]
Asks == [request : Nat, mode : Modes, model : BOOLEAN]
Gates == [mode : Modes, sequence : Nat, permission : BOOLEAN, loading : BOOLEAN]

SessionTypes ==
  /\ session \in Sessions \cup {None} /\ active \in Sessions \cup {None}
  /\ made \in Nat /\ busy \in BOOLEAN
  /\ snapshot \in OnPage /\ result \in OnPage /\ listed \in Sessions \cup {None}
  /\ calls \subseteq Calls /\ asks \subseteq Asks /\ gate \in Gates
  /\ consents \in [Modes -> Nat] /\ asked \in [Modes -> Nat]

Awaited == {c \in calls : c.op # "list" /\ c.by = active}

\* What the page awaits tells what it shows: what is replaced was cleared before, and
\* what is analysed is what is shown.
AwaitedInv ==
  /\ busy <=> Awaited # {}
  /\ \A c, d \in Awaited : c = d
  /\ \A c \in Awaited :
       /\ c.op # "connect" => session = active
       /\ c.op \in Bringing \cup {"analyze"} => c.of \in Snapshots
       /\ c.op \in {"open", "analysis", "analyze"} => result = None
       /\ c.op = "analyze" => snapshot # None /\ snapshot.of = c.of

\* A consent that no call of the model has used yet.
Unspent(m) == IF gate.permission /\ gate.mode = m THEN 1 ELSE 0

SessionInv ==
  /\ SessionTypes
  /\ \A c \in calls : c.by <= made   \* the next client is new to all calls
  /\ active \in {None, made} /\ session \in {None, active}
  /\ AwaitedInv
  /\ ShowsItsOwn
  /\ asks # {} => result # None
  /\ \A m \in Modes : asked[m] + Unspent(m) <= consents[m]
=============================================================================
