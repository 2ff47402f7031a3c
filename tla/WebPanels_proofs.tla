--------------------------- MODULE WebPanels_proofs ---------------------------
(***************************************************************************)
(* Safety of the web interface: nothing of one session reaches another one *)
(* and no model is asked without consent, for any number of sessions and   *)
(* snapshots; no panel starts a second attempt while one is under way, or  *)
(* forgets one that is not settled, for any number of attempts.            *)
(***************************************************************************)
EXTENDS WebPanels, FiniteSetTheorems, TLAPS

-----------------------------------------------------------------------------
(* The session: what every kind of step does to what is shown and awaited. *)

LEMMA SessionBegins == SessionInit => SessionInv
<1> SUFFICES ASSUME SessionInit PROVE SessionInv
  OBVIOUS
<1> USE DEF SessionInit
<1>1. SessionTypes
  BY DEF SessionTypes, OnPage, Gate, Gates, Modes
<1>2. AwaitedInv
  BY DEF AwaitedInv, Awaited
<1>3. ShowsItsOwn
  BY DEF ShowsItsOwn
<1>4. \A m \in Modes : asked[m] + Unspent(m) <= consents[m]
  BY DEF Unspent, Gate
<1> QED
  BY <1>1, <1>2, <1>3, <1>4 DEF SessionInv

\* Losing the session clears all that was its own.
LEMMA ClearedIsSound ==
  ASSUME SessionInv, Cleared, calls' \subseteq calls, made' = made
  PROVE  SessionInv'
<1> USE DEF Cleared, Unmount
<1>1. SessionTypes'
  BY DEF SessionInv, SessionTypes, OnPage, Gate, Gates, Modes
<1>2. Awaited' = {}
  BY SessionConstants DEF SessionInv, SessionTypes, Calls, Awaited
<1>3. AwaitedInv'
  BY <1>2 DEF AwaitedInv
<1>4. ShowsItsOwn'
  BY DEF ShowsItsOwn
<1>5. \A m \in Modes : asked'[m] + Unspent(m)' <= consents'[m]
  BY DEF Unspent, Gate
<1> QED
  BY <1>1, <1>3, <1>4, <1>5 DEF SessionInv

\* The request gate either stays or is mounted anew, and then nothing is explained.
Gated == Unmount \/ Keep

LEMMA GateIsSound ==
  ASSUME SessionInv, Gated
  PROVE  /\ asks' \subseteq Asks /\ gate' \in Gates
         /\ consents' \in [Modes -> Nat] /\ asked' \in [Modes -> Nat]
         /\ \A m \in Modes : asked'[m] + Unspent(m)' <= consents'[m]
<1>1. CASE Keep
  BY <1>1 DEF Keep, gateVars, SessionInv, SessionTypes, Unspent
<1>2. CASE Unmount
  BY <1>2 DEF Unmount, Unspent, Gate, Gates, Modes
<1> QED
  BY <1>1, <1>2 DEF Gated

LEMMA ConnectIsSound == ASSUME SessionInv, Connect PROVE SessionInv'
<1> USE DEF Connect
<1> DEFINE new == [op |-> "connect", by |-> made + 1, of |-> None]
<1>1. new \in Calls /\ made \in Nat
  BY DEF Calls, Ops, SessionInv, SessionTypes
<1>2. SessionTypes'
  BY <1>1, GateIsSound DEF Gated, SessionInv, SessionTypes
<1>3. Awaited' = {new}
  <2>1. \A c \in calls : c.by # made + 1
    BY <1>1 DEF SessionInv, SessionTypes, Calls
  <2> QED
    BY <2>1 DEF Awaited
<1>4. AwaitedInv'
  BY <1>3 DEF AwaitedInv, Bringing
<1>5. ShowsItsOwn' /\ session' \in {None, active'}
  BY DEF SessionInv, ShowsItsOwn, Keep, gateVars
<1>6. \A c \in calls' : c.by <= made'
  <2>1. \A c \in calls : c.by \in Nat /\ c.by <= made
    BY SessionConstants DEF SessionInv, SessionTypes, Calls
  <2> QED
    BY <1>1, <2>1
<1>7. asks' # {} => result' # None
  BY DEF SessionInv, Keep, gateVars
<1> QED
  BY <1>2, <1>4, <1>5, <1>6, <1>7, GateIsSound DEF Gated, SessionInv

\* The answer to connect.
LEMMA ConnectedIsSound ==
  ASSUME SessionInv, NEW c \in calls, NEW o \in Outcomes, Connected(c, o)
  PROVE  SessionInv'
<1> USE DEF Connected
<1>1. CASE active = c.by /\ o # "ok"
  BY <1>1, ClearedIsSound
<1>2. CASE active = c.by /\ o = "ok"
  <2> DEFINE new == [op |-> "list", by |-> c.by, of |-> None]
  <2> USE <1>2
  <2>1. c \in Calls /\ c \in Awaited /\ new \in Calls
    BY DEF SessionInv, SessionTypes, Awaited, Calls, Ops
  <2>2. SessionTypes'
    BY <2>1, GateIsSound DEF Gated, SessionInv, SessionTypes, Calls
  <2>3. Awaited' = {}
    BY <2>1 DEF SessionInv, AwaitedInv, Awaited
  <2>4. AwaitedInv'
    BY <2>3 DEF AwaitedInv
  <2>5. ShowsItsOwn'
    BY SessionConstants DEF SessionInv, SessionTypes, OnPage, ShowsItsOwn, Keep, gateVars
  <2>6. \A d \in calls' : d.by <= made'
    BY DEF SessionInv
  <2>7. asks' # {} => result' # None
    BY DEF SessionInv, Keep, gateVars
  <2> QED
    BY <2>2, <2>4, <2>5, <2>6, <2>7, GateIsSound DEF Gated, SessionInv
<1>3. CASE active # c.by
  <2> USE <1>3
  <2>1. Awaited' = Awaited
    BY DEF Awaited
  <2>2. busy' = busy
    <3>1. active = None => Awaited = {}
      BY SessionConstants DEF SessionInv, SessionTypes, Calls, Awaited
    <3>2. active = None => ~busy
      BY <3>1 DEF SessionInv, AwaitedInv
    <3>3. busy \in BOOLEAN
      BY DEF SessionInv, SessionTypes
    <3> QED
      BY <3>2, <3>3
  <2>3. SessionTypes'
    BY <2>2, GateIsSound DEF Gated, SessionInv, SessionTypes
  <2>4. AwaitedInv'
    BY <2>1, <2>2 DEF SessionInv, AwaitedInv
  <2>5. ShowsItsOwn'
    BY DEF SessionInv, ShowsItsOwn, Keep, gateVars
  <2>6. asks' # {} => result' # None
    BY DEF SessionInv, Keep, gateVars
  <2> QED
    BY <2>3, <2>4, <2>5, <2>6, GateIsSound DEF Gated, SessionInv
<1> QED
  BY <1>1, <1>2, <1>3

\* An operation begins: what it replaces is no longer shown.
LEMMA OperationIsSound ==
  ASSUME SessionInv, MayOperate, NEW op \in Ops \ {"connect", "list"},
         NEW of \in Snapshots \cup {None}, Start(op, of), busy' = TRUE,
         UNCHANGED <<session, active, made, listed>>,
         op \in Bringing \cup {"analyze"} => of \in Snapshots,
         snapshot' \in {snapshot, None}, result' \in {result, None},
         snapshot' = None => result' = None,
         op \in {"open", "analysis", "analyze"} => result' = None,
         op = "analyze" => snapshot' # None /\ snapshot'.of = of,
         Gated, result' # result => Unmount
  PROVE  SessionInv'
<1> DEFINE new == [op |-> op, by |-> active, of |-> of]
<1> USE DEF Start, MayOperate
<1>1. /\ new \in Calls /\ session = active /\ active \in Sessions
      /\ active <= made
  BY SessionConstants DEF SessionInv, SessionTypes, Calls
<1>2. SessionTypes'
  BY <1>1, GateIsSound DEF SessionInv, SessionTypes, OnPage
<1>3. Awaited' = {new}
  BY <1>1 DEF Awaited, SessionInv, AwaitedInv
<1>4. AwaitedInv'
  BY <1>1, <1>3 DEF AwaitedInv
<1>5. ShowsItsOwn' /\ (asks' # {} => result' # None)
  BY DEF SessionInv, ShowsItsOwn, Gated, Unmount, Keep, gateVars
<1> QED
  BY <1>1, <1>2, <1>4, <1>5, GateIsSound DEF SessionInv

\* The answer to an operation.
LEMMA OperatedIsSound ==
  ASSUME SessionInv, NEW c \in calls, NEW o \in Outcomes, Operated(c, o)
  PROVE  SessionInv'
<1> USE DEF Operated
<1>1. CASE active # c.by
  <2> USE <1>1
  <2>1. Awaited' = Awaited
    BY DEF Awaited
  <2>2. SessionTypes'
    BY GateIsSound DEF Gated, SessionInv, SessionTypes
  <2>3. AwaitedInv'
    BY <2>1 DEF SessionInv, AwaitedInv
  <2>4. ShowsItsOwn' /\ (asks' # {} => result' # None)
    BY DEF SessionInv, ShowsItsOwn, Keep, gateVars
  <2> QED
    BY <2>2, <2>3, <2>4, GateIsSound DEF Gated, SessionInv
<1>2. CASE active = c.by /\ o = "unauthorized"
  BY <1>2, ClearedIsSound
<1>3. CASE active = c.by /\ o # "unauthorized"
  <2> DEFINE new == [op |-> "list", by |-> c.by, of |-> None]
  <2> USE <1>3
  <2>1. /\ c \in Calls /\ c \in Awaited /\ new \in Calls
        /\ session = c.by /\ c.by \in Sessions
    BY DEF SessionInv, SessionTypes, AwaitedInv, Awaited, Calls, Ops
  <2>2. /\ c.op \in Bringing \cup {"analyze"} => c.of \in Snapshots /\ Shows(c.by, c.of) \in OnPage
        /\ c.op \in {"open", "analysis", "analyze"} => result = None
        /\ c.op = "analyze" => snapshot # None /\ snapshot.of = c.of
    BY <2>1 DEF SessionInv, AwaitedInv, OnPage, Shows
  <2>3. Gated
    BY DEF Gated
  <2>4. /\ snapshot' \in {snapshot, Shows(c.by, c.of)}
        /\ result' \in {result, Shows(c.by, c.of), None}
        /\ snapshot' \in OnPage /\ result' \in OnPage
    BY <2>2 DEF SessionInv, SessionTypes, OnPage, Bringing
  <2>5. SessionTypes'
    BY <2>1, <2>3, <2>4, GateIsSound DEF SessionInv, SessionTypes
  <2>6. Awaited' = {}
    BY <2>1 DEF SessionInv, AwaitedInv, Awaited
  <2>7. AwaitedInv'
    BY <2>6 DEF AwaitedInv
  <2>8. (result' # None => snapshot' # None /\ result'.of = snapshot'.of)
    <3>1. Shows(c.by, c.of) \in [by : Sessions, of : Snapshots] => Shows(c.by, c.of) # None
      BY SessionConstants
    <3>2. c.of \in Snapshots => Shows(c.by, c.of) # None
      BY <2>1, <3>1 DEF Shows
    <3> QED
      BY <2>1, <2>2, <3>2 DEF Shows, SessionInv, ShowsItsOwn, Bringing
  <2>9. \A v \in {snapshot', result'} \ {None} : v.by = session'
    BY <2>1, <2>4 DEF Shows, SessionInv, ShowsItsOwn
  <2>10. bundle' # None => bundle'.by = session' /\ result' # None /\ bundle'.of = result'.of
    <3>1. CASE result' = None /\ result # None
      BY <3>1 DEF Unmount
    <3>2. CASE result = None
      BY <3>2, <2>3 DEF SessionInv, ShowsItsOwn, Gated, Unmount, Keep, gateVars
    <3>3. CASE result # None /\ result' # None
      <4>1. result' = result
        BY <3>3, <2>2
      <4> QED
        BY <3>3, <4>1 DEF SessionInv, ShowsItsOwn, Keep, gateVars
    <3> QED
      BY <3>1, <3>2, <3>3
  <2>11. listed' \in {None, session'}
    BY <2>1 DEF SessionInv, ShowsItsOwn
  <2>12. asks' # {} => result' # None
    BY <2>3 DEF SessionInv, Gated, Unmount, Keep, gateVars
  <2>13. \A d \in calls' : d.by <= made'
    BY DEF SessionInv
  <2> QED
    BY <2>3, <2>5, <2>7, <2>8, <2>9, <2>10, <2>11, <2>12, <2>13, GateIsSound
       DEF SessionInv, ShowsItsOwn
<1> QED
  BY <1>1, <1>2, <1>3

LEMMA ListIsSound ==
  ASSUME SessionInv, NEW c \in calls, NEW o \in Outcomes, ListArrives(c, o)
  PROVE  SessionInv'
<1> USE DEF ListArrives
<1>1. CASE active = c.by /\ session = c.by /\ o = "unauthorized"
  BY <1>1, ClearedIsSound
<1>2. CASE ~(active = c.by /\ session = c.by /\ o = "unauthorized")
  <2> USE <1>2
  <2>1. /\ UNCHANGED <<session, active, busy, snapshot, result>> /\ Keep
        /\ listed' \in {listed, session}
    OBVIOUS
  <2>2. Awaited' = Awaited
    BY <2>1 DEF Awaited
  <2>3. SessionTypes'
    BY <2>1, GateIsSound DEF Gated, SessionInv, SessionTypes
  <2>4. AwaitedInv'
    BY <2>1, <2>2 DEF SessionInv, AwaitedInv
  <2>5. ShowsItsOwn' /\ (asks' # {} => result' # None)
    BY <2>1 DEF SessionInv, ShowsItsOwn, Keep, gateVars
  <2> QED
    BY <2>1, <2>3, <2>4, <2>5, GateIsSound DEF Gated, SessionInv
<1> QED
  BY <1>1, <1>2

\* The explanation: the page stands still.
LEMMA ExplainingIsSound ==
  ASSUME SessionInv, UNCHANGED pageVars, asks' \subseteq Asks, gate' \in Gates,
         consents' \in [Modes -> Nat], asked' \in [Modes -> Nat],
         asks' # {} => result # None,
         bundle' # None => bundle'.by = session /\ result # None /\ bundle'.of = result.of,
         \A m \in Modes : asked'[m] + Unspent(m)' <= consents'[m]
  PROVE  SessionInv'
<1> USE DEF pageVars
<1>1. SessionTypes'
  BY DEF SessionInv, SessionTypes
<1>2. AwaitedInv'
  BY DEF SessionInv, AwaitedInv, Awaited
<1>3. ShowsItsOwn'
  BY DEF SessionInv, ShowsItsOwn
<1> QED
  BY <1>1, <1>2, <1>3 DEF SessionInv

LEMMA AllowIsSound == ASSUME SessionInv, Allow PROVE SessionInv'
<1> USE DEF Allow
<1>0. gate \in Gates /\ consents \in [Modes -> Nat] /\ gate.mode \in Modes
  BY DEF SessionInv, SessionTypes, Gates
<1>1. gate' \in Gates
  BY <1>0 DEF Gates
<1>3. consents' \in [Modes -> Nat] /\ asked' = asked
  BY <1>0
<1>2. \A m \in Modes : asked'[m] + Unspent(m)' <= consents'[m]
  BY <1>0, <1>3 DEF SessionInv, SessionTypes, Gates, Unspent
<1> QED
  BY <1>1, <1>2, <1>3, ExplainingIsSound DEF SessionInv, SessionTypes, ShowsItsOwn, Explainable

\* The gate after a change of scope, and after the start of an explanation.
LEMMA GateSteps ==
  ASSUME NEW g \in Gates, NEW m \in Modes
  PROVE  /\ Bind(g, m) \in Gates /\ (g.mode # m => Bind(g, m).permission = FALSE)
         /\ Begin(g) \in Gates /\ Begin(g).permission = FALSE
<1> DEFINE n == g.sequence + 1
<1>1. n \in Nat
  BY DEF Gates
<1> HIDE DEF n
<1>2. /\ [g EXCEPT !.sequence = n, !.permission = FALSE, !.loading = FALSE] \in Gates
      /\ [g EXCEPT !.sequence = n, !.permission = FALSE, !.loading = FALSE].permission = FALSE
      /\ [g EXCEPT !.permission = FALSE, !.loading = TRUE, !.sequence = n] \in Gates
      /\ [g EXCEPT !.permission = FALSE, !.loading = TRUE, !.sequence = n].permission = FALSE
  BY <1>1 DEF Gates
<1>3. /\ Invalidate(g) \in Gates /\ Invalidate(g).permission = FALSE
      /\ Begin(g) \in Gates /\ Begin(g).permission = FALSE
  BY <1>2 DEF n, Invalidate, Begin
<1>4. /\ [Invalidate(g) EXCEPT !.mode = m] \in Gates
      /\ [Invalidate(g) EXCEPT !.mode = m].permission = FALSE
  BY <1>3 DEF Gates
<1> QED
  BY <1>3, <1>4 DEF Bind

LEMMA ChangeModeIsSound == ASSUME SessionInv, NEW m \in Modes, ChangeMode(m) PROVE SessionInv'
<1> USE DEF ChangeMode
<1>0. gate \in Gates
  BY DEF SessionInv, SessionTypes
<1>1. gate' \in Gates /\ ~gate'.permission
  BY <1>0, GateSteps
<1>2. \A n \in Modes : asked'[n] + Unspent(n)' <= consents'[n]
  BY <1>1 DEF SessionInv, SessionTypes, Unspent
<1> QED
  BY <1>1, <1>2, ExplainingIsSound DEF SessionInv, SessionTypes, ShowsItsOwn, Explainable

LEMMA LoadIsSound == ASSUME SessionInv, NEW model \in BOOLEAN, Load(model) PROVE SessionInv'
<1> USE DEF Load
<1> DEFINE new == [request |-> gate.sequence + 1, mode |-> gate.mode, model |-> model]
<1>0. gate \in Gates /\ gate.mode \in Modes /\ asked \in [Modes -> Nat]
  BY DEF SessionInv, SessionTypes, Gates
<1>1. gate' \in Gates /\ ~gate'.permission
  BY <1>0, GateSteps
<1>4. new \in Asks
  BY <1>0 DEF Gates, Asks
<1>2. asked' \in [Modes -> Nat]
  BY <1>0
<1>3. \A n \in Modes : asked'[n] + Unspent(n)' <= consents'[n]
  BY <1>1 DEF SessionInv, SessionTypes, Unspent, Begins
<1> QED
  BY <1>1, <1>2, <1>3, <1>4, ExplainingIsSound DEF SessionInv, SessionTypes, Explainable

LEMMA ExplainedIsSound ==
  ASSUME SessionInv, NEW a \in asks, NEW ok \in BOOLEAN, Explained(a, ok)
  PROVE  SessionInv'
<1> USE DEF Explained
<1>1. gate' \in Gates /\ gate'.permission = gate.permission /\ gate'.mode = gate.mode
  BY DEF SessionInv, SessionTypes, Gates, Finish
<1>2. \A n \in Modes : asked'[n] + Unspent(n)' <= consents'[n]
  BY <1>1 DEF SessionInv, SessionTypes, Unspent
<1>3. bundle' # None => bundle'.by = session /\ result # None /\ bundle'.of = result.of
  BY DEF SessionInv, ShowsItsOwn
<1> QED
  BY <1>1, <1>2, <1>3, ExplainingIsSound DEF SessionInv, SessionTypes
LEMMA SessionStep == SessionInv /\ [SessionNext]_sessionVars => SessionInv'
<1> SUFFICES ASSUME SessionInv, [SessionNext]_sessionVars PROVE SessionInv'
  OBVIOUS
<1>1. CASE Connect
  BY <1>1, ConnectIsSound
<1>2. CASE Disconnect
  BY <1>2, ClearedIsSound DEF Disconnect
<1>3. CASE Analyze
  <2>1. /\ snapshot.of \in Snapshots /\ snapshot' # None
    BY <1>3 DEF Analyze, SessionInv, SessionTypes, OnPage
  <2> QED
    BY <1>3, <2>1, OperationIsSound DEF Analyze, Gated, Ops, Bringing
<1>4. CASE Submit
  BY <1>4, OperationIsSound DEF Submit, Gated, Ops, Bringing, SessionInv, ShowsItsOwn
<1>5. CASE Allow
  BY <1>5, AllowIsSound
<1>6. ASSUME NEW s \in Snapshots, OpenSnapshot(s) \/ OpenAnalysis(s)
      PROVE  SessionInv'
  BY <1>6, OperationIsSound DEF OpenSnapshot, OpenAnalysis, Gated, Ops, Bringing
<1>7. ASSUME NEW s \in Snapshots, NEW op \in {"upload", "materialized"}, Bring(op, s)
      PROVE  SessionInv'
  BY <1>7, OperationIsSound DEF Bring, Gated, Ops, Bringing, SessionInv, ShowsItsOwn
<1>8. ASSUME NEW c \in calls, NEW o \in Outcomes,
             Connected(c, o) \/ Operated(c, o) \/ ListArrives(c, o)
      PROVE  SessionInv'
  BY <1>8, ConnectedIsSound, OperatedIsSound, ListIsSound
<1>9. ASSUME NEW m \in Modes, ChangeMode(m)
      PROVE  SessionInv'
  BY <1>9, ChangeModeIsSound
<1>10. ASSUME NEW model \in BOOLEAN, Load(model)
       PROVE  SessionInv'
  BY <1>10, LoadIsSound
<1>11. ASSUME NEW a \in asks, NEW ok \in BOOLEAN, Explained(a, ok)
       PROVE  SessionInv'
  BY <1>11, ExplainedIsSound
<1>12. CASE UNCHANGED sessionVars
  <2> USE <1>12 DEF sessionVars
  <2>1. SessionTypes' /\ AwaitedInv' /\ ShowsItsOwn'
    BY DEF SessionInv, SessionTypes, AwaitedInv, Awaited, ShowsItsOwn
  <2> QED
    BY <2>1 DEF SessionInv, Unspent
<1> QED
  BY <1>1, <1>2, <1>3, <1>4, <1>5, <1>6, <1>7, <1>8, <1>9, <1>10, <1>11, <1>12 DEF SessionNext

\* The invariant of the page: what it awaits tells what it may show.
THEOREM SessionInvariance == SessionSpec => []SessionInv
BY SessionBegins, SessionStep, PTL DEF SessionSpec

\* For any number of sessions, snapshots and requests under way: the page shows only what
\* its own session has read, is busy exactly while its one operation is under way, and asks
\* a model only under an unspent consent for the very mode (App.tsx, ExplanationPanel.tsx).
THEOREM SessionSound == SessionSpec => []SessionIsSound
<1>1. ASSUME SessionInv PROVE SessionIsSound
  <2> DEFINE current == {c \in calls : c.op # "list" /\ c.by = active}
  <2>1. current = Awaited /\ AwaitedInv
    BY <1>1 DEF SessionInv, Awaited
  <2>2. Cardinality(current) <= 1
    <3>1. CASE current = {}
      BY <3>1, FS_EmptySet
    <3>2. CASE current # {}
      <4>1. PICK c \in current : current = {c}
        BY <3>2, <2>1 DEF AwaitedInv
      <4>2. Cardinality({c}) = 1
        BY FS_Singleton
      <4> QED
        BY <4>1, <4>2
    <3> QED
      BY <3>1, <3>2
  <2>3. active = None => Awaited = {}
    BY <1>1, SessionConstants DEF SessionInv, SessionTypes, Calls, Awaited
  <2>4. BusyIsExact
    BY <2>1, <2>2, <2>3 DEF BusyIsExact, AwaitedInv
  <2>5. ASSUME NEW m \in Modes PROVE asked[m] <= consents[m]
    BY <1>1 DEF SessionInv, SessionTypes, Unspent
  <2> QED
    BY <1>1, <2>4, <2>5 DEF SessionInv, SessionIsSound, AskedUnderConsent
<1> QED
  BY SessionInvariance, <1>1, PTL
-----------------------------------------------------------------------------
(* The panels: what each handler makes of a panel in a good state.         *)

\* A panel t that may follow s in the same mount.
Settles(s) ==
  NeverStored(s.intent) \/ row[s.intent] = "final" \/ (s.kind = "materialization" /\ Stored # {})
Follows(p, s, t) ==
  /\ t \in Pane /\ t.kind = s.kind /\ PaneInv(p, t)
  /\ s.intent # None /\ t.intent # s.intent => Settles(s)

\* An answer to the request that s awaits.
Responds(s, a, v) ==
  /\ s.work = "post" /\ a \in Answers
  /\ v \in View /\ v.id = s.site
  /\ a = "row" => Seen(s.kind, v)
  /\ a \in {"refused", "unavailable"} => post[s.site] = a
  /\ post[s.site] = "refused" => row[s.site] = "none"

\* The fields of a panel that is at rest, and of one with a changed refusal.
LEMMA Rest ==
  ASSUME NEW s \in Pane
  PROVE  /\ Idle(s) \in Pane
         /\ Idle(s).work = "idle" /\ Idle(s).got = None /\ Idle(s).kind = s.kind
         /\ Idle(s).intent = s.intent /\ Idle(s).view = s.view /\ Idle(s).first = s.first
         /\ Idle(s).uncertain = s.uncertain /\ Idle(s).rejected = s.rejected
         /\ Idle(s).notStored = s.notStored
BY DEF Pane, Idle

LEMMA NoRowIsNoRow == NoRow # None /\ NoRow \notin View /\ None \notin View
<1>1. NoRow \in [id : Ids \cup {0, None}, final : BOOLEAN]
  BY DEF NoRow
<1>2. View \subseteq [id : Ids \cup {0, None}, final : BOOLEAN]
  BY DEF View
<1>3. NoRow \notin View
  BY PanelConstants DEF NoRow, View
<1> QED
  BY <1>1, <1>2, <1>3, PanelConstants

\* What u says of its attempt is true of the rows; it forgets only what s may forget; and
\* what it shows is stored.
Honest(u) ==
  /\ u.intent # None =>
       /\ ~u.uncertain /\ u.kind # "patch" => row[u.intent] = "final"
       /\ u.rejected => Answering(u.intent)
       /\ u.notStored => NeverStored(u.intent)
  /\ u.kind \in Replaying => ~u.rejected /\ ~u.notStored
Lets(s, u) ==
  \/ u.intent = s.intent
  \/ /\ u.intent = None
     /\ \/ NeverStored(s.intent) \/ row[s.intent] = "final"
        \/ s.kind = "materialization" /\ Stored # {} /\ u.view # None
Showing(s, u) ==
  \/ u.view = s.view
  \/ u.view = None /\ s.kind # "materialization"
  \/ u.view # None /\ Seen(s.kind, u.view)

\* A panel at rest is in a good state when what changed is true of the rows.
LEMMA StandIsGood ==
  ASSUME NEW p \in Slots, NEW s \in Pane, PaneInv(p, s), NEW t \in Pane,
         t.work = "idle", t.got = None, t.kind = s.kind, t.first = s.first,
         Honest(t), Lets(s, t), Showing(s, t)
  PROVE  Follows(p, s, t)
<1>1. SiteInv(p, t)
  BY DEF PaneInv, SiteInv
<1>2. IntentInv(p, t)
  BY NoRowIsNoRow DEF PaneInv, IntentInv, Honest, Lets
<1>3. t.view # None => Seen(t.kind, t.view)
  BY DEF PaneInv, Showing
<1>4. t.first = "row" => Stored # {}
  BY DEF PaneInv
<1>5. ASSUME NEW i \in Ids, UnderWay(i), owner[i] = <<p, mount>>
      PROVE  t.intent = i \/ (t.kind = "materialization" /\ t.view # None)
  BY <1>5 DEF PaneInv, UnderWay, NeverStored, Lets, Showing, SiteInv
<1>6. t.kind \in Replaying => ~t.rejected /\ ~t.notStored
  BY DEF Honest
<1>7. PaneInv(p, t)
  BY <1>1, <1>2, <1>3, <1>4, <1>5, <1>6 DEF PaneInv
<1>8. s.intent # None /\ t.intent # s.intent => Settles(s)
  BY DEF Lets, Settles
<1> QED
  BY <1>7, <1>8 DEF Follows

LEMMA RestIsGood ==
  ASSUME NEW p \in Slots, NEW s \in Pane, PaneInv(p, s), NEW u \in Pane,
         u.kind = s.kind, u.first = s.first,
         Honest(u), Lets(s, u), Showing(s, u)
  PROVE  Follows(p, s, Idle(u))
<1> DEFINE t == Idle(u)
<1>1. /\ t \in Pane /\ t.work = "idle" /\ t.got = None /\ t.kind = s.kind
      /\ t.intent = u.intent /\ t.view = u.view /\ t.first = s.first
      /\ t.uncertain = u.uncertain /\ t.rejected = u.rejected /\ t.notStored = u.notStored
  BY Rest
<1> HIDE DEF t
<1>2. Honest(t) /\ Lets(s, t) /\ Showing(s, t)
  BY <1>1 DEF Honest, Lets, Showing
<1>3. Follows(p, s, t)
  BY <1>1, <1>2, StandIsGood
<1> QED
  BY <1>3 DEF t

\* So is one that reloads its history after it was shown the row it intends.
LEMMA ReloadIsGood ==
  ASSUME NEW p \in Slots, NEW s \in Pane, PaneInv(p, s), NEW t \in Pane,
         s.work = "post", s.kind # "materialization",
         t.kind = s.kind, t.work = "list", t.got = None, t.first = s.first,
         t.intent = s.intent, t.site = s.site, row[s.site] # "none",
         ~t.uncertain /\ t.kind # "patch" => row[t.intent] = "final",
         t.rejected = s.rejected, t.notStored = s.notStored,
         t.view # None /\ Seen(s.kind, t.view)
  PROVE  Follows(p, s, t)
<1>1. SiteInv(p, t)
  BY DEF PaneInv, SiteInv
<1>2. IntentInv(p, t)
  BY PanelConstants DEF PaneInv, IntentInv, SiteInv
<1>3. PaneInv(p, t)
  BY <1>1, <1>2, PanelConstants DEF PaneInv, SiteInv
<1> QED
  BY <1>3 DEF Follows
\* What the answer to a request is about.
LEMMA ResponseFacts ==
  ASSUME NEW p \in Slots, NEW s \in Pane, PaneInv(p, s), NEW a, NEW v, Responds(s, a, v)
  PROVE  /\ s.kind # "materialization" => s.intent = s.site /\ s.intent # None
         /\ s.got = None
         /\ a = "row" => row[s.site] # "none" /\ (v.final => row[s.site] = "final")
         /\ a \in {"refused", "unavailable"} => Answering(s.site)
         /\ a = "refused" => NeverStored(s.site)
BY DEF PaneInv, SiteInv, Responds, Seen, Answering, NeverStored

\* Accepting a row changes what is shown and how certain it is.
LEMMA Accepted ==
  ASSUME NEW s \in Pane, NEW v \in View
  PROVE  /\ Accept(s, v) \in Pane /\ Accept(s, v).kind = s.kind
         /\ Accept(s, v).intent = s.intent /\ Accept(s, v).first = s.first
         /\ Accept(s, v).work = s.work /\ Accept(s, v).site = s.site
         /\ Accept(s, v).got = s.got /\ Accept(s, v).rejected = s.rejected
         /\ Accept(s, v).notStored = s.notStored /\ Accept(s, v).view = v
         /\ ~Accept(s, v).uncertain => v.final
<1> DEFINE n == ~v.final
           t == [s EXCEPT !.view = v, !.uncertain = n]
<1>1. n \in BOOLEAN /\ (~n => v.final)
  BY DEF View
<1> HIDE DEF n
<1>2. /\ t \in Pane /\ t.kind = s.kind /\ t.intent = s.intent /\ t.first = s.first
      /\ t.work = s.work /\ t.site = s.site /\ t.got = s.got
      /\ t.rejected = s.rejected /\ t.notStored = s.notStored /\ t.view = v
      /\ t.uncertain = n
  BY <1>1 DEF Pane
<1> QED
  BY <1>1, <1>2 DEF Accept, n

\* A row that is shown before the history is reloaded.
LEMMA AcceptAndReload ==
  ASSUME NEW p \in Slots, NEW s \in Pane, PaneInv(p, s), s.kind # "materialization",
         NEW v, Responds(s, "row", v)
  PROVE  Follows(p, s, [Accept(s, v) EXCEPT !.work = "list"])
<1> DEFINE t == [Accept(s, v) EXCEPT !.work = "list"]
<1>1. v \in View /\ v # None
  BY NoRowIsNoRow DEF Responds
<1>2. /\ t \in Pane /\ t.kind = s.kind /\ t.intent = s.intent /\ t.work = "list"
      /\ t.got = s.got /\ t.first = s.first /\ t.site = s.site /\ t.rejected = s.rejected
      /\ t.notStored = s.notStored /\ t.view = v /\ (~t.uncertain => v.final)
  BY <1>1, Accepted DEF Pane
<1> HIDE DEF t
<1>3. Follows(p, s, t)
  BY <1>1, <1>2, ResponseFacts, ReloadIsGood DEF Responds
<1> QED
  BY <1>3 DEF t

\* A failed answer: the attempt is as uncertain as before or more, and refused or not.
LEMMA RefusalIsGood ==
  ASSUME NEW p \in Slots, NEW s \in Pane, PaneInv(p, s), s.kind \notin Replaying,
         NEW r \in BOOLEAN, s.intent # None /\ r => Answering(s.intent)
  PROVE  /\ Follows(p, s, Idle([s EXCEPT !.rejected = r]))
         /\ Follows(p, s, Idle([s EXCEPT !.uncertain = TRUE, !.rejected = r]))
<1>1. ASSUME NEW u \in Pane, u.kind = s.kind, u.intent = s.intent, u.first = s.first,
             u.view = s.view, u.uncertain \in {s.uncertain, TRUE}, u.rejected = r,
             u.notStored = s.notStored
      PROVE  Follows(p, s, Idle(u))
  <2>1. Honest(u)
    BY <1>1 DEF PaneInv, IntentInv, Honest
  <2> QED
    BY <1>1, <2>1, RestIsGood DEF Lets, Showing
<1>2. Follows(p, s, Idle([s EXCEPT !.rejected = r]))
  <2> DEFINE u == [s EXCEPT !.rejected = r]
  <2>1. /\ u \in Pane /\ u.kind = s.kind /\ u.intent = s.intent /\ u.first = s.first
        /\ u.view = s.view /\ u.uncertain = s.uncertain /\ u.rejected = r
        /\ u.notStored = s.notStored
    BY DEF Pane
  <2> HIDE DEF u
  <2>2. Follows(p, s, Idle(u))
    BY <1>1, <2>1
  <2> QED
    BY <2>2 DEF u
<1>3. Follows(p, s, Idle([s EXCEPT !.uncertain = TRUE, !.rejected = r]))
  <2> DEFINE u == [s EXCEPT !.uncertain = TRUE, !.rejected = r]
  <2>1. /\ u \in Pane /\ u.kind = s.kind /\ u.intent = s.intent /\ u.first = s.first
        /\ u.view = s.view /\ u.uncertain = TRUE /\ u.rejected = r
        /\ u.notStored = s.notStored
    BY DEF Pane
  <2> HIDE DEF u
  <2>2. Follows(p, s, Idle(u))
    BY <1>1, <2>1
  <2> QED
    BY <2>2 DEF u
<1> QED
  BY <1>2, <1>3

\* The four rechecks.
Rechecks == {"forest", "deterministic", "ml", "verification"}

LEMMA RecheckAnswered ==
  ASSUME NEW p \in Slots, NEW s \in Pane, PaneInv(p, s), s.kind \in Rechecks,
         NEW a, NEW v, Responds(s, a, v)
  PROVE  Follows(p, s, Answered(s, a, v))
<1> DEFINE r == a \in Definite \cup {"unavailable"}
<1>1. r \in BOOLEAN /\ (s.intent # None /\ r => Answering(s.intent))
  BY ResponseFacts DEF Definite, Rechecks
<1>2. s.kind \notin Replaying /\ s.kind # "materialization"
  BY DEF Rechecks, Replaying
<1> HIDE DEF r
<1>3. CASE a = "row"
  <2>1. Answered(s, a, v) = [Accept(s, v) EXCEPT !.work = "list"]
    BY <1>3 DEF Rechecks, Answered, ForestAnswered, DeterministicAnswered, MlAnswered,
       VerificationAnswered
  <2> QED
    BY <1>2, <1>3, <2>1, AcceptAndReload
<1>4. CASE a # "row"
  <2>1. \/ Answered(s, a, v) = Idle([s EXCEPT !.rejected = r])
        \/ Answered(s, a, v) = Idle([s EXCEPT !.uncertain = TRUE, !.rejected = r])
    BY <1>4 DEF Rechecks, Answered, ForestAnswered, DeterministicAnswered, MlAnswered,
       VerificationAnswered, MlFailed, VerificationFailed, r
  <2> QED
    BY <1>1, <1>2, <2>1, RefusalIsGood
<1> QED
  BY <1>3, <1>4
\* Records of the chain, and patches: the row is what is certain.
LEMMA RecordReload ==
  ASSUME NEW p \in Slots, NEW s \in Pane, PaneInv(p, s),
         s.kind \notin Attempts, s.kind # "materialization", NEW v, Responds(s, "row", v)
  PROVE  /\ Follows(p, s, [s EXCEPT !.view = v, !.uncertain = FALSE, !.work = "list"])
         /\ Follows(p, s, [s EXCEPT !.view = v, !.work = "list"])
<1> DEFINE t1 == [s EXCEPT !.view = v, !.uncertain = FALSE, !.work = "list"]
           t2 == [s EXCEPT !.view = v, !.work = "list"]
<1>1. /\ v \in View /\ v # None /\ row[s.site] = "final" /\ Seen(s.kind, v)
      /\ s.kind # "materialization" /\ s.work = "post"
  BY NoRowIsNoRow DEF Responds, Seen
<1>2. s.got = None /\ s.intent = s.site /\ s.intent # None
  BY <1>1, ResponseFacts
<1>3. ASSUME NEW t \in Pane, t.kind = s.kind, t.work = "list", t.got = s.got,
             t.first = s.first, t.intent = s.intent, t.site = s.site,
             t.rejected = s.rejected, t.notStored = s.notStored, t.view = v
      PROVE  Follows(p, s, t)
  BY <1>1, <1>2, <1>3, ReloadIsGood
<1>4. /\ t1 \in Pane /\ t1.kind = s.kind /\ t1.work = "list" /\ t1.got = s.got
      /\ t1.first = s.first /\ t1.intent = s.intent /\ t1.site = s.site
      /\ t1.rejected = s.rejected /\ t1.notStored = s.notStored /\ t1.view = v
  BY <1>1 DEF Pane
<1>5. /\ t2 \in Pane /\ t2.kind = s.kind /\ t2.work = "list" /\ t2.got = s.got
      /\ t2.first = s.first /\ t2.intent = s.intent /\ t2.site = s.site
      /\ t2.rejected = s.rejected /\ t2.notStored = s.notStored /\ t2.view = v
  BY <1>1 DEF Pane
<1> HIDE DEF t1, t2
<1>6. Follows(p, s, t1) /\ Follows(p, s, t2)
  BY <1>3, <1>4, <1>5
<1> QED
  BY <1>6 DEF t1, t2

Reports == {"report", "risk", "decision"}

LEMMA ReportAnswer ==
  ASSUME NEW p \in Slots, NEW s \in Pane, PaneInv(p, s), s.kind \in Reports,
         NEW a, NEW v, Responds(s, a, v)
  PROVE  Follows(p, s, Answered(s, a, v))
<1> DEFINE r == a \in Definite
<1>1. r \in BOOLEAN /\ (s.intent # None /\ r => Answering(s.intent))
  BY ResponseFacts DEF Definite, Reports
<1>2. s.kind \notin Replaying /\ s.kind \notin Attempts /\ s.kind # "materialization"
  BY DEF Reports, Replaying, Attempts
<1> HIDE DEF r
<1>3. CASE a = "row"
  <2>1. Answered(s, a, v) = [s EXCEPT !.view = v, !.uncertain = FALSE, !.work = "list"]
    BY <1>3 DEF Reports, Answered, ReportAnswered, RiskAnswered, DecisionAnswered
  <2>2. Responds(s, "row", v)
    BY <1>3
  <2>3. Follows(p, s, [s EXCEPT !.view = v, !.uncertain = FALSE, !.work = "list"])
    BY <1>2, <2>2, RecordReload
  <2> QED
    BY <2>1, <2>3
<1>4. CASE a # "row"
  <2>1. Answered(s, a, v) = Idle([s EXCEPT !.rejected = r])
    BY <1>4 DEF Reports, Answered, ReportAnswered, RiskAnswered, DecisionAnswered, r
  <2> QED
    BY <1>1, <1>2, <2>1, RefusalIsGood
<1> QED
  BY <1>3, <1>4

\* A panel that comes to rest as it was, only less certain.
LEMMA IdleIsGood ==
  ASSUME NEW p \in Slots, NEW s \in Pane, PaneInv(p, s)
  PROVE  /\ Follows(p, s, Idle(s))
         /\ Follows(p, s, Idle([s EXCEPT !.uncertain = TRUE]))
<1>1. ASSUME NEW u \in Pane, u.kind = s.kind, u.intent = s.intent, u.first = s.first,
             u.view = s.view, u.uncertain \in {s.uncertain, TRUE}, u.rejected = s.rejected,
             u.notStored = s.notStored
      PROVE  Follows(p, s, Idle(u))
  <2>1. Honest(u)
    BY <1>1 DEF PaneInv, IntentInv, Honest
  <2> QED
    BY <1>1, <2>1, RestIsGood DEF Lets, Showing
<1> DEFINE u == [s EXCEPT !.uncertain = TRUE]
<1>2. /\ u \in Pane /\ u.kind = s.kind /\ u.intent = s.intent /\ u.first = s.first
      /\ u.view = s.view /\ u.uncertain = TRUE /\ u.rejected = s.rejected
      /\ u.notStored = s.notStored
  BY DEF Pane
<1> HIDE DEF u
<1>3. Follows(p, s, Idle(u))
  BY <1>1, <1>2
<1>4. Follows(p, s, Idle(s))
  BY <1>1
<1> QED
  BY <1>3, <1>4 DEF u

\* A panel that comes to rest without its intent, which was settled, or with another row.
LEMMA ForgetIsGood ==
  ASSUME NEW p \in Slots, NEW s \in Pane, PaneInv(p, s), NEW u \in Pane,
         u.kind = s.kind, u.first = s.first, u.intent = None,
         u.rejected = s.rejected, u.notStored = s.notStored,
         Showing(s, u), Lets(s, u)
  PROVE  Follows(p, s, Idle(u))
<1>1. Honest(u)
  BY DEF PaneInv, Honest
<1> QED
  BY <1>1, RestIsGood

LEMMA ShowIsGood ==
  ASSUME NEW p \in Slots, NEW s \in Pane, PaneInv(p, s), NEW v \in View, Seen(s.kind, v)
  PROVE  Follows(p, s, Idle([s EXCEPT !.view = v]))
<1> DEFINE u == [s EXCEPT !.view = v]
<1>1. /\ u \in Pane /\ u.kind = s.kind /\ u.intent = s.intent /\ u.first = s.first
      /\ u.view = v /\ u.uncertain = s.uncertain /\ u.rejected = s.rejected
      /\ u.notStored = s.notStored /\ v # None
  BY NoRowIsNoRow DEF Pane
<1> HIDE DEF u
<1>2. Honest(u)
  BY <1>1 DEF PaneInv, IntentInv, Honest
<1>3. Follows(p, s, Idle(u))
  BY <1>1, <1>2, RestIsGood DEF Lets, Showing
<1> QED
  BY <1>3 DEF u

\* What the panels that forget an intent at the end of it come to.
LEMMA EndIsGood ==
  ASSUME NEW p \in Slots, NEW s \in Pane, PaneInv(p, s)
  PROVE  /\ \A v \in View :
              Seen(s.kind, v) /\ (s.intent # None => row[s.intent] = "final") =>
                Follows(p, s, Idle([s EXCEPT !.view = v, !.intent = None, !.uncertain = FALSE]))
         /\ (s.intent # None => NeverStored(s.intent)) =>
              Follows(p, s, Idle([s EXCEPT !.intent = None, !.uncertain = FALSE]))
<1>1. ASSUME NEW v \in View, Seen(s.kind, v), s.intent # None => row[s.intent] = "final"
      PROVE  Follows(p, s, Idle([s EXCEPT !.view = v, !.intent = None, !.uncertain = FALSE]))
  <2> DEFINE u == [s EXCEPT !.view = v, !.intent = None, !.uncertain = FALSE]
  <2>1. /\ u \in Pane /\ u.kind = s.kind /\ u.intent = None /\ u.first = s.first
        /\ u.view = v /\ u.rejected = s.rejected /\ u.notStored = s.notStored /\ v # None
    BY NoRowIsNoRow DEF Pane
  <2> HIDE DEF u
  <2>2. Follows(p, s, Idle(u))
    BY <1>1, <2>1, ForgetIsGood DEF Lets, Showing
  <2> QED
    BY <2>2 DEF u
<1>2. ASSUME s.intent # None => NeverStored(s.intent)
      PROVE  Follows(p, s, Idle([s EXCEPT !.intent = None, !.uncertain = FALSE]))
  <2> DEFINE u == [s EXCEPT !.intent = None, !.uncertain = FALSE]
  <2>1. /\ u \in Pane /\ u.kind = s.kind /\ u.intent = None /\ u.first = s.first
        /\ u.view = s.view /\ u.rejected = s.rejected /\ u.notStored = s.notStored
    BY DEF Pane
  <2> HIDE DEF u
  <2>2. Follows(p, s, Idle(u))
    BY <1>2, <2>1, ForgetIsGood DEF Lets, Showing
  <2> QED
    BY <2>2 DEF u
<1> QED
  BY <1>1, <1>2

\* The panels of model patches and of native candidates, which end with a final row or a
\* definite refusal.
LEMMA NativeAnswer ==
  ASSUME NEW p \in Slots, NEW s \in Pane, PaneInv(p, s), s.kind \in {"native", "modelpatch"},
         NEW a, NEW v, Responds(s, a, v)
  PROVE  Follows(p, s, Answered(s, a, v))
<1>1. s.intent = s.site /\ s.intent # None /\ v \in View
  BY ResponseFacts DEF Responds
<1>2. CASE a = "row"
  <2>1. Seen(s.kind, v) /\ (v.final => row[s.intent] = "final") /\ (s.kind = "native" => v.final)
    BY <1>1, <1>2 DEF Responds, Seen, Attempts
  <2>2. \/ /\ v.final
           /\ Answered(s, a, v) = Idle([s EXCEPT !.view = v, !.intent = None, !.uncertain = FALSE])
        \/ Answered(s, a, v) = Idle([s EXCEPT !.view = v])
    BY <1>2, <2>1 DEF Answered, NativeAnswered, NativeAccepts, ModelPatchAnswered, ModelPatchAccepts
  <2> QED
    BY <1>1, <2>1, <2>2, EndIsGood, ShowIsGood
<1>3. CASE a = "refused"
  <2>1. NeverStored(s.intent)
    BY <1>1, <1>3, ResponseFacts
  <2>2. \/ Answered(s, a, v) = Idle([s EXCEPT !.intent = None, !.uncertain = FALSE])
        \/ Answered(s, a, v) = Idle(s)
    BY <1>3 DEF Answered, NativeAnswered, ModelPatchAnswered, Definite
  <2> QED
    BY <2>1, <2>2, EndIsGood, IdleIsGood
<1>4. CASE a \notin {"row", "refused"}
  <2>1. Answered(s, a, v) = Idle(s)
    BY <1>4 DEF Answered, NativeAnswered, ModelPatchAnswered, Definite
  <2> QED
    BY <2>1, IdleIsGood
<1> QED
  BY <1>2, <1>3, <1>4

LEMMA PatchAnswer ==
  ASSUME NEW p \in Slots, NEW s \in Pane, PaneInv(p, s), s.kind = "patch",
         NEW a, NEW v, Responds(s, a, v)
  PROVE  Follows(p, s, Answered(s, a, v))
<1>1. CASE a = "row"
  BY <1>1, RecordReload DEF Answered, PatchAnswered, Attempts
<1>2. CASE a # "row"
  BY <1>2, IdleIsGood DEF Answered, PatchAnswered
<1> QED
  BY <1>1, <1>2

LEMMA ConfigModelAnswer ==
  ASSUME NEW p \in Slots, NEW s \in Pane, PaneInv(p, s), s.kind = "configmodel",
         NEW a, NEW v, Responds(s, a, v)
  PROVE  Follows(p, s, Answered(s, a, v))
<1>1. CASE a = "row"
  BY <1>1, ShowIsGood DEF Answered, ConfigModelAnswered, Responds
<1>2. CASE a # "row"
  BY <1>2, IdleIsGood DEF Answered, ConfigModelAnswered
<1> QED
  BY <1>1, <1>2
\* The materialization of a candidate: any stored record of it is accepted.
LEMMA MaterializationShown ==
  ASSUME NEW p \in Slots, NEW s \in Pane, PaneInv(p, s), s.kind = "materialization",
         NEW v \in View, Seen(s.kind, v), Stored # {}
  PROVE  Follows(p, s, MaterializationExpects(s, v))
<1> DEFINE u == MaterializationAccepts(s, v)
<1>1. /\ u \in Pane /\ u.kind = s.kind /\ u.intent = None /\ u.first = s.first
      /\ u.view = v /\ u.rejected = s.rejected /\ u.notStored = s.notStored /\ v # None
  BY NoRowIsNoRow DEF Pane, MaterializationAccepts
<1> HIDE DEF u
<1>2. Follows(p, s, Idle(u))
  BY <1>1, ForgetIsGood DEF Lets, Showing
<1> QED
  BY <1>2, IdleIsGood DEF u, MaterializationExpects

LEMMA StoredIsNotEmpty ==
  ASSUME NEW i \in Ids \cup {0}, row[i] # "none"
  PROVE  Stored # {}
BY DEF Stored

LEMMA MaterializationAnswer ==
  ASSUME NEW p \in Slots, NEW s \in Pane, PaneInv(p, s), s.kind = "materialization",
         NEW a, NEW v, Responds(s, a, v)
  PROVE  Follows(p, s, Answered(s, a, v))
<1>1. v \in View /\ v.id \in Ids \cup {0}
  BY DEF Responds, View
<1>2. CASE a = "row"
  <2>1. Seen(s.kind, v) /\ row[v.id] # "none"
    BY <1>2 DEF Responds, Seen
  <2>2. Answered(s, a, v) = MaterializationExpects(s, v)
    BY <1>2 DEF Answered, MaterializationAnswered
  <2> QED
    BY <1>1, <2>1, <2>2, StoredIsNotEmpty, MaterializationShown
<1>3. CASE a = "refused"
  <2>1. s.intent # None => NeverStored(s.intent)
    BY <1>3, ResponseFacts DEF PaneInv, SiteInv, Responds
  <2>2. \/ Answered(s, a, v) = Idle([s EXCEPT !.intent = None, !.uncertain = FALSE])
        \/ Answered(s, a, v) = Idle(s)
    BY <1>3 DEF Answered, MaterializationAnswered, Definite
  <2> QED
    BY <2>1, <2>2, EndIsGood, IdleIsGood
<1>4. CASE a \notin {"row", "refused"}
  <2>1. Answered(s, a, v) = Idle(s)
    BY <1>4 DEF Answered, MaterializationAnswered, Definite
  <2> QED
    BY <2>1, IdleIsGood
<1> QED
  BY <1>2, <1>3, <1>4

\* Every answer to a request leaves its panel in a good state.
LEMMA AnswerIsGood ==
  ASSUME NEW p \in Slots, NEW s \in Pane, PaneInv(p, s), s.kind # None,
         NEW a, NEW v, Responds(s, a, v)
  PROVE  Follows(p, s, Answered(s, a, v))
<1>1. \/ s.kind \in Rechecks \cup Reports \cup {"native", "modelpatch"}
      \/ s.kind \in {"patch", "configmodel", "materialization"}
  BY DEF Pane, Alone, Rechecks, Reports
<1> QED
  BY <1>1, RecheckAnswered, ReportAnswer, NativeAnswer, PatchAnswer, ConfigModelAnswer,
     MaterializationAnswer

-----------------------------------------------------------------------------
(* Reading an attempt.                                                      *)

\* What is delivered of a read: the row that the server had when it was asked, that there
\* was none, or nothing.
Reads(s, a, v) ==
  /\ s.work = "read" /\ s.kind # "patch"
  /\ \/ a = "lost"
     \/ a = "row" /\ v = s.got /\ v \in View
     \/ a = "missing" /\ s.got = NoRow

LEMMA RowRead ==
  ASSUME NEW p \in Slots, NEW s \in Pane, PaneInv(p, s), NEW v, Reads(s, "row", v)
  PROVE  /\ v \in View /\ v # None /\ Seen(s.kind, v) /\ Stored # {}
         /\ s.kind # "materialization" => s.intent # None /\ v.id = s.intent
<1>1. v = s.got /\ v \in View /\ v # None /\ v # NoRow
  BY NoRowIsNoRow DEF Reads
<1>2. Seen(s.kind, v) /\ row[v.id] # "none"
  BY <1>1 DEF PaneInv, Seen
<1>3. v.id \in Ids \cup {0}
  BY <1>1 DEF View
<1>4. s.kind # "materialization" => s.intent # None /\ v.id = s.intent
  BY <1>1 DEF PaneInv, SiteInv, Reads
<1> QED
  BY <1>1, <1>2, <1>3, <1>4, StoredIsNotEmpty

\* A row that clears what was unknown, of an attempt or of a record.
LEMMA RowIsGood ==
  ASSUME NEW p \in Slots, NEW s \in Pane, PaneInv(p, s), s.kind # "materialization",
         NEW v, Reads(s, "row", v)
  PROVE  /\ Follows(p, s, Idle(Accept(s, v)))
         /\ Follows(p, s, Idle([Accept(s, v) EXCEPT !.notStored = FALSE]))
         /\ s.kind \notin Attempts =>
              Follows(p, s, Idle([s EXCEPT !.view = v, !.uncertain = FALSE, !.notStored = FALSE]))
<1>1. /\ v \in View /\ v # None /\ Seen(s.kind, v) /\ s.intent # None /\ v.id = s.intent
      /\ (v.final => row[s.intent] = "final")
      /\ s.kind \notin Attempts => v.final
  BY RowRead DEF Seen
<1>2. ASSUME NEW u \in Pane, u.kind = s.kind, u.first = s.first, u.intent = s.intent,
             u.view = v, u.rejected = s.rejected, ~u.uncertain => v.final,
             u.notStored => s.notStored
      PROVE  Follows(p, s, Idle(u))
  <2>1. Honest(u)
    BY <1>1, <1>2 DEF PaneInv, IntentInv, Honest
  <2> QED
    BY <1>1, <1>2, <2>1, RestIsGood DEF Lets, Showing
<1>3. Follows(p, s, Idle(Accept(s, v)))
  BY <1>1, <1>2, Accepted
<1>4. Follows(p, s, Idle([Accept(s, v) EXCEPT !.notStored = FALSE]))
  <2> DEFINE w == Accept(s, v)
             u == [w EXCEPT !.notStored = FALSE]
  <2>1. /\ w \in Pane /\ w.kind = s.kind /\ w.first = s.first /\ w.intent = s.intent
        /\ w.view = v /\ w.rejected = s.rejected /\ (~w.uncertain => v.final)
    BY <1>1, Accepted
  <2> HIDE DEF w
  <2>2. /\ u \in Pane /\ u.kind = w.kind /\ u.first = w.first /\ u.intent = w.intent
        /\ u.view = w.view /\ u.rejected = w.rejected /\ u.uncertain = w.uncertain
        /\ u.notStored = FALSE
    BY <2>1 DEF Pane
  <2> HIDE DEF u
  <2>3. Follows(p, s, Idle(u))
    BY <1>2, <2>1, <2>2
  <2> QED
    BY <2>3 DEF u, w
<1>5. ASSUME s.kind \notin Attempts
      PROVE  Follows(p, s, Idle([s EXCEPT !.view = v, !.uncertain = FALSE, !.notStored = FALSE]))
  <2> DEFINE u == [s EXCEPT !.view = v, !.uncertain = FALSE, !.notStored = FALSE]
  <2>1. /\ u \in Pane /\ u.kind = s.kind /\ u.first = s.first /\ u.intent = s.intent
        /\ u.view = v /\ u.rejected = s.rejected /\ ~u.notStored
    BY <1>1 DEF Pane
  <2> HIDE DEF u
  <2>2. Follows(p, s, Idle(u))
    BY <1>1, <1>2, <1>5, <2>1
  <2> QED
    BY <2>2 DEF u
<1> QED
  BY <1>3, <1>4, <1>5

\* A missing row after a refusal.
LEMMA MissingIsGood ==
  ASSUME NEW p \in Slots, NEW s \in Pane, PaneInv(p, s), s.kind \notin Replaying,
         s.got = NoRow
  PROVE  Follows(p, s, Idle(Missing(s)))
<1>1. CASE ~s.rejected
  BY <1>1, IdleIsGood DEF Missing
<1>2. CASE s.rejected
  <2> DEFINE u == [s EXCEPT !.notStored = TRUE]
  <2>1. /\ u \in Pane /\ u.kind = s.kind /\ u.first = s.first /\ u.intent = s.intent
        /\ u.view = s.view /\ u.rejected = s.rejected /\ u.uncertain = s.uncertain
    BY DEF Pane
  <2> HIDE DEF u
  <2>2. Honest(u)
    BY <1>2, <2>1 DEF PaneInv, IntentInv, Honest
  <2>3. Follows(p, s, Idle(u))
    BY <2>1, <2>2, RestIsGood DEF Lets, Showing
  <2> QED
    BY <1>2, <2>3 DEF u, Missing
<1> QED
  BY <1>1, <1>2

LEMMA ReadIsGood ==
  ASSUME NEW p \in Slots, NEW s \in Pane, PaneInv(p, s), s.kind # None,
         NEW a, NEW v, Reads(s, a, v)
  PROVE  Follows(p, s, Read(s, a, v))
<1>1. CASE s.kind \in Rechecks \cup Reports
  <2> USE DEF Rechecks, Reports
  <2>1. s.kind \notin Replaying /\ s.kind # "materialization"
        /\ (s.kind \in Reports => s.kind \notin Attempts)
    BY <1>1 DEF Replaying, Attempts
  <2>2. CASE a = "row"
    <3>1. \/ Read(s, a, v) = Idle(Accept(s, v))
          \/ Read(s, a, v) = Idle([Accept(s, v) EXCEPT !.notStored = FALSE])
          \/ /\ s.kind \in Reports
             /\ Read(s, a, v) = Idle([s EXCEPT !.view = v, !.uncertain = FALSE, !.notStored = FALSE])
      BY <1>1, <2>2 DEF Read, ForestRead, DeterministicRead, MlRead, VerificationRead,
         ReportRead, RiskRead, DecisionRead
    <3> QED
      BY <2>1, <2>2, <3>1, RowIsGood
  <2>3. CASE a = "missing"
    <3>1. Read(s, a, v) = Idle(Missing(s))
      BY <1>1, <2>3 DEF Read, ForestRead, DeterministicRead, MlRead, VerificationRead,
         ReportRead, RiskRead, DecisionRead
    <3>2. s.got = NoRow
      BY <2>3 DEF Reads
    <3> QED
      BY <2>1, <3>1, <3>2, MissingIsGood
  <2>4. CASE a = "lost"
    <3>1. Read(s, a, v) = Idle(s)
      BY <1>1, <2>4 DEF Read, ForestRead, DeterministicRead, MlRead, VerificationRead,
         ReportRead, RiskRead, DecisionRead
    <3> QED
      BY <3>1, IdleIsGood
  <2> QED
    BY <2>2, <2>3, <2>4 DEF Reads
<1>2. CASE s.kind \in {"native", "modelpatch", "configmodel"}
  <2>1. CASE a = "row"
    <3>1. /\ v \in View /\ Seen(s.kind, v) /\ (v.final => row[s.intent] = "final")
          /\ (s.kind = "native" => v.final)
      BY <1>2, <2>1, RowRead DEF Seen, Attempts
    <3>2. \/ /\ v.final
             /\ Read(s, a, v) = Idle([s EXCEPT !.view = v, !.intent = None, !.uncertain = FALSE])
          \/ Read(s, a, v) = Idle([s EXCEPT !.view = v])
      BY <1>2, <2>1, <3>1 DEF Read, NativeRead, NativeAccepts, ModelPatchRead,
         ModelPatchAccepts, ConfigModelRead
    <3> QED
      BY <3>1, <3>2, EndIsGood, ShowIsGood
  <2>2. CASE a # "row"
    <3>1. Read(s, a, v) = Idle(s)
      BY <1>2, <2>2 DEF Read, NativeRead, ModelPatchRead, ConfigModelRead
    <3> QED
      BY <3>1, IdleIsGood
  <2> QED
    BY <2>1, <2>2
<1>3. CASE s.kind = "materialization"
  <2>1. CASE a = "row"
    <3>1. Read(s, a, v) = MaterializationExpects(s, v)
      BY <1>3, <2>1 DEF Read, MaterializationRead
    <3> QED
      BY <1>3, <2>1, <3>1, RowRead, MaterializationShown
  <2>2. CASE a = "missing"
    <3> DEFINE u == [s EXCEPT !.ready = TRUE]
    <3>1. /\ u \in Pane /\ u.kind = s.kind /\ u.first = s.first /\ u.intent = s.intent
          /\ u.view = s.view /\ u.rejected = s.rejected /\ u.uncertain = s.uncertain
          /\ u.notStored = s.notStored
      BY DEF Pane
    <3> HIDE DEF u
    <3>2. Honest(u)
      BY <3>1 DEF PaneInv, IntentInv, Honest
    <3>3. Follows(p, s, Idle(u))
      BY <3>1, <3>2, RestIsGood DEF Lets, Showing
    <3>4. Read(s, a, v) = Idle(u)
      BY <1>3, <2>2 DEF Read, MaterializationRead, u
    <3> QED
      BY <3>3, <3>4
  <2>3. CASE a = "lost"
    <3>1. Read(s, a, v) = Idle(s)
      BY <1>3, <2>3 DEF Read, MaterializationRead
    <3> QED
      BY <3>1, IdleIsGood
  <2> QED
    BY <2>1, <2>2, <2>3 DEF Reads
<1>4. s.kind \in Rechecks \cup Reports \cup {"native", "modelpatch", "configmodel", "materialization"}
  BY DEF Pane, Alone, Rechecks, Reports, Reads
<1> QED
  BY <1>1, <1>2, <1>3, <1>4
-----------------------------------------------------------------------------
(* Reloading the history, and what the engineer does at a panel at rest.    *)

LEMMA ReloadedIsGood ==
  ASSUME NEW p \in Slots, NEW s \in Pane, PaneInv(p, s), s.work = "list", NEW a \in Answers
  PROVE  Follows(p, s, Listed(s, a))
<1> DEFINE r == a \in Definite \cup {"unavailable"}
           n == a # "row"
<1>1. r \in BOOLEAN /\ n \in BOOLEAN
  OBVIOUS
<1>2. s.intent # None => Answering(s.intent)
  BY DEF PaneInv, IntentInv, Answering
<1>3. \/ s.kind \notin Replaying /\ Listed(s, a) = Idle([s EXCEPT !.uncertain = TRUE, !.rejected = r])
      \/ s.kind = "patch" /\ Listed(s, a) = Idle([s EXCEPT !.uncertain = n])
      \/ Listed(s, a) = Idle(s)
  BY DEF Listed, MlFailed, VerificationFailed, PatchListed, Replaying
<1> HIDE DEF r, n
<1>4. ASSUME s.kind = "patch"
      PROVE  Follows(p, s, Idle([s EXCEPT !.uncertain = n]))
  <2> DEFINE u == [s EXCEPT !.uncertain = n]
  <2>1. /\ u \in Pane /\ u.kind = s.kind /\ u.first = s.first /\ u.intent = s.intent
        /\ u.view = s.view /\ u.rejected = s.rejected /\ u.notStored = s.notStored
    BY <1>1 DEF Pane
  <2> HIDE DEF u
  <2>2. Honest(u)
    BY <1>4, <2>1 DEF PaneInv, IntentInv, Honest, Replaying
  <2>3. Follows(p, s, Idle(u))
    BY <2>1, <2>2, RestIsGood DEF Lets, Showing
  <2> QED
    BY <2>3 DEF u
<1> QED
  BY <1>1, <1>2, <1>3, <1>4, RefusalIsGood, IdleIsGood

\* A panel at rest that keeps its attempt, and shows a stored row or what it showed.
LEMMA KeepIsGood ==
  ASSUME NEW p \in Slots, NEW s \in Pane, PaneInv(p, s), s.work = "idle", NEW t \in Pane,
         t.kind = s.kind, t.work = s.work, t.got = s.got, t.first = s.first,
         t.intent = s.intent, t.rejected = s.rejected, t.notStored => s.notStored,
         \/ t.uncertain = s.uncertain \/ s.kind = "patch"
         \/ s.intent # None => row[s.intent] = "final",
         t.view = s.view \/ (t.view # None /\ Seen(s.kind, t.view))
  PROVE  Follows(p, s, t)
<1>1. Honest(t)
  BY DEF PaneInv, IntentInv, Honest
<1>2. t.got = None
  BY DEF PaneInv
<1> QED
  BY <1>1, <1>2, StandIsGood DEF Lets, Showing

LEMMA OpenedIsGood ==
  ASSUME NEW p \in Slots, NEW s \in Pane, PaneInv(p, s), s.work = "idle", s.kind # None,
         NEW v \in View, Seen(s.kind, v)
  PROVE  Follows(p, s, Opened(s, v))
<1>1. v # None
  BY NoRowIsNoRow
<1>2. Follows(p, s, [s EXCEPT !.view = v])
  <2> DEFINE t == [s EXCEPT !.view = v]
  <2>1. /\ t \in Pane /\ t.kind = s.kind /\ t.work = s.work /\ t.got = s.got
        /\ t.first = s.first /\ t.intent = s.intent /\ t.rejected = s.rejected
        /\ t.notStored = s.notStored /\ t.uncertain = s.uncertain /\ t.view = v
    BY DEF Pane
  <2> HIDE DEF t
  <2>2. Follows(p, s, t)
    BY <1>1, <2>1, KeepIsGood
  <2> QED
    BY <2>2 DEF t
<1>3. Follows(p, s, [s EXCEPT !.view = v, !.consent = FALSE])
  <2> DEFINE t == [s EXCEPT !.view = v, !.consent = FALSE]
  <2>1. /\ t \in Pane /\ t.kind = s.kind /\ t.work = s.work /\ t.got = s.got
        /\ t.first = s.first /\ t.intent = s.intent /\ t.rejected = s.rejected
        /\ t.notStored = s.notStored /\ t.uncertain = s.uncertain /\ t.view = v
    BY DEF Pane
  <2> HIDE DEF t
  <2>2. Follows(p, s, t)
    BY <1>1, <2>1, KeepIsGood
  <2> QED
    BY <2>2 DEF t
<1>4. ASSUME s.kind \in Reports, v.id = s.intent
      PROVE  Follows(p, s, [s EXCEPT !.view = v, !.uncertain = FALSE, !.notStored = FALSE])
  <2> DEFINE t == [s EXCEPT !.view = v, !.uncertain = FALSE, !.notStored = FALSE]
  <2>1. /\ t \in Pane /\ t.kind = s.kind /\ t.work = s.work /\ t.got = s.got
        /\ t.first = s.first /\ t.intent = s.intent /\ t.rejected = s.rejected
        /\ ~t.notStored /\ t.view = v
    BY DEF Pane
  <2>2. row[s.intent] = "final"
    BY <1>4 DEF Seen, Reports, Attempts
  <2> HIDE DEF t
  <2>3. Follows(p, s, t)
    BY <1>1, <2>1, <2>2, KeepIsGood
  <2> QED
    BY <2>3 DEF t
<1>5. ASSUME s.kind = "patch"
      PROVE  Follows(p, s, [s EXCEPT !.view = v, !.uncertain = FALSE])
  <2> DEFINE t == [s EXCEPT !.view = v, !.uncertain = FALSE]
  <2>1. /\ t \in Pane /\ t.kind = s.kind /\ t.work = s.work /\ t.got = s.got
        /\ t.first = s.first /\ t.intent = s.intent /\ t.rejected = s.rejected
        /\ t.notStored = s.notStored /\ t.view = v
    BY DEF Pane
  <2> HIDE DEF t
  <2>2. Follows(p, s, t)
    BY <1>1, <1>5, <2>1, KeepIsGood
  <2> QED
    BY <2>2 DEF t
<1>6. Follows(p, s, s)
  BY DEF Follows
<1>7. \/ Opened(s, v) \in {s, [s EXCEPT !.view = v], [s EXCEPT !.view = v, !.consent = FALSE]}
      \/ /\ s.kind \in Reports /\ v.id = s.intent
         /\ Opened(s, v) = [s EXCEPT !.view = v, !.uncertain = FALSE, !.notStored = FALSE]
      \/ s.kind = "patch" /\ Opened(s, v) = [s EXCEPT !.view = v, !.uncertain = FALSE]
  BY DEF Opened, ReportOpened, RiskOpened, DecisionOpened, OpenRecord, PatchOpened,
     OpenRecheck, Reports
<1> QED
  BY <1>2, <1>3, <1>4, <1>5, <1>6, <1>7

LEMMA ResetIsGood ==
  ASSUME NEW p \in Slots, NEW s \in Pane, PaneInv(p, s), s.work = "idle", Resets(s)
  PROVE  Follows(p, s, Reset(s))
<1>1. /\ s.kind \in Rechecks \cup Reports /\ s.intent # None
      /\ \/ s.rejected /\ s.notStored
         \/ ~s.uncertain
  BY DEF Resets, ForestResets, DeterministicResets, MlResets, VerificationResets,
     ReportResets, RiskResets, DecisionResets, RecheckResets, RecordResets, Rechecks, Reports
<1>2. s.kind \notin Replaying /\ s.kind # "materialization" /\ s.kind # "patch"
  BY <1>1 DEF Rechecks, Reports, Replaying
<1>3. NeverStored(s.intent) \/ row[s.intent] = "final"
  BY <1>1, <1>2 DEF PaneInv, IntentInv
<1>4. ASSUME NEW t \in Pane, t.kind = s.kind, t.work = s.work, t.got = s.got,
             t.first = s.first, t.intent = None, t.view = None
      PROVE  Follows(p, s, t)
  <2>1. Honest(t) /\ Lets(s, t) /\ Showing(s, t)
    BY <1>2, <1>3, <1>4 DEF Honest, Lets, Showing
  <2>2. t.got = None
    BY <1>4 DEF PaneInv
  <2> QED
    BY <1>4, <2>1, <2>2, StandIsGood
<1>5. /\ Forget(s) \in Pane /\ Forget(s).kind = s.kind /\ Forget(s).work = s.work
      /\ Forget(s).got = s.got /\ Forget(s).first = s.first
      /\ Forget(s).intent = None /\ Forget(s).view = None
  BY DEF Pane, Forget
<1>6. /\ VerificationNew(s) \in Pane /\ VerificationNew(s).kind = s.kind
      /\ VerificationNew(s).work = s.work /\ VerificationNew(s).got = s.got
      /\ VerificationNew(s).first = s.first
      /\ VerificationNew(s).intent = None /\ VerificationNew(s).view = None
  BY DEF Pane, VerificationNew
<1>7. Reset(s) \in {Forget(s), VerificationNew(s)}
  BY DEF Reset, VerificationForgets
<1> QED
  BY <1>4, <1>5, <1>6, <1>7

LEMMA ConsentIsGood ==
  ASSUME NEW p \in Slots, NEW s \in Pane, PaneInv(p, s), s.work = "idle"
  PROVE  Follows(p, s, [s EXCEPT !.consent = TRUE])
<1> DEFINE t == [s EXCEPT !.consent = TRUE]
<1>1. /\ t \in Pane /\ t.kind = s.kind /\ t.work = s.work /\ t.got = s.got
      /\ t.first = s.first /\ t.intent = s.intent /\ t.rejected = s.rejected
      /\ t.notStored = s.notStored /\ t.uncertain = s.uncertain /\ t.view = s.view
  BY DEF Pane
<1> HIDE DEF t
<1>2. Honest(t) /\ t.got = None
  BY <1>1 DEF PaneInv, IntentInv, Honest
<1>3. Follows(p, s, t)
  BY <1>1, <1>2, StandIsGood DEF Lets, Showing
<1> QED
  BY <1>3 DEF t
-----------------------------------------------------------------------------
(* Reads and requests that begin.                                           *)

LEMMA ReconcileIsGood ==
  ASSUME NEW p \in Slots, NEW s \in Pane, PaneInv(p, s), s.work = "idle",
         s.kind # "patch", s.intent # None \/ s.kind = "materialization"
  PROVE  Follows(p, s, [s EXCEPT !.work = "read", !.site = s.intent])
<1> DEFINE t == [s EXCEPT !.work = "read", !.site = s.intent]
<1>1. /\ t \in Pane /\ t.kind = s.kind /\ t.work = "read" /\ t.site = s.intent
      /\ t.got = s.got /\ t.first = s.first /\ t.intent = s.intent
      /\ t.rejected = s.rejected /\ t.notStored = s.notStored
      /\ t.uncertain = s.uncertain /\ t.view = s.view
  BY DEF Pane
<1> HIDE DEF t
<1>2. SiteInv(p, t)
  BY <1>1 DEF PaneInv, SiteInv
<1>3. IntentInv(p, t)
  BY <1>1 DEF PaneInv, IntentInv
<1>4. PaneInv(p, t)
  BY <1>1, <1>2, <1>3 DEF PaneInv
<1> QED
  BY <1>1, <1>4 DEF Follows, t

\* What the server finds of the attempt that is read.
LEMMA FetchIsGood ==
  ASSUME NEW p \in Slots, NEW s \in Pane, PaneInv(p, s), s.work = "read", s.got = None,
         NEW v, \/ v \in View /\ Seen(s.kind, v)
                   /\ (s.kind # "materialization" => v.id = s.site)
                \/ v = NoRow /\ (s.kind # "materialization" => row[s.site] = "none")
  PROVE  Follows(p, s, [s EXCEPT !.got = v])
<1> DEFINE t == [s EXCEPT !.got = v]
<1>1. /\ t \in Pane /\ t.kind = s.kind /\ t.work = s.work /\ t.site = s.site
      /\ t.got = v /\ t.first = s.first /\ t.intent = s.intent
      /\ t.rejected = s.rejected /\ t.notStored = s.notStored
      /\ t.uncertain = s.uncertain /\ t.view = s.view
  BY DEF Pane
<1> HIDE DEF t
<1>2. SiteInv(p, t)
  BY <1>1, NoRowIsNoRow DEF PaneInv, SiteInv
<1>3. s.intent # None /\ s.rejected /\ v = NoRow => NeverStored(s.intent)
  BY NoRowIsNoRow DEF PaneInv, SiteInv, IntentInv, Answering, NeverStored, Replaying
<1>4. IntentInv(p, t)
  BY <1>1, <1>3 DEF PaneInv, IntentInv
<1>5. t.got \notin {None, NoRow} => Seen(t.kind, t.got)
  BY <1>1
<1>6. PaneInv(p, t)
  BY <1>1, <1>2, <1>4, <1>5 DEF PaneInv
<1> QED
  BY <1>1, <1>6 DEF Follows, t

\* The read that the panel of a materialization starts by itself.
LEMMA FirstIsGood ==
  ASSUME NEW p \in Slots, NEW s \in Pane, PaneInv(p, s), s.first # None
  PROVE  /\ s.kind = "materialization"
         /\ \A a \in {"lost", "missing", "row"} :
              (a = "row" => Stored # {}) => Follows(p, s, [s EXCEPT !.first = a])
         /\ \A v \in View :
              /\ s.first \in {"lost", "missing", "row"}
              /\ s.first = "row" => Seen(s.kind, v) /\ Stored # {}
              => Follows(p, s, MaterializationFirst(s, v))
<1>1. s.kind = "materialization"
  BY DEF PaneInv, SiteInv
<1>2. ASSUME NEW t \in Pane, t.kind = s.kind, t.work = s.work, t.site = s.site,
             t.got = s.got, t.intent = s.intent, t.view = s.view,
             t.rejected = s.rejected, t.notStored = s.notStored,
             t.uncertain = s.uncertain, t.first = "row" => Stored # {}
      PROVE  Follows(p, s, t)
  <2>1. SiteInv(p, t)
    BY <1>1, <1>2 DEF PaneInv, SiteInv
  <2>2. IntentInv(p, t)
    BY <1>2 DEF PaneInv, IntentInv
  <2>3. PaneInv(p, t)
    BY <1>1, <1>2, <2>1, <2>2 DEF PaneInv
  <2> QED
    BY <1>2, <2>3 DEF Follows
<1>3. ASSUME NEW a \in {"lost", "missing", "row"}, a = "row" => Stored # {}
      PROVE  Follows(p, s, [s EXCEPT !.first = a])
  <2> DEFINE t == [s EXCEPT !.first = a]
  <2>1. /\ t \in Pane /\ t.kind = s.kind /\ t.work = s.work /\ t.site = s.site
        /\ t.got = s.got /\ t.intent = s.intent /\ t.view = s.view
        /\ t.rejected = s.rejected /\ t.notStored = s.notStored
        /\ t.uncertain = s.uncertain /\ t.first = a
    BY DEF Pane
  <2> HIDE DEF t
  <2>2. Follows(p, s, t)
    BY <1>2, <1>3, <2>1
  <2> QED
    BY <2>2 DEF t
<1>4. ASSUME s.first \in {"lost", "missing"}, NEW v
      PROVE  Follows(p, s, MaterializationFirst(s, v))
  <2> DEFINE t == MaterializationFirst(s, v)
  <2>1. /\ t \in Pane /\ t.kind = s.kind /\ t.work = s.work /\ t.site = s.site
        /\ t.got = s.got /\ t.intent = s.intent /\ t.view = s.view
        /\ t.rejected = s.rejected /\ t.notStored = s.notStored
        /\ t.uncertain = s.uncertain /\ t.first = "done"
    BY <1>4 DEF Pane, MaterializationFirst
  <2> HIDE DEF t
  <2>2. Follows(p, s, t)
    BY <1>2, <2>1
  <2> QED
    BY <2>2 DEF t
<1>5. ASSUME s.first = "row", NEW v \in View, Seen(s.kind, v), Stored # {}
      PROVE  Follows(p, s, MaterializationFirst(s, v))
  <2> DEFINE t == MaterializationFirst(s, v)
  <2>1. /\ t \in Pane /\ t.kind = s.kind /\ t.work = s.work /\ t.site = s.site
        /\ t.got = s.got /\ t.intent = None /\ t.view = v
        /\ t.rejected = s.rejected /\ t.notStored = s.notStored /\ t.first = "done"
    BY <1>5 DEF Pane, MaterializationFirst, MaterializationAccepts
  <2>2. v # None
    BY NoRowIsNoRow
  <2> HIDE DEF t
  <2>3. SiteInv(p, t)
    BY <1>1, <2>1, <2>2 DEF PaneInv, SiteInv
  <2>4. IntentInv(p, t)
    BY <2>1 DEF IntentInv
  <2>5. PaneInv(p, t)
    BY <1>1, <1>5, <2>1, <2>2, <2>3, <2>4 DEF PaneInv
  <2> QED
    BY <1>1, <1>5, <2>1, <2>5 DEF Follows, Settles, t
<1> QED
  BY <1>1, <1>3, <1>4, <1>5

\* A panel that is mounted anew, of which nothing is under way.
LEMMA FreshFields ==
  ASSUME NEW k \in Alone \cup {"report", "risk", "decision", None}
  PROVE  /\ Fresh(k) \in Pane /\ Fresh(k).kind = k /\ Fresh(k).work = "idle"
         /\ Fresh(k).got = None /\ Fresh(k).intent = None /\ Fresh(k).view = None
         /\ ~Fresh(k).rejected /\ ~Fresh(k).notStored /\ Fresh(k).first # "row"
         /\ k # "materialization" => Fresh(k).first = None
BY PanelConstants DEF Pane, Fresh

LEMMA FreshIsGood ==
  ASSUME NEW p \in Slots, NEW k \in Alone \cup {"report", "risk", "decision", None},
         \A i \in Ids : UnderWay(i) => owner[i] # <<p, mount>>
  PROVE  Fresh(k) \in Pane /\ PaneInv(p, Fresh(k))
<1> DEFINE t == Fresh(k)
<1>1. /\ t \in Pane /\ t.kind = k /\ t.work = "idle" /\ t.got = None /\ t.intent = None
      /\ t.view = None /\ ~t.rejected /\ ~t.notStored /\ t.first # "row"
      /\ k # "materialization" => t.first = None
  BY FreshFields
<1> HIDE DEF t
<1>2. PaneInv(p, t)
  BY <1>1 DEF PaneInv, SiteInv, IntentInv
<1> QED
  BY <1>1, <1>2 DEF t
-----------------------------------------------------------------------------
(* The page with a panel and its child.                                     *)

\* What a step of the page forgets of the attempt of p is settled.
Remembers(p) ==
  LET i == pane[p].intent IN
  mount' = mount /\ i # None /\ pane'[p].intent # i => Settled(i)

\* A child that is not guarded has nothing under way.
LEMMA UnguardedIsSettled ==
  ASSUME PanelInv, pane["child"].kind # None, ~Guarded(pane["child"])
  PROVE  /\ \A i \in Ids : UnderWay(i) => owner[i] # <<"child", mount>>
         /\ pane["child"].intent # None => row[pane["child"].intent] = "final"
<1> DEFINE c == pane["child"]
<1>1. c \in Pane /\ PaneInv("child", c) /\ c.kind \in {"risk", "decision"}
  BY DEF PanelInv, PanelTypes, Slots
<1>2. c.work = "idle" /\ ~c.uncertain
  BY DEF Guarded
<1> HIDE DEF c
<1>3. c.intent # None => row[c.intent] = "final"
  BY <1>1, <1>2 DEF PaneInv, IntentInv
<1>4. \A i \in Ids : UnderWay(i) => owner[i] # <<"child", mount>>
  BY <1>1, <1>3, PanelConstants DEF PaneInv, UnderWay
<1> QED
  BY <1>3, <1>4 DEF c

\* What a handler that puts t in the place of a panel does to the page.
LEMMA PutShape ==
  ASSUME PanelInv, NEW p \in Slots, NEW t \in Pane, t.kind = pane[p].kind,
         pane[p].intent # None /\ t.intent # pane[p].intent => Settles(pane[p]),
         pane[p].kind # None, Put(p, t),
         p = "panel" => ~Guarded(pane["child"]),
         p = "child" => pane["panel"].work = "idle"
  PROVE  /\ pane' \in [Slots -> Pane] /\ pane'[p] = t
         /\ \A q \in Slots : pane'[q].kind = pane[q].kind
         /\ \A q \in Slots \ {p} : \E u \in Pane : pane'[q] = u /\ PaneInv(q, u)
         /\ pane'["panel"].work # "idle" => ~Guarded(pane'["child"])
         /\ \A q \in Slots : Remembers(q)
<1>1. /\ pane \in [Slots -> Pane]
      /\ pane["child"] \in Pane /\ pane["panel"] \in Pane
      /\ PaneInv("child", pane["child"]) /\ PaneInv("panel", pane["panel"])
  BY DEF PanelInv, PanelTypes, Slots
<1>2. \/ p = "child" /\ pane'["child"] = t /\ pane'["panel"] = pane["panel"]
      \/ /\ p = "panel" /\ pane'["panel"] = t
         /\ \/ pane'["child"] = pane["child"]
            \/ /\ pane["child"].kind # None
               /\ pane'["child"] = Fresh(pane["child"].kind)
  BY <1>1 DEF Put, WithChild, Slots
<1>3. /\ Fresh(pane["child"].kind) \in Pane
      /\ Fresh(pane["child"].kind).kind = pane["child"].kind
      /\ Fresh(pane["child"].kind).work = "idle"
      /\ Guarded(Fresh(pane["child"].kind)) = FALSE
  <2>1. pane["child"].kind \in Alone \cup {"report", "risk", "decision", None}
    BY <1>1 DEF Pane
  <2> QED
    BY <2>1, FreshFields DEF Guarded, Fresh
<1>4. pane' \in [Slots -> Pane]
  BY <1>1, <1>3 DEF Put, WithChild, Slots
<1>5. ASSUME NEW q \in Slots PROVE pane'[q].kind = pane[q].kind
  BY <1>1, <1>2, <1>3 DEF Slots
<1>6. ASSUME NEW q \in Slots \ {p} PROVE \E u \in Pane : pane'[q] = u /\ PaneInv(q, u)
  <2>1. CASE pane["child"].kind # None /\ p = "panel" /\ pane'["child"] = Fresh(pane["child"].kind)
    <3>1. \A i \in Ids : UnderWay(i) => owner[i] # <<"child", mount>>
      BY <2>1, UnguardedIsSettled
    <3>2. pane["child"].kind \in Alone \cup {"report", "risk", "decision", None}
      BY <1>1 DEF Pane
    <3>3. PaneInv("child", Fresh(pane["child"].kind))
      BY <3>1, <3>2, FreshIsGood DEF Slots
    <3>4. q = "child"
      BY <2>1 DEF Slots
    <3> QED
      BY <1>3, <2>1, <3>3, <3>4
  <2> QED
    BY <1>1, <1>2, <2>1 DEF Slots
<1>7. pane'["panel"].work # "idle" => ~Guarded(pane'["child"])
  BY <1>2, <1>3 DEF Slots
<1>8. ASSUME NEW q \in Slots PROVE Remembers(q)
  <2> DEFINE i == pane[q].intent
  <2> SUFFICES ASSUME i # None, pane'[q].intent # i PROVE Settled(i)
    BY DEF Remembers
  <2>1. i \in Ids /\ owner[i] = <<q, mount>> /\ KindOf(i) = pane[q].kind
    <3>1. pane[q] \in Pane /\ PaneInv(q, pane[q])
      BY <1>1 DEF Slots
    <3>2. i \in Ids /\ owner[i] = <<q, mount>>
      BY <3>1 DEF Pane, PaneInv, IntentInv
    <3>3. owner[i] # None
      BY <3>2, PanelConstants DEF PanelInv, PanelTypes
    <3> QED
      BY <3>2, <3>3 DEF KindOf
  <2>2. CASE pane'[q] = t /\ q = p
    BY <2>1, <2>2 DEF Settles, Settled, NeverStored
  <2>3. CASE pane["child"].kind # None /\ p = "panel" /\ q = "child"
    BY <2>1, <2>3, UnguardedIsSettled DEF Settled
  <2> QED
    BY <1>2, <2>2, <2>3 DEF Slots
<1> QED
  BY <1>2, <1>4, <1>5, <1>6, <1>7, <1>8

\* A panel stays in a good state when rows grow, nothing of it is lost, and no request of it
\* but the one it intends is sent again.
LEMMA KeepsGood ==
  ASSUME NEW q \in Slots, NEW u \in Pane, PaneInv(q, u), pane'[q] = u, mount' = mount,
         \A j \in Ids : owner[j] = <<q, mount>> => owner'[j] = owner[j],
         \A j \in Ids : owner'[j] = <<q, mount>> /\ UnderWay(j)' =>
                          owner[j] = <<q, mount>> /\ (UnderWay(j) \/ u.intent = j),
         \A j \in Ids \cup {0} : /\ row[j] # "none" => row'[j] # "none"
                                 /\ row[j] = "final" => row'[j] = "final",
         \A j \in Ids : owner[j] = <<q, mount>> /\ u.kind \notin Replaying =>
                          /\ NeverStored(j) => NeverStored(j)'
                          /\ Answering(j) => Answering(j)'
  PROVE  PaneInv(q, pane[q])'
<1>1. u.view # None => u.view \in View
  BY DEF Pane
<1>2. u.got \notin {None, NoRow} => u.got \in View
  BY DEF Pane
<1>3. SiteInv(q, pane[q])'
  BY DEF PaneInv, SiteInv, Pane
<1>4. u.intent # None => u.intent \in Ids /\ owner[u.intent] = <<q, mount>>
  BY DEF PaneInv, IntentInv, Pane
<1>5. IntentInv(q, pane[q])'
  BY <1>4 DEF PaneInv, IntentInv
<1>6. /\ u.view # None => Seen(u.kind, u.view)'
      /\ u.got \notin {None, NoRow} => Seen(u.kind, u.got)'
  BY <1>1, <1>2 DEF PaneInv, Seen, View
<1>7. u.first = "row" => Stored' # {}
  BY DEF PaneInv, Stored
<1>8. \A j \in Ids : UnderWay(j)' /\ owner'[j] = <<q, mount>> =>
          u.intent = j \/ (u.kind = "materialization" /\ u.view # None)
  BY DEF PaneInv
<1> QED
  BY <1>3, <1>5, <1>6, <1>7, <1>8 DEF PaneInv, Seen, UnderWay

\* A page is good when it was and the step kept its parts so.
LEMMA PageIsGood ==
  ASSUME PanelInv, PanelTypes', \A q \in Slots : pane'[q].kind = pane[q].kind,
         row'[0] # "pending", \A i \in Ids : RequestInv(i)',
         \A q \in Slots : PaneInv(q, pane[q])',
         pane'["panel"].work # "idle" => ~Guarded(pane'["child"])
  PROVE  PanelInv'
BY DEF PanelInv, Slots, Guarded

\* A request of which nothing but the state of its panel changes.
LEMMA SameRequest ==
  ASSUME PanelInv, NEW i \in Ids, \A q \in Slots : pane'[q].kind = pane[q].kind,
         mount' = mount, row'[i] = row[i], post'[i] = post[i], owner'[i] = owner[i]
  PROVE  RequestInv(i)'
<1>1. owner[i] # None => owner[i][1] \in Slots
  BY DEF PanelInv, PanelTypes
<1>2. KindOf(i)' = KindOf(i) /\ (owner[i] # None => pane'[owner[i][1]].kind = pane[owner[i][1]].kind)
  BY <1>1 DEF KindOf
<1> QED
  BY <1>2 DEF PanelInv, RequestInv

\* A handler of a panel puts a good state in its place.
LEMMA PutIsGood ==
  ASSUME PanelInv, NEW p \in Slots, NEW t, Follows(p, pane[p], t), pane[p].kind # None,
         Put(p, t), UNCHANGED <<mount, row, post, owner>>,
         p = "panel" => ~Guarded(pane["child"]),
         p = "child" => pane["panel"].work = "idle"
  PROVE  PanelInv' /\ \A q \in Slots : Remembers(q)
<1>1. /\ pane' \in [Slots -> Pane] /\ pane'[p] = t
      /\ \A q \in Slots : pane'[q].kind = pane[q].kind
      /\ \A q \in Slots \ {p} : \E u \in Pane : pane'[q] = u /\ PaneInv(q, u)
      /\ pane'["panel"].work # "idle" => ~Guarded(pane'["child"])
      /\ \A q \in Slots : Remembers(q)
  BY PutShape DEF Follows
<1>2. ASSUME NEW q \in Slots PROVE PaneInv(q, pane[q])'
  <2>1. PICK u \in Pane : pane'[q] = u /\ PaneInv(q, u)
    BY <1>1 DEF Follows
  <2>2. /\ \A j \in Ids : UnderWay(j)' <=> UnderWay(j)
        /\ \A j \in Ids : NeverStored(j)' <=> NeverStored(j)
        /\ \A j \in Ids : Answering(j)' <=> Answering(j)
    BY DEF UnderWay, NeverStored, Answering
  <2> QED
    BY <2>1, <2>2, KeepsGood
<1>3. \A i \in Ids : RequestInv(i)'
  BY <1>1, SameRequest
<1>4. PanelTypes' /\ row'[0] # "pending"
  BY <1>1 DEF PanelInv, PanelTypes
<1> QED
  BY <1>1, <1>2, <1>3, <1>4, PageIsGood

\* What each slot of a good page looks like.
LEMMA SlotFacts ==
  ASSUME PanelInv, NEW p \in Slots
  PROVE  /\ pane[p] \in Pane /\ PaneInv(p, pane[p])
         /\ pane[p].work # "idle" =>
              /\ pane[p].kind # None
              /\ p = "panel" => ~Guarded(pane["child"])
              /\ p = "child" => pane["panel"].work = "idle"
         /\ Free(p) =>
              /\ pane[p].kind # None /\ pane[p].work = "idle"
              /\ p = "panel" => ~Guarded(pane["child"])
              /\ p = "child" => pane["panel"].work = "idle"
         /\ pane[p].kind = "materialization" => p = "panel" /\ pane["child"].kind = None
<1>1. pane[p] \in Pane /\ PaneInv(p, pane[p])
  BY DEF PanelInv, PanelTypes
<1>2. ASSUME pane[p].work # "idle", pane[p].kind = None PROVE FALSE
  <2> DEFINE i == pane[p].intent
  <2>1. i # None
    BY <1>1, <1>2, PanelConstants DEF PaneInv, SiteInv, Alone
  <2>2. i \in Ids /\ owner[i] = <<p, mount>>
    BY <1>1, <2>1 DEF Pane, PaneInv, IntentInv
  <2>3. owner[i] # None
    BY <2>2, PanelConstants DEF PanelInv, PanelTypes
  <2> QED
    BY <1>2, <2>2, <2>3 DEF PanelInv, RequestInv
<1>3. p = "panel" /\ pane[p].work # "idle" => ~Guarded(pane["child"])
  BY DEF PanelInv
<1>4. ASSUME p = "child", pane[p].work # "idle" PROVE pane["panel"].work = "idle"
  <2>1. Guarded(pane["child"])
    BY <1>2, <1>4 DEF Guarded
  <2> QED
    BY <2>1 DEF PanelInv
<1>5. pane[p].kind = "materialization" => p = "panel" /\ pane["child"].kind = None
  BY PanelConstants DEF PanelInv, Slots, Alone
<1>6. Free(p) =>
         /\ pane[p].kind # None /\ pane[p].work = "idle"
         /\ p = "panel" => ~Guarded(pane["child"])
         /\ p = "child" => pane["panel"].work = "idle"
  BY DEF Free
<1> QED
  BY <1>1, <1>2, <1>3, <1>4, <1>5, <1>6

\* A stored row of a request of this kind of panel, as it is shown.
LEMMA ShownIsSeen ==
  ASSUME PanelInv, NEW p \in Slots, NEW i \in Stored,
         \/ i = 0
         \/ i \in Ids /\ owner[i] # None /\ owner[i][1] = p
         \/ pane[p].kind = "materialization"
  PROVE  Shown(i) \in View /\ Shown(i).id = i /\ Seen(pane[p].kind, Shown(i))
<1>1. i \in Ids \cup {0} /\ row[i] # "none" /\ row[i] \in {"none", "pending", "final"}
  BY DEF Stored, PanelInv, PanelTypes
<1>2. Shown(i) \in View /\ Shown(i).id = i /\ (Shown(i).final <=> row[i] = "final")
  BY <1>1 DEF Shown, View
<1>3. ASSUME i \in Ids PROVE RequestInv(i)
  BY <1>3 DEF PanelInv
<1>4. ASSUME i # 0 PROVE KindOf(i) = pane[p].kind
  <2>1. i \in Ids /\ RequestInv(i) /\ owner[i] # None
    BY <1>1, <1>3, <1>4 DEF RequestInv
  <2>2. owner[i][1] \in Slots /\ pane[owner[i][1]].kind # None
    BY <2>1 DEF RequestInv, PanelInv, PanelTypes
  <2>3. owner[i][1] = p
    BY <1>4, <2>2, SlotFacts DEF Slots
  <2> QED
    BY <2>1, <2>3 DEF KindOf
<1>5. pane[p].kind \notin Attempts => row[i] = "final"
  <2>1. i = 0 => row[i] # "pending"
    BY DEF PanelInv
  <2>2. i # 0 /\ row[i] = "pending" => pane[p].kind \in Attempts
    BY <1>1, <1>3, <1>4 DEF RequestInv
  <2> QED
    BY <1>1, <2>1, <2>2
<1> QED
  BY <1>1, <1>2, <1>5 DEF Seen

LEMMA IntentOf ==
  ASSUME PanelInv, NEW p \in Slots, pane[p].intent # None
  PROVE  /\ pane[p].intent \in Ids /\ owner[pane[p].intent] = <<p, mount>>
         /\ owner[pane[p].intent] # None /\ KindOf(pane[p].intent) = pane[p].kind
<1>1. pane[p] \in Pane /\ PaneInv(p, pane[p])
  BY SlotFacts
<1>2. pane[p].intent \in Ids /\ owner[pane[p].intent] = <<p, mount>>
  BY <1>1 DEF Pane, PaneInv, IntentInv
<1>3. owner[pane[p].intent] # None
  BY <1>2, PanelConstants DEF PanelInv, PanelTypes
<1> QED
  BY <1>2, <1>3 DEF KindOf

Good == PanelInv' /\ \A q \in Slots : Remembers(q)

LEMMA ConsentStep == ASSUME PanelInv, NEW p \in Slots, Consent(p) PROVE Good
BY SlotFacts, ConsentIsGood, PutIsGood DEF Consent, Good

LEMMA ResetStep == ASSUME PanelInv, NEW p \in Slots, ResetPanel(p) PROVE Good
BY SlotFacts, ResetIsGood, PutIsGood DEF ResetPanel, Good

LEMMA ReconcileStep == ASSUME PanelInv, NEW p \in Slots, Reconcile(p) PROVE Good
BY SlotFacts, ReconcileIsGood, PutIsGood DEF Reconcile, Good

LEMMA OpenStep == ASSUME PanelInv, NEW p \in Slots, NEW i \in Ids \cup {0}, Open(p, i) PROVE Good
<1>1. /\ i \in Stored /\ Free(p)
      /\ \/ i = 0
         \/ i \in Ids /\ owner[i][1] = p
  BY DEF Open
<1>2. i # 0 => owner[i] # None
  BY <1>1 DEF PanelInv, RequestInv, Stored
<1>3. Shown(i) \in View /\ Seen(pane[p].kind, Shown(i))
  BY <1>1, <1>2, ShownIsSeen
<1> QED
  BY <1>1, <1>3, SlotFacts, OpenedIsGood, PutIsGood DEF Open, Good

LEMMA RelistStep == ASSUME PanelInv, NEW p \in Slots, NEW a \in Answers, Relist(p, a) PROVE Good
BY SlotFacts, ReloadedIsGood, PutIsGood DEF Relist, Good

LEMMA RespondStep == ASSUME PanelInv, NEW p \in Slots, NEW a \in Answers, Respond(p, a) PROVE Good
<1> DEFINE s == pane[p]
           i == s.site
<1>1. /\ s \in Pane /\ PaneInv(p, s) /\ s.work = "post" /\ s.kind # None
      /\ p = "panel" => ~Guarded(pane["child"])
      /\ p = "child" => pane["panel"].work = "idle"
  BY SlotFacts DEF Respond
<1>2. i \in Ids /\ owner[i] = <<p, mount>>
  BY <1>1 DEF Pane, PaneInv, SiteInv, IntentInv
<1>3. RequestInv(i) /\ owner[i] # None
  BY <1>2, PanelConstants DEF PanelInv, PanelTypes
<1>4. a = "row" => i \in Stored
  BY <1>2, <1>3 DEF Respond, RowOf, RequestInv, Stored
<1>5. a = "row" => Seen(s.kind, Shown(i))
  <2>1. i \in Ids /\ owner[i] # None /\ owner[i][1] = p
    BY <1>2, <1>3
  <2> HIDE DEF i
  <2> QED
    BY <1>4, <2>1, ShownIsSeen
<1>6. Shown(i) \in View /\ Shown(i).id = i
  BY <1>2 DEF Shown, View
<1>7. a \in {"refused", "unavailable"} => post[i] = a
  BY DEF Respond
<1>8. Responds(s, a, Shown(i))
  BY <1>1, <1>3, <1>5, <1>6, <1>7 DEF Responds, RequestInv
<1>9. Follows(p, s, Answered(s, a, Shown(i)))
  BY <1>1, <1>8, AnswerIsGood
<1>10. Put(p, Answered(s, a, Shown(i))) /\ UNCHANGED <<mount, row, post, owner>>
  BY DEF Respond
<1> HIDE DEF s, i
<1> QED
  BY <1>1, <1>9, <1>10, PutIsGood DEF Good, s

LEMMA DeliverStep == ASSUME PanelInv, NEW p \in Slots, Deliver(p) \/ ReadFails(p) PROVE Good
<1> DEFINE s == pane[p]
<1>1. /\ s \in Pane /\ PaneInv(p, s) /\ s.work = "read" /\ s.kind # None
      /\ p = "panel" => ~Guarded(pane["child"])
      /\ p = "child" => pane["panel"].work = "idle"
      /\ UNCHANGED <<mount, row, post, owner>>
  BY SlotFacts DEF Deliver, ReadFails
<1>2. ASSUME NEW a, NEW v, Reads(s, a, v), Put(p, Read(s, a, v)) PROVE Good
  <2>1. Follows(p, s, Read(s, a, v))
    BY <1>1, <1>2, ReadIsGood
  <2> HIDE DEF s
  <2> QED
    BY <1>1, <1>2, <2>1, PutIsGood DEF Good, s
<1>3. CASE ReadFails(p)
  <2>1. Reads(s, "lost", NoRow)
    BY <1>1 DEF Reads, PaneInv
  <2> QED
    BY <1>2, <1>3, <2>1 DEF ReadFails
<1>4. CASE Deliver(p)
  <2> DEFINE a == IF s.got = NoRow THEN "missing" ELSE "row"
  <2>1. Reads(s, a, s.got)
    BY <1>1, <1>4 DEF Reads, PaneInv, Deliver, Pane
  <2> QED
    BY <1>2, <1>4, <2>1 DEF Deliver
<1> QED
  BY <1>3, <1>4

\* A read and the first read only ask: what is shown stays.
LEMMA PutShown ==
  ASSUME PanelInv, NEW p \in Slots, NEW t, t.view = pane[p].view,
         pane' = [pane EXCEPT ![p] = t]
  PROVE  Put(p, t)
<1>1. pane \in [Slots -> Pane]
  BY DEF PanelInv, PanelTypes
<1>2. CASE p = "panel"
  BY <1>1, <1>2 DEF Put, WithChild, Slots
<1>3. CASE p = "child"
  BY <1>1, <1>3 DEF Put, Slots
<1> QED
  BY <1>2, <1>3 DEF Slots

LEMMA FetchStep == ASSUME PanelInv, NEW p \in Slots, Fetch(p) PROVE Good
<1> DEFINE s == pane[p]
           sought == IF s.kind = "materialization" THEN Stored ELSE Stored \cap {s.site}
           v == IF sought = {} THEN NoRow ELSE Shown(CHOOSE i \in sought : TRUE)
           t == [s EXCEPT !.got = v]
<1>1. /\ s \in Pane /\ PaneInv(p, s) /\ s.work = "read" /\ s.kind # None /\ s.got = None
      /\ p = "panel" => ~Guarded(pane["child"])
      /\ p = "child" => pane["panel"].work = "idle"
      /\ UNCHANGED <<mount, row, post, owner>>
  BY SlotFacts DEF Fetch
<1>2. s.kind # "materialization" => s.site \in Ids /\ owner[s.site] = <<p, mount>> /\ owner[s.site] # None
  BY <1>1, IntentOf DEF PaneInv, SiteInv
<1>3. \/ v \in View /\ Seen(s.kind, v) /\ (s.kind # "materialization" => v.id = s.site)
      \/ v = NoRow /\ (s.kind # "materialization" => row[s.site] = "none")
  <2>1. CASE sought = {}
    BY <1>2, <2>1 DEF Stored
  <2>2. CASE sought # {}
    <3> DEFINE i == CHOOSE j \in sought : TRUE
    <3>1. i \in sought /\ v = Shown(i)
      BY <2>2
    <3> HIDE DEF i
    <3>2. i \in Stored /\ (s.kind # "materialization" => i = s.site)
      BY <3>1
    <3>3. v \in View /\ v.id = i /\ Seen(s.kind, v)
      BY <1>2, <3>1, <3>2, ShownIsSeen
    <3> QED
      BY <3>2, <3>3
  <2> QED
    BY <2>1, <2>2
<1>5. Follows(p, s, t)
  <2> HIDE DEF s, v
  <2> QED
    BY <1>1, <1>3, FetchIsGood
<1>6. pane' = [pane EXCEPT ![p] = t]
  BY DEF Fetch
<1>7. t.view = s.view
  BY <1>1 DEF Pane
<1> HIDE DEF s, t
<1>8. Put(p, t)
  BY <1>6, <1>7, PutShown DEF s
<1> QED
  BY <1>1, <1>5, <1>8, PutIsGood DEF Good, s

LEMMA FirstStep == ASSUME PanelInv, NEW p \in Slots, FetchFirst(p) \/ DeliverFirst(p) PROVE Good
<1> DEFINE s == pane[p]
<1>1. s \in Pane /\ PaneInv(p, s) /\ s.first # None
  BY SlotFacts, PanelConstants DEF FetchFirst, DeliverFirst
<1>2. s.kind = "materialization"
  BY <1>1, FirstIsGood
<1>3. /\ s.kind # None /\ p = "panel" /\ ~Guarded(pane["child"])
      /\ UNCHANGED <<mount, row, post, owner>>
  BY <1>2, SlotFacts, PanelConstants DEF Guarded, FetchFirst, DeliverFirst, Alone
<1>4. CASE FetchFirst(p)
  <2>1. PICK a \in {"lost", IF Stored = {} THEN "missing" ELSE "row"} :
             pane' = [pane EXCEPT ![p].first = a]
    BY <1>4 DEF FetchFirst
  <2> DEFINE t == [s EXCEPT !.first = a]
  <2>2. a \in {"lost", "missing", "row"} /\ (a = "row" => Stored # {})
    OBVIOUS
  <2>3. Follows(p, s, t)
    BY <1>1, <2>2, FirstIsGood
  <2>4. pane' = [pane EXCEPT ![p] = t] /\ t.view = s.view
    BY <1>1, <2>1 DEF Pane
  <2> HIDE DEF s, t
  <2>5. Put(p, t)
    BY <2>4, PutShown DEF s
  <2> QED
    BY <1>1, <1>3, <2>3, <2>5, PutIsGood DEF Good, s
<1>5. CASE DeliverFirst(p)
  <2>1. PICK i \in IF Stored = {} THEN {0} ELSE Stored : Put(p, MaterializationFirst(s, Shown(i)))
    BY <1>5 DEF DeliverFirst
  <2>2. s.first \in {"lost", "missing", "row"}
    BY <1>1, <1>5 DEF DeliverFirst, Pane
  <2>3. s.first = "row" => Stored # {}
    BY <1>1 DEF PaneInv
  <2>4. Stored # {} => Shown(i) \in View /\ Seen(s.kind, Shown(i))
    BY <1>2, <2>1, ShownIsSeen
  <2>5. Shown(i) \in View
    BY DEF Shown, View, Stored
  <2>6. Follows(p, s, MaterializationFirst(s, Shown(i)))
    BY <1>1, <2>2, <2>3, <2>4, <2>5, FirstIsGood
  <2> HIDE DEF s
  <2> QED
    BY <1>1, <1>3, <2>1, <2>6, PutIsGood DEF Good, s
<1> QED
  BY <1>4, <1>5
\* The panels of Replaying send the attempt they intend once more.
LEMMA ReplayStep == ASSUME PanelInv, NEW p \in Slots, Replay(p) PROVE Good
<1> DEFINE s == pane[p]
           i == s.intent
           t == [s EXCEPT !.work = "post", !.site = i, !.again = TRUE, !.consent = FALSE]
<1>1. /\ s \in Pane /\ PaneInv(p, s) /\ s.work = "idle" /\ s.kind # None
      /\ p = "panel" => ~Guarded(pane["child"])
      /\ p = "child" => pane["panel"].work = "idle"
      /\ i # None /\ s.kind \in Replaying /\ Put(p, t)
      /\ UNCHANGED <<mount, row, owner>> /\ post' = [post EXCEPT ![i] = "sent"]
  BY SlotFacts DEF Replay
<1>2. i \in Ids /\ owner[i] = <<p, mount>> /\ owner[i] # None
  BY <1>1, IntentOf
<1>3. post \in [Ids -> {"new", "sent", "row", "refused", "unavailable"}]
  BY DEF PanelInv, PanelTypes
<1>4. /\ t \in Pane /\ t.kind = s.kind /\ t.work = "post" /\ t.site = i
      /\ t.got = s.got /\ t.first = s.first /\ t.intent = i
      /\ t.rejected = s.rejected /\ t.notStored = s.notStored
      /\ t.uncertain = s.uncertain /\ t.view = s.view
  BY <1>1 DEF Pane
<1> HIDE DEF s, i, t
<1>5. PaneInv(p, t)
  <2>1. SiteInv(p, t)
    BY <1>1, <1>2, <1>4 DEF PaneInv, SiteInv
  <2>2. IntentInv(p, t)
    BY <1>1, <1>2, <1>4 DEF PaneInv, IntentInv, i
  <2> QED
    BY <1>1, <1>4, <2>1, <2>2 DEF PaneInv, i
<1>6. /\ pane' \in [Slots -> Pane] /\ pane'[p] = t
      /\ \A q \in Slots : pane'[q].kind = pane[q].kind
      /\ \A q \in Slots \ {p} : \E u \in Pane : pane'[q] = u /\ PaneInv(q, u)
      /\ pane'["panel"].work # "idle" => ~Guarded(pane'["child"])
      /\ \A q \in Slots : Remembers(q)
  BY <1>1, <1>4, PutShape DEF s, i
<1>7. ASSUME NEW j \in Ids
      PROVE  /\ UnderWay(j)' => UnderWay(j) \/ j = i
             /\ j # i => (NeverStored(j)' <=> NeverStored(j)) /\ (Answering(j)' <=> Answering(j))
  BY <1>1, <1>3 DEF UnderWay, NeverStored, Answering
<1>8. PaneInv(p, pane[p])'
  BY <1>1, <1>4, <1>5, <1>6, <1>7, KeepsGood
<1>9. ASSUME NEW q \in Slots \ {p} PROVE PaneInv(q, pane[q])'
  <2>1. PICK u \in Pane : pane'[q] = u /\ PaneInv(q, u)
    BY <1>6
  <2>2. owner[i] # <<q, mount>>
    BY <1>2
  <2> QED
    BY <1>1, <1>7, <2>1, <2>2, KeepsGood
<1>10. ASSUME NEW j \in Ids PROVE RequestInv(j)'
  <2>1. CASE j # i
    BY <1>1, <1>3, <1>6, <2>1, SameRequest
  <2>2. CASE j = i
    <3>1. RequestInv(j) /\ owner[j][1] = p /\ owner[j] # None
      BY <1>2, <2>2 DEF PanelInv
    <3>2. post'[j] = "sent" /\ owner'[j] = owner[j] /\ row'[j] = row[j] /\ mount' = mount
      BY <1>1, <1>2, <1>3, <2>2
    <3>3. KindOf(j)' = KindOf(j) /\ pane'[owner[j][1]].kind = pane[owner[j][1]].kind
      BY <1>6, <3>1, <3>2 DEF KindOf
    <3> QED
      BY <3>1, <3>2, <3>3 DEF RequestInv
  <2> QED
    BY <2>1, <2>2
<1>11. PanelTypes' /\ row'[0] # "pending"
  BY <1>1, <1>2, <1>6 DEF PanelInv, PanelTypes
<1>12. PanelInv'
  BY <1>6, <1>8, <1>9, <1>10, <1>11, PageIsGood
<1> QED
  BY <1>6, <1>12 DEF Good

\* Which panel starts an attempt: one that has nothing under way.
LEMMA LaunchFacts ==
  ASSUME NEW p \in Slots, NEW s \in Pane, PaneInv(p, s), s.kind # None,
         NEW u \in Pane, u.kind = s.kind, u.intent = s.intent, u.view = s.view,
         u.uncertain = s.uncertain, Launches(u)
  PROVE  /\ \A i \in Ids : UnderWay(i) => owner[i] # <<p, mount>>
         /\ s.intent # None => row[s.intent] = "final"
<1>1. /\ s.intent = None \/ (~s.uncertain /\ s.kind # "patch")
      /\ s.kind = "materialization" => s.view = None
  BY DEF Launches, ForestLaunches, DeterministicLaunches, MlLaunches, VerificationLaunches,
     ReportLaunches, RiskLaunches, DecisionLaunches, NativeLaunches, MaterializationLaunches,
     PatchLaunches, ModelPatchLaunches, ConfigModelLaunches, Pane, Alone
<1>2. s.intent # None => row[s.intent] = "final"
  BY <1>1 DEF PaneInv, IntentInv
<1>3. \A i \in Ids : UnderWay(i) => owner[i] # <<p, mount>>
  BY <1>1, <1>2, PanelConstants DEF PaneInv, UnderWay
<1> QED
  BY <1>2, <1>3

LEMMA LaunchStep == ASSUME PanelInv, NEW p \in Slots, NEW i \in Ids, Launch(p, i) PROVE Good
<1> DEFINE s == pane[p]
           t == Send(s, i)
<1>1. /\ s \in Pane /\ PaneInv(p, s) /\ s.work = "idle" /\ s.kind # None
      /\ p = "panel" => ~Guarded(pane["child"])
      /\ p = "child" => pane["panel"].work = "idle"
      /\ Launches(s) /\ post[i] = "new" /\ Put(p, t)
      /\ UNCHANGED <<mount, row>>
      /\ post' = [post EXCEPT ![i] = "sent"]
      /\ owner' = [owner EXCEPT ![i] = <<p, mount>>]
  BY SlotFacts DEF Launch
<1>2. /\ post \in [Ids -> {"new", "sent", "row", "refused", "unavailable"}]
      /\ owner \in [Ids -> (Slots \X Nat) \cup {None}] /\ mount \in Nat
  BY DEF PanelInv, PanelTypes
<1>3. owner[i] = None /\ row[i] = "none"
  BY <1>1 DEF PanelInv, RequestInv
<1>4. /\ \A j \in Ids : UnderWay(j) => owner[j] # <<p, mount>>
      /\ s.intent # None => row[s.intent] = "final"
  BY <1>1, LaunchFacts
<1>5. /\ t \in Pane /\ t.kind = s.kind /\ t.work = "post" /\ t.site = i
      /\ t.got = s.got /\ t.first = s.first /\ t.intent = i /\ t.view = None
      /\ ~t.rejected /\ ~t.notStored /\ t.uncertain
  BY <1>1 DEF Pane, Send
<1> HIDE DEF s, t
<1>6. /\ pane' \in [Slots -> Pane] /\ pane'[p] = t
      /\ \A q \in Slots : pane'[q].kind = pane[q].kind
      /\ \A q \in Slots \ {p} : \E u \in Pane : pane'[q] = u /\ PaneInv(q, u)
      /\ pane'["panel"].work # "idle" => ~Guarded(pane'["child"])
      /\ \A q \in Slots : Remembers(q)
  BY <1>1, <1>4, <1>5, PutShape DEF s, Settles
<1>7. ASSUME NEW j \in Ids, j # i
      PROVE  /\ owner'[j] = owner[j] /\ (UnderWay(j)' <=> UnderWay(j))
             /\ (NeverStored(j)' <=> NeverStored(j)) /\ (Answering(j)' <=> Answering(j))
  BY <1>1, <1>2, <1>7 DEF UnderWay, NeverStored, Answering
<1>8. owner'[i] = <<p, mount>> /\ i # None /\ s.got = None
  BY <1>1, <1>2, PanelConstants DEF PaneInv
<1>9. PaneInv(p, pane[p])'
  <2>1. SiteInv(p, pane[p])'
    BY <1>1, <1>5, <1>6, <1>8 DEF PaneInv, SiteInv
  <2>2. IntentInv(p, pane[p])'
    BY <1>1, <1>5, <1>6, <1>8 DEF IntentInv
  <2>3. \A j \in Ids : UnderWay(j)' /\ owner'[j] = <<p, mount>>' => j = i
    BY <1>1, <1>4, <1>7
  <2>4. t.first = "row" => Stored' # {}
    BY <1>1, <1>5 DEF PaneInv, Stored
  <2> QED
    BY <1>5, <1>6, <1>8, <2>1, <2>2, <2>3, <2>4 DEF PaneInv
<1>10. ASSUME NEW q \in Slots \ {p} PROVE PaneInv(q, pane[q])'
  <2>1. PICK u \in Pane : pane'[q] = u /\ PaneInv(q, u)
    BY <1>6
  <2>2. owner[i] # <<q, mount>> /\ owner'[i] # <<q, mount>>
    BY <1>2, <1>3, <1>8, PanelConstants
  <2> QED
    BY <1>1, <1>7, <2>1, <2>2, KeepsGood
<1>11. ASSUME NEW j \in Ids PROVE RequestInv(j)'
  <2>1. CASE j # i
    BY <1>1, <1>2, <1>6, <1>7, <2>1, SameRequest
  <2>2. CASE j = i
    <3>1. post'[i] = "sent" /\ row'[i] = "none" /\ mount' = mount /\ owner'[i] # None
      BY <1>1, <1>2, <1>3, <1>8, PanelConstants
    <3>2. owner'[i][1] = p /\ owner'[i][2] = mount /\ pane'[p].kind # None
      BY <1>1, <1>5, <1>6, <1>8
    <3>3. RequestInv(i)'
      BY <1>2, <3>1, <3>2 DEF RequestInv
    <3> QED
      BY <2>2, <3>3
  <2> QED
    BY <2>1, <2>2
<1>12. PanelTypes' /\ row'[0] # "pending"
  BY <1>1, <1>2, <1>6 DEF PanelInv, PanelTypes
<1>13. PanelInv'
  BY <1>6, <1>9, <1>10, <1>11, <1>12, PageIsGood
<1> QED
  BY <1>6, <1>13 DEF Good
-----------------------------------------------------------------------------
(* The server, and the page that is mounted anew.                           *)

\* The panels stand still while the server stores, completes or answers.
LEMMA ServerIsGood ==
  ASSUME PanelInv, UNCHANGED <<pane, mount, owner>>, PanelTypes', row'[0] # "pending",
         \A j \in Ids : UnderWay(j)' => UnderWay(j),
         \A j \in Ids \cup {0} : /\ row[j] # "none" => row'[j] # "none"
                                 /\ row[j] = "final" => row'[j] = "final",
         \A j \in Ids : /\ NeverStored(j) => NeverStored(j)'
                        /\ Answering(j) => Answering(j)',
         \A j \in Ids : RequestInv(j)'
  PROVE  Good
<1>1. ASSUME NEW q \in Slots PROVE PaneInv(q, pane[q])'
  <2> DEFINE u == pane[q]
  <2>1. u \in Pane /\ PaneInv(q, u) /\ pane'[q] = u
    BY SlotFacts
  <2> HIDE DEF u
  <2> QED
    BY <2>1, KeepsGood
<1>2. pane'["panel"].work # "idle" => ~Guarded(pane'["child"])
  BY DEF PanelInv
<1>3. PanelInv'
  BY <1>1, <1>2, PageIsGood
<1> QED
  BY <1>3 DEF Good, Remembers

LEMMA StoreStep == ASSUME PanelInv, NEW i \in Ids, Store(i) \/ Complete(i) PROVE Good
<1>1. /\ UNCHANGED <<pane, mount, post, owner>> /\ post[i] = "sent" /\ row[i] # "final"
      /\ \E r \in {"pending", "final"} :
           /\ row' = [row EXCEPT ![i] = r]
           /\ r = "pending" => KindOf(i) \in Attempts
  BY DEF Store, Complete, PanelInv, PanelTypes
<1>2. PICK r \in {"pending", "final"} :
         row' = [row EXCEPT ![i] = r] /\ (r = "pending" => KindOf(i) \in Attempts)
  BY <1>1
<1>3. row \in [Ids \cup {0} -> {"none", "pending", "final"}] /\ i # 0 /\ PanelTypes'
  BY <1>1, <1>2, PanelConstants DEF PanelInv, PanelTypes
<1>4. /\ row'[i] = r /\ row[i] # "final"
      /\ \A j \in Ids \cup {0} : j # i => row'[j] = row[j]
  BY <1>1, <1>2, <1>3
<1>5. ASSUME NEW j \in Ids PROVE KindOf(j)' = KindOf(j)
  BY <1>1 DEF KindOf
<1>6. ASSUME NEW j \in Ids PROVE RequestInv(j)'
  BY <1>1, <1>2, <1>4, <1>5 DEF PanelInv, RequestInv
<1>7. \A j \in Ids : UnderWay(j)' => UnderWay(j)
  BY <1>1, <1>4 DEF UnderWay
<1>8. \A j \in Ids : /\ NeverStored(j) => NeverStored(j)'
                     /\ Answering(j) => Answering(j)'
  BY <1>1, <1>2, <1>4 DEF NeverStored, Answering
<1>9. \A j \in Ids \cup {0} : /\ row[j] # "none" => row'[j] # "none"
                              /\ row[j] = "final" => row'[j] = "final"
  BY <1>2, <1>4
<1>10. row'[0] # "pending"
  BY <1>3, <1>4 DEF PanelInv
<1> QED
  BY <1>1, <1>3, <1>6, <1>7, <1>8, <1>9, <1>10, ServerIsGood

LEMMA ServeStep == ASSUME PanelInv, NEW i \in Ids, NEW a \in Answers, Serve(i, a) PROVE Good
<1>1. /\ UNCHANGED <<pane, mount, row, owner>> /\ post[i] = "sent"
      /\ post' = [post EXCEPT ![i] = a]
      /\ a = "row" => row[i] = "final"
      /\ a = "refused" => row[i] = "none"
      /\ a \in {"row", "refused", "unavailable"}
  BY DEF Serve
<1>2. PanelTypes' /\ post \in [Ids -> {"new", "sent", "row", "refused", "unavailable"}]
  BY <1>1 DEF PanelInv, PanelTypes
<1>3. post'[i] = a /\ \A j \in Ids : j # i => post'[j] = post[j]
  BY <1>1, <1>2
<1>4. ASSUME NEW j \in Ids PROVE KindOf(j)' = KindOf(j)
  BY <1>1 DEF KindOf
<1>5. ASSUME NEW j \in Ids PROVE RequestInv(j)'
  BY <1>1, <1>3, <1>4 DEF PanelInv, RequestInv
<1>6. \A j \in Ids : UnderWay(j)' => UnderWay(j)
  BY <1>1, <1>3 DEF UnderWay
<1>7. \A j \in Ids : /\ NeverStored(j) => NeverStored(j)'
                     /\ Answering(j) => Answering(j)'
  BY <1>1, <1>3 DEF NeverStored, Answering
<1>8. row'[0] # "pending"
  BY <1>1 DEF PanelInv
<1> QED
  BY <1>1, <1>2, <1>5, <1>6, <1>7, <1>8, ServerIsGood

LEMMA StoreOtherStep == ASSUME PanelInv, StoreOther PROVE Good
<1>1. UNCHANGED <<pane, mount, post, owner>> /\ row' = [row EXCEPT ![0] = "final"]
  BY DEF StoreOther
<1>2. row \in [Ids \cup {0} -> {"none", "pending", "final"}] /\ PanelTypes' /\ 0 \notin Ids
  BY <1>1, PanelConstants DEF PanelInv, PanelTypes
<1>3. row'[0] = "final" /\ \A j \in Ids : row'[j] = row[j]
  BY <1>1, <1>2
<1>4. ASSUME NEW j \in Ids PROVE RequestInv(j)'
  BY <1>1, <1>3, SameRequest
<1>5. \A j \in Ids : /\ UnderWay(j)' <=> UnderWay(j)
                     /\ NeverStored(j)' <=> NeverStored(j)
                     /\ Answering(j)' <=> Answering(j)
  BY <1>1, <1>3 DEF UnderWay, NeverStored, Answering
<1> QED
  BY <1>1, <1>2, <1>3, <1>4, <1>5, ServerIsGood

LEMMA RemountStep == ASSUME PanelInv, Remount PROVE Good
<1>1. /\ mount \in Nat /\ mount' = mount + 1 /\ UNCHANGED <<row, post, owner>>
      /\ pane' = [p \in Slots |-> Fresh(pane[p].kind)]
  BY DEF Remount, PanelInv, PanelTypes
<1>2. ASSUME NEW q \in Slots
      PROVE  /\ pane'[q] = Fresh(pane[q].kind)
             /\ pane[q].kind \in Alone \cup {"report", "risk", "decision", None}
  BY <1>1 DEF PanelInv, PanelTypes, Pane
<1>3. ASSUME NEW q \in Slots
      PROVE  /\ pane'[q] \in Pane /\ pane'[q].kind = pane[q].kind /\ pane'[q].work = "idle"
             /\ pane'[q].got = None /\ pane'[q].intent = None /\ pane'[q].view = None
             /\ ~pane'[q].rejected /\ ~pane'[q].notStored /\ pane'[q].first # "row"
             /\ pane'[q].kind # "materialization" => pane'[q].first = None
  BY <1>2, FreshFields
<1>4. ASSUME NEW j \in Ids PROVE RequestInv(j)'
  <2>1. owner[j] \in (Slots \X Nat) \cup {None} /\ RequestInv(j)
    BY DEF PanelInv, PanelTypes
  <2>2. KindOf(j)' = KindOf(j) /\ (owner[j] # None => pane'[owner[j][1]].kind = pane[owner[j][1]].kind)
    BY <1>1, <1>3, <2>1 DEF KindOf
  <2>3. owner[j] # None => owner[j][2] <= mount'
    BY <1>1, <2>1 DEF RequestInv
  <2> QED
    BY <1>1, <2>1, <2>2, <2>3 DEF RequestInv
<1>5. ASSUME NEW q \in Slots PROVE PaneInv(q, pane[q])'
  <2>1. ASSUME NEW j \in Ids PROVE owner'[j] # <<q, mount'>>
    <3>1. owner[j] # None => owner[j][2] <= mount
      BY DEF PanelInv, RequestInv
    <3>2. <<q, mount'>> # None /\ <<q, mount'>>[2] = mount'
      BY <1>1, PanelConstants
    <3>3. owner'[j] = owner[j] /\ owner[j] \in (Slots \X Nat) \cup {None}
      BY <1>1 DEF PanelInv, PanelTypes
    <3>4. CASE owner[j] = None
      BY <3>2, <3>3, <3>4
    <3>5. CASE owner[j] # None
      <4>1. owner[j][2] \in Nat /\ owner[j][2] # mount'
        BY <1>1, <3>1, <3>3, <3>5
      <4> QED
        BY <3>2, <3>3, <4>1
    <3> QED
      BY <3>4, <3>5
  <2> QED
    BY <1>3, <2>1 DEF PaneInv, SiteInv, IntentInv
<1>6. PanelTypes' /\ row'[0] # "pending"
  BY <1>1, <1>3, FreshFields DEF PanelInv, PanelTypes
<1>7. pane'["panel"].work # "idle" => ~Guarded(pane'["child"])
  BY <1>3 DEF Slots
<1>8. PanelInv'
  BY <1>3, <1>4, <1>5, <1>6, <1>7, PageIsGood
<1> QED
  BY <1>1, <1>8 DEF Good, Remembers

-----------------------------------------------------------------------------
(* The page.                                                                *)

LEMMA PanelBegins == PanelInit => PanelInv
<1> SUFFICES ASSUME PanelInit PROVE PanelInv
  OBVIOUS
<1>1. PICK k \in Kinds :
        /\ pane = [p \in Slots |->
                     IF p = "panel" THEN Fresh(k[1])
                     ELSE IF k[2] = None THEN Fresh(None) ELSE Fresh(k[2])]
        /\ row = [i \in Ids \cup {0} |->
                    IF i = 0 /\ k[1] # "materialization" THEN "final" ELSE "none"]
  BY DEF PanelInit
<1>2. mount = 1 /\ post = [i \in Ids |-> "new"] /\ owner = [i \in Ids |-> None]
  BY DEF PanelInit
<1>3. /\ k \in (Alone \X {None}) \cup ({"report"} \X {"risk", "decision"})
      /\ k[1] \in Alone \cup {"report", "risk", "decision", None}
      /\ k[2] \in Alone \cup {"report", "risk", "decision", None}
      /\ k = <<k[1], k[2]>>
  BY KindsAssumption
<1>4. pane["panel"] = Fresh(k[1]) /\ pane["child"] = Fresh(k[2])
  BY <1>1 DEF Slots
<1>5. ASSUME NEW i \in Ids PROVE ~UnderWay(i)
  BY <1>2 DEF UnderWay
<1>6. /\ pane["panel"] \in Pane /\ PaneInv("panel", pane["panel"]) /\ pane["panel"].kind = k[1]
      /\ pane["child"] \in Pane /\ PaneInv("child", pane["child"]) /\ pane["child"].kind = k[2]
      /\ pane["panel"].work = "idle"
  BY <1>3, <1>4, <1>5, FreshIsGood, FreshFields DEF Slots
<1>7. PanelTypes
  BY <1>1, <1>2, <1>6 DEF PanelTypes, Slots
<1>8. ASSUME NEW i \in Ids PROVE RequestInv(i)
  BY <1>1, <1>2, PanelConstants DEF RequestInv
<1>9. row[0] # "pending"
  BY <1>1
<1> QED
  BY <1>3, <1>6, <1>7, <1>8, <1>9 DEF PanelInv, Slots

LEMMA PanelStep == PanelInv /\ PanelNext => Good
<1> SUFFICES ASSUME PanelInv, PanelNext PROVE Good
  OBVIOUS
<1>1. ASSUME NEW p \in Slots,
             \/ Consent(p) \/ Replay(p) \/ Reconcile(p) \/ ResetPanel(p) \/ Fetch(p)
             \/ Deliver(p) \/ ReadFails(p) \/ FetchFirst(p) \/ DeliverFirst(p)
             \/ \E i \in Ids : Launch(p, i)
             \/ \E i \in Ids \cup {0} : Open(p, i)
             \/ \E a \in Answers : Respond(p, a) \/ Relist(p, a)
      PROVE  Good
  BY <1>1, ConsentStep, ReplayStep, ReconcileStep, ResetStep, FetchStep, DeliverStep,
     FirstStep, LaunchStep, OpenStep, RespondStep, RelistStep
<1>2. ASSUME NEW i \in Ids, Store(i) \/ Complete(i) \/ \E a \in Answers : Serve(i, a)
      PROVE  Good
  BY <1>2, StoreStep, ServeStep
<1> QED
  BY <1>1, <1>2, StoreOtherStep, RemountStep DEF PanelNext

LEMMA PanelStutter == PanelInv /\ UNCHANGED panelVars => PanelInv'
<1> SUFFICES ASSUME PanelInv, UNCHANGED panelVars PROVE PanelInv'
  OBVIOUS
<1>1. PanelTypes' /\ row'[0] # "pending"
  BY DEF panelVars, PanelInv, PanelTypes
<1>2. \A j \in Ids : /\ UnderWay(j)' <=> UnderWay(j)
                     /\ NeverStored(j)' <=> NeverStored(j)
                     /\ Answering(j)' <=> Answering(j)
  BY DEF panelVars, UnderWay, NeverStored, Answering
<1>3. \A j \in Ids : RequestInv(j)'
  BY SameRequest DEF panelVars
<1>4. Good
  BY <1>1, <1>2, <1>3, ServerIsGood DEF panelVars
<1> QED
  BY <1>4 DEF Good

\* The invariant of the panels: what a panel says of its attempt is true of the row of the
\* server, however many answers were lost or late.
THEOREM PanelInvariance == PanelSpec => []PanelInv
<1>1. PanelInv /\ [PanelNext]_panelVars => PanelInv'
  BY PanelStep, PanelStutter DEF Good
<1> QED
  BY <1>1, PanelBegins, PTL DEF PanelSpec

\* For any number of attempts, mounts and lost answers: while the server may still carry out
\* an attempt of a mounted panel, none of the twelve panels starts another one.
THEOREM OneAttempt == PanelSpec => []OneAttemptAtATime
<1>1. ASSUME PanelInv, NEW i \in Ids, UnderWay(i), owner[i][2] = mount
      PROVE  ~Launches([pane[owner[i][1]] EXCEPT !.consent = TRUE])
  <2> DEFINE p == owner[i][1]
             s == pane[p]
             u == [s EXCEPT !.consent = TRUE]
  <2>1. owner[i] # None /\ owner[i] \in (Slots \X Nat) \cup {None}
    BY <1>1 DEF PanelInv, PanelTypes, RequestInv, UnderWay
  <2>2. p \in Slots /\ owner[i] = <<p, mount>> /\ s.kind # None
    BY <1>1, <2>1 DEF PanelInv, RequestInv
  <2>3. s \in Pane /\ PaneInv(p, s)
    BY <1>1, <2>2, SlotFacts
  <2>4. u \in Pane /\ u.kind = s.kind /\ u.intent = s.intent /\ u.view = s.view
        /\ u.uncertain = s.uncertain
    BY <2>3 DEF Pane
  <2> HIDE DEF p, s, u
  <2>5. ~Launches(u)
    BY <1>1, <2>2, <2>3, <2>4, LaunchFacts
  <2> QED
    BY <2>5 DEF p, s, u
<1>2. PanelInv => OneAttemptAtATime
  BY <1>1 DEF OneAttemptAtATime
<1> QED
  BY <1>2, PanelInvariance, PTL

\* For any number of attempts: while it is mounted, a panel forgets an attempt, and a report
\* is exchanged under its assessment and decision, only when what became of it is settled.
THEOREM ForgetsSettled == PanelSpec => ForgetsOnlySettled
<1> DEFINE Forgetting ==
      \A p \in Slots :
        LET i == pane[p].intent IN
        mount' = mount /\ i # None /\ pane'[p].intent # i => Settled(i)
<1>1. PanelInv /\ [PanelNext]_panelVars => [Forgetting]_panelVars
  BY PanelStep DEF Good, Remembers
<1> QED
  BY <1>1, PanelInvariance, PTL DEF PanelSpec, ForgetsOnlySettled
=============================================================================
