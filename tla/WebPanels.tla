------------------------------- MODULE WebPanels -------------------------------
(***************************************************************************)
(* The panels of the web interface that make the server store something.   *)
(* A panel names each attempt with a fresh id, sends it once, and must not *)
(* forget it before it knows what became of it: the answer can be lost (a  *)
(* request of the browser times out after 30 seconds, a worker may take    *)
(* longer), a POST can be delivered twice, and reading the attempt too     *)
(* early finds nothing.                                                    *)
(*                                                                         *)
(* A panel is a record: work is what it awaits, site the attempt that is   *)
(* about, got what the server has answered to a read; intent, view,        *)
(* uncertain, rejected, notStored, consent are its React state.  Handlers  *)
(* are functions from such a record and an answer to the next record, one  *)
(* per panel, because they differ.  The server is what the other modules   *)
(* prove of it: an id is stored at most once, a refused request never acts *)
(* later (OperationJournal), an attempt may stay pending for ever.         *)
(***************************************************************************)
EXTENDS WebSession

CONSTANTS
  Kinds,      \* the panels that are played, each alone or a report with its child
  Ids,        \* ids of attempts, 1 .. n; 0 is a record stored by someone else
  MaxMounts   \* how often the panel is mounted

Slots == {"panel", "child"}
Alone == {"forest", "deterministic", "ml", "verification", "native",
          "materialization", "patch", "modelpatch", "configmodel"}

ASSUME KindsAssumption ==
  /\ Kinds # {}
  /\ Kinds \subseteq (Alone \X {None}) \cup ({"report"} \X {"risk", "decision"})

ASSUME PanelConstants ==
  /\ Ids \subseteq Nat \ {0} /\ MaxMounts \in Nat
  /\ None \notin Ids \cup {0} \cup (Slots \X Nat)
  /\ None \notin Alone \cup {"report", "risk", "decision", "asked", "missing", "lost", "row", "done"}
  /\ None \notin [id : Ids \cup {0, None}, final : BOOLEAN]

Attempts == {"forest", "deterministic", "ml", "verification", "modelpatch", "configmodel"}
Replaying == {"native", "materialization", "patch"}

\* What a request of ApiClient can come to: a row, a definite refusal, 503, and anything
\* that leaves the outcome open (no connection, the 30 seconds are over, another 5xx).
Definite == {"refused"}
Answers == {"row", "refused", "unavailable", "lost"}

VARIABLES
  pane,   \* the state of the panel and of its child
  mount,  \* how often the panel was mounted
  row,    \* row[i]: none, pending or final
  post,   \* post[i]: new, sent (the server may still act), or how it was answered
  owner   \* owner[i]: the slot and mount that launched i

panelVars == <<pane, mount, row, post, owner>>

Stored == {i \in Ids \cup {0} : row[i] # "none"}
Shown(i) == [id |-> i, final |-> row[i] = "final"]
NoRow == [id |-> None, final |-> FALSE]  \* the answer 404

\* A panel as it is mounted.
Fresh(kind) ==
  [kind |-> kind, work |-> "idle", site |-> None, got |-> None, intent |-> None,
   view |-> None, uncertain |-> FALSE, rejected |-> FALSE, notStored |-> FALSE,
   consent |-> FALSE, again |-> FALSE,
   first |-> IF kind = "materialization" THEN "asked" ELSE None, ready |-> FALSE]

Idle(s) == [s EXCEPT !.work = "idle", !.site = None, !.got = None, !.again = FALSE]

-----------------------------------------------------------------------------
(* What the panels of the saved rechecks share.                             *)

\* A new intent: nothing is shown, and everything is unknown, until it is answered.
Send(s, i) ==
  [s EXCEPT !.work = "post", !.site = i, !.intent = i, !.view = None,
            !.uncertain = TRUE, !.rejected = FALSE, !.notStored = FALSE, !.consent = FALSE]

\* A row, of an attempt that may be pending or of a record that is complete.
Accept(s, v) == [s EXCEPT !.view = v, !.uncertain = ~v.final]

\* Everything about the attempt is forgotten.
Forget(s) ==
  [s EXCEPT !.intent = None, !.view = None, !.uncertain = FALSE, !.rejected = FALSE,
            !.notStored = FALSE, !.consent = FALSE]

ShowsFinal(s) == s.view # None /\ s.view.id = s.intent /\ s.view.final

\* reset of the rechecks: after a final row of this attempt, or a refusal and a 404.
RecheckResets(s) ==
  \/ s.rejected /\ s.notStored
  \/ ~s.uncertain /\ ShowsFinal(s)

\* reset of the records of the evidence chain.
RecordResets(s) ==
  IF s.uncertain THEN s.rejected /\ s.notStored
  ELSE s.view # None /\ s.view.id = s.intent

\* A 404 proves that nothing was stored only after the server refused the request.
Missing(s) == IF s.rejected THEN [s EXCEPT !.notStored = TRUE] ELSE s

\* What the evidence panels (v.id is another record, or the intent's own) and the
\* recheck panels do with a record opened from the history.
OpenRecheck(s, v) == [s EXCEPT !.view = v, !.consent = FALSE]
OpenRecord(s, v) ==
  IF v.id = s.intent
  THEN [s EXCEPT !.view = v, !.uncertain = FALSE, !.notStored = FALSE]
  ELSE [s EXCEPT !.view = v]

-----------------------------------------------------------------------------
(* SourceForestRecheckPanel, SourceDeterministicRecheckPanel: a failed      *)
(* reload of the history after the answer changes nothing.                  *)

ForestLaunches(s) == s.intent = None /\ s.consent
EveryErrorRefuses(s, a, v) ==
  IF a = "row" THEN [Accept(s, v) EXCEPT !.work = "list"]
  ELSE Idle([s EXCEPT !.rejected = TRUE])
ForestAnswered(s, a, v) ==
  IF a = "row" THEN [Accept(s, v) EXCEPT !.work = "list"]
  ELSE Idle([s EXCEPT !.rejected = a \in Definite \cup {"unavailable"}])
ForestRead(s, a, v) ==
  IF a = "row" THEN Idle([Accept(s, v) EXCEPT !.notStored = FALSE])
  ELSE IF a = "missing" THEN Idle(Missing(s)) ELSE Idle(s)
ForestResets(s) == s.intent # None /\ RecheckResets(s)

DeterministicLaunches(s) == s.intent = None /\ s.consent
DeterministicAnswered(s, a, v) ==
  IF a = "row" THEN [Accept(s, v) EXCEPT !.work = "list"]
  ELSE Idle([s EXCEPT !.rejected = a \in Definite \cup {"unavailable"}])
DeterministicRead(s, a, v) ==
  IF a = "row" THEN Idle([Accept(s, v) EXCEPT !.notStored = FALSE])
  ELSE IF a = "missing" THEN Idle(Missing(s)) ELSE Idle(s)
DeterministicResets(s) == s.intent # None /\ RecheckResets(s)

(* SourceMlRecheckPanel, SourcePatchVerificationPanel: the reload of the    *)
(* history is inside the same try, and when it fails the attempt is         *)
(* uncertain again, although its row was shown.                             *)

MlLaunches(s) == s.intent = None /\ s.consent
MlFailed(s, a) ==
  Idle([s EXCEPT !.uncertain = TRUE, !.rejected = a \in Definite \cup {"unavailable"}])
MlAnswered(s, a, v) ==
  IF a = "row" THEN [Accept(s, v) EXCEPT !.work = "list"] ELSE MlFailed(s, a)
MlRead(s, a, v) ==
  IF a = "row" THEN Idle([Accept(s, v) EXCEPT !.notStored = FALSE])
  ELSE IF a = "missing" THEN Idle(Missing(s)) ELSE Idle(s)
MlResets(s) == s.intent # None /\ RecheckResets(s)

VerificationLaunches(s) == s.intent = None /\ s.consent
VerificationFailed(s, a) ==
  Idle([s EXCEPT !.uncertain = TRUE, !.rejected = a \in Definite \cup {"unavailable"}])
VerificationAnswered(s, a, v) ==
  IF a = "row" THEN [Accept(s, v) EXCEPT !.work = "list"] ELSE VerificationFailed(s, a)
\* A row does not clear notStored here.
VerificationRead(s, a, v) ==
  IF a = "row" THEN Idle(Accept(s, v))
  ELSE IF a = "missing" THEN Idle(Missing(s)) ELSE Idle(s)
\* newAttempt and clearRejected; the first leaves rejected and notStored as they are.
VerificationNew(s) ==
  [s EXCEPT !.intent = None, !.view = None, !.consent = FALSE]
VerificationResets(s) == s.intent # None /\ RecheckResets(s)
VerificationForgets(s) == IF s.rejected /\ s.notStored THEN Forget(s) ELSE VerificationNew(s)

-----------------------------------------------------------------------------
(* SourceEvidenceReportPanel and, under the report it shows,                *)
(* SourceRiskAssessmentPanel and SourceEvidenceDecisionPanel: records that  *)
(* are complete when they are stored; 503 is not a refusal here.            *)

ReportLaunches(s) == s.intent = None
ReportAnswered(s, a, v) ==
  IF a = "row" THEN [s EXCEPT !.view = v, !.uncertain = FALSE, !.work = "list"]
  ELSE Idle([s EXCEPT !.rejected = a \in Definite])
ReportRead(s, a, v) ==
  IF a = "row" THEN Idle([s EXCEPT !.view = v, !.uncertain = FALSE, !.notStored = FALSE])
  ELSE IF a = "missing" THEN Idle(Missing(s)) ELSE Idle(s)
ReportOpened(s, v) == OpenRecord(s, v)
ReportResets(s) == s.intent # None /\ RecordResets(s)

RiskLaunches(s) == s.intent = None
RiskAnswered(s, a, v) ==
  IF a = "row" THEN [s EXCEPT !.view = v, !.uncertain = FALSE, !.work = "list"]
  ELSE Idle([s EXCEPT !.rejected = a \in Definite])
RiskRead(s, a, v) ==
  IF a = "row" THEN Idle([s EXCEPT !.view = v, !.uncertain = FALSE, !.notStored = FALSE])
  ELSE IF a = "missing" THEN Idle(Missing(s)) ELSE Idle(s)
RiskOpened(s, v) == OpenRecord(s, v)
RiskResets(s) == s.intent # None /\ RecordResets(s)

DecisionLaunches(s) == s.intent = None /\ s.consent
DecisionAnswered(s, a, v) ==
  IF a = "row" THEN [s EXCEPT !.view = v, !.uncertain = FALSE, !.work = "list"]
  ELSE Idle([s EXCEPT !.rejected = a \in Definite])
DecisionRead(s, a, v) ==
  IF a = "row" THEN Idle([s EXCEPT !.view = v, !.uncertain = FALSE, !.notStored = FALSE])
  ELSE IF a = "missing" THEN Idle(Missing(s)) ELSE Idle(s)
DecisionOpened(s, v) == OpenRecord(s, v)
DecisionResets(s) == s.intent # None /\ RecordResets(s)

WorkGuards(s) == s.kind # None /\ s.work # "idle"

\* onGuardChange: while the child works or is uncertain the report panel does nothing.
Guarded(s) == s.kind # None /\ (s.work # "idle" \/ s.uncertain)

-----------------------------------------------------------------------------
(* Panels that send the same request again under the same id, and forget it *)
(* after a definite refusal of the first copy.                              *)

\* NativePatchPanel: accept and send.
NativeLaunches(s) == ~s.uncertain /\ s.consent
NativeAccepts(s, v) == Idle([s EXCEPT !.view = v, !.intent = None, !.uncertain = FALSE])
NativeAnswered(s, a, v) ==
  IF a = "row" THEN NativeAccepts(s, v)
  ELSE IF a \in Definite /\ ~s.again
  THEN Idle([s EXCEPT !.intent = None, !.uncertain = FALSE])
  ELSE Idle(s)
NativeRead(s, a, v) == IF a = "row" THEN NativeAccepts(s, v) ELSE Idle(s)

\* NativeMaterializationPanel: one record per candidate, whoever creates it; a row of
\* another request than the intent's is refused with an error.
MaterializationLaunches(s) == s.ready /\ ~s.uncertain /\ s.consent /\ s.view = None
MaterializationAccepts(s, v) ==
  [s EXCEPT !.view = v, !.intent = None, !.uncertain = FALSE, !.ready = TRUE]
MaterializationExpects(s, v) ==
  Idle(IF s.intent \in {None, v.id} THEN MaterializationAccepts(s, v) ELSE s)
MaterializationAnswered(s, a, v) ==
  IF a = "row" THEN MaterializationExpects(s, v)
  ELSE IF a \in Definite /\ ~s.again
  THEN Idle([s EXCEPT !.intent = None, !.uncertain = FALSE])
  ELSE Idle(s)
MaterializationRead(s, a, v) ==
  IF a = "row" THEN MaterializationExpects(s, v)
  ELSE IF a = "missing" THEN Idle([s EXCEPT !.ready = TRUE]) ELSE Idle(s)
\* The read that the mounted panel starts by itself, beside everything else.
MaterializationFirst(s, v) ==
  LET done == [s EXCEPT !.first = "done"] IN
  CASE s.first = "missing" -> [done EXCEPT !.ready = TRUE]
    [] s.first = "lost" -> done
    [] s.first = "row" -> MaterializationAccepts(done, v)

\* PatchPanel: the first click draws the id, every later click sends it again.
PatchLaunches(s) == s.intent = None
PatchAnswered(s, a, v) ==
  IF a = "row" THEN [s EXCEPT !.view = v, !.work = "list"]
  ELSE Idle([s EXCEPT !.uncertain = TRUE])
PatchListed(s, a) == Idle([s EXCEPT !.uncertain = a # "row"])
PatchOpened(s, v) == [s EXCEPT !.view = v, !.uncertain = FALSE]

\* ModelPatchPanel: generation, verification and decision share write and reconcile.
\* A definite refusal frees the panel, everything else needs a final row of this id.
ModelPatchLaunches(s) == s.intent = None /\ ~s.uncertain /\ s.consent
ModelPatchAccepts(s, v) ==
  Idle(IF v.final THEN [s EXCEPT !.view = v, !.intent = None, !.uncertain = FALSE]
       ELSE [s EXCEPT !.view = v])
ModelPatchAnswered(s, a, v) ==
  IF a = "row" THEN ModelPatchAccepts(s, v)
  ELSE IF a \in Definite THEN Idle([s EXCEPT !.intent = None, !.uncertain = FALSE])
  ELSE Idle(s)
ModelPatchRead(s, a, v) == IF a = "row" THEN ModelPatchAccepts(s, v) ELSE Idle(s)

\* ConfigurationModelPanel: one run per mounted panel; the intent is never forgotten.
ConfigModelLaunches(s) == s.intent = None /\ s.consent
ConfigModelAnswered(s, a, v) == Idle(IF a = "row" THEN [s EXCEPT !.view = v] ELSE s)
ConfigModelRead(s, a, v) == Idle(IF a = "row" THEN [s EXCEPT !.view = v] ELSE s)

-----------------------------------------------------------------------------
(* The handler of each panel.                                               *)

Launches(s) ==
  CASE s.kind = "forest" -> ForestLaunches(s)
    [] s.kind = "deterministic" -> DeterministicLaunches(s)
    [] s.kind = "ml" -> MlLaunches(s)
    [] s.kind = "verification" -> VerificationLaunches(s)
    [] s.kind = "report" -> ReportLaunches(s)
    [] s.kind = "risk" -> RiskLaunches(s)
    [] s.kind = "decision" -> DecisionLaunches(s)
    [] s.kind = "native" -> NativeLaunches(s)
    [] s.kind = "materialization" -> MaterializationLaunches(s)
    [] s.kind = "patch" -> PatchLaunches(s)
    [] s.kind = "modelpatch" -> ModelPatchLaunches(s)
    [] s.kind = "configmodel" -> ConfigModelLaunches(s)

Answered(s, a, v) ==
  CASE s.kind = "forest" -> ForestAnswered(s, a, v)
    [] s.kind = "deterministic" -> DeterministicAnswered(s, a, v)
    [] s.kind = "ml" -> MlAnswered(s, a, v)
    [] s.kind = "verification" -> VerificationAnswered(s, a, v)
    [] s.kind = "report" -> ReportAnswered(s, a, v)
    [] s.kind = "risk" -> RiskAnswered(s, a, v)
    [] s.kind = "decision" -> DecisionAnswered(s, a, v)
    [] s.kind = "native" -> NativeAnswered(s, a, v)
    [] s.kind = "materialization" -> MaterializationAnswered(s, a, v)
    [] s.kind = "patch" -> PatchAnswered(s, a, v)
    [] s.kind = "modelpatch" -> ModelPatchAnswered(s, a, v)
    [] s.kind = "configmodel" -> ConfigModelAnswered(s, a, v)

Read(s, a, v) ==
  CASE s.kind = "forest" -> ForestRead(s, a, v)
    [] s.kind = "deterministic" -> DeterministicRead(s, a, v)
    [] s.kind = "ml" -> MlRead(s, a, v)
    [] s.kind = "verification" -> VerificationRead(s, a, v)
    [] s.kind = "report" -> ReportRead(s, a, v)
    [] s.kind = "risk" -> RiskRead(s, a, v)
    [] s.kind = "decision" -> DecisionRead(s, a, v)
    [] s.kind = "native" -> NativeRead(s, a, v)
    [] s.kind = "materialization" -> MaterializationRead(s, a, v)
    [] s.kind = "modelpatch" -> ModelPatchRead(s, a, v)
    [] s.kind = "configmodel" -> ConfigModelRead(s, a, v)

\* The reload of the history after the answer.
Listed(s, a) ==
  CASE s.kind = "ml" /\ a # "row" -> MlFailed(s, a)
    [] s.kind = "verification" /\ a # "row" -> VerificationFailed(s, a)
    [] s.kind = "patch" -> PatchListed(s, a)
    [] OTHER -> Idle(s)

Opened(s, v) ==
  CASE s.kind = "report" -> ReportOpened(s, v)
    [] s.kind = "risk" -> RiskOpened(s, v)
    [] s.kind = "decision" -> DecisionOpened(s, v)
    [] s.kind = "patch" -> PatchOpened(s, v)
    [] s.kind \in {"native", "modelpatch"} ->
         IF s.uncertain THEN s ELSE [s EXCEPT !.view = v]
    [] s.kind = "configmodel" -> [s EXCEPT !.view = v]
    [] s.kind = "materialization" -> s
    [] OTHER -> OpenRecheck(s, v)

Resets(s) ==
  CASE s.kind = "forest" -> ForestResets(s)
    [] s.kind = "deterministic" -> DeterministicResets(s)
    [] s.kind = "ml" -> MlResets(s)
    [] s.kind = "verification" -> VerificationResets(s)
    [] s.kind = "report" -> ReportResets(s)
    [] s.kind = "risk" -> RiskResets(s)
    [] s.kind = "decision" -> DecisionResets(s)
    [] OTHER -> FALSE

Reset(s) == IF s.kind = "verification" THEN VerificationForgets(s) ELSE Forget(s)

-----------------------------------------------------------------------------
(* The engineer at the panel.                                               *)

\* operation: the lock of the panel, what its parent does, and what its child does.
Free(p) ==
  /\ pane[p].kind # None
  /\ pane[p].work = "idle"
  /\ IF p = "panel" THEN ~Guarded(pane["child"]) ELSE pane["panel"].work = "idle"

\* A child is mounted with the report that is shown, under a key of that report.
WithChild(s) ==
  [pane EXCEPT !["panel"] = s,
               !["child"] = IF pane["child"].kind = None \/ s.view = pane["panel"].view
                            THEN pane["child"]
                            ELSE Fresh(pane["child"].kind)]
Put(p, s) == pane' = IF p = "panel" THEN WithChild(s) ELSE [pane EXCEPT ![p] = s]

MayMount(p) == p = "child" => pane["panel"].view # None

Consent(p) ==
  /\ Free(p) /\ MayMount(p)
  /\ pane[p].intent = None /\ ~pane[p].consent
  /\ Put(p, [pane[p] EXCEPT !.consent = TRUE])
  /\ UNCHANGED <<mount, row, post, owner>>

Launch(p, i) ==
  /\ Free(p) /\ MayMount(p)
  /\ Launches(pane[p])
  /\ post[i] = "new" /\ \A j \in Ids : j < i => post[j] # "new"
  /\ Put(p, Send(pane[p], i))
  /\ post' = [post EXCEPT ![i] = "sent"]
  /\ owner' = [owner EXCEPT ![i] = <<p, mount>>]
  /\ UNCHANGED <<mount, row>>

\* The panels of Replaying offer to send the intent again.
Replay(p) ==
  LET i == pane[p].intent IN
  /\ Free(p)
  /\ pane[p].kind \in Replaying /\ i # None
  /\ pane[p].kind = "patch" \/ pane[p].uncertain
  /\ Put(p, [pane[p] EXCEPT !.work = "post", !.site = i, !.again = TRUE, !.consent = FALSE])
  /\ post' = [post EXCEPT ![i] = "sent"]
  /\ UNCHANGED <<mount, row, owner>>

\* reconcile reads the intent by its id; the materialization of a candidate is read
\* whoever created it.
Reconcile(p) ==
  /\ Free(p)
  /\ pane[p].kind # "patch"
  /\ pane[p].intent # None \/ pane[p].kind = "materialization"
  /\ Put(p, [pane[p] EXCEPT !.work = "read", !.site = pane[p].intent])
  /\ UNCHANGED <<mount, row, post, owner>>

Open(p, i) ==
  /\ Free(p) /\ MayMount(p)
  /\ i \in Stored
  /\ IF i = 0 THEN p = "panel" ELSE owner[i][1] = p
  /\ Put(p, Opened(pane[p], Shown(i)))
  /\ UNCHANGED <<mount, row, post, owner>>

ResetPanel(p) ==
  /\ Free(p)
  /\ Resets(pane[p])
  /\ Put(p, Reset(pane[p]))
  /\ UNCHANGED <<mount, row, post, owner>>

\* Another draft is opened, the session ends, or the page is left: the answers of what is
\* under way reach nobody.
Remount ==
  /\ mount < MaxMounts
  /\ mount' = mount + 1
  /\ pane' = [p \in Slots |-> Fresh(pane[p].kind)]
  /\ UNCHANGED <<row, post, owner>>

-----------------------------------------------------------------------------
(* The answers.                                                             *)

\* A copy of a request that is still being served finds the row it has reserved.
RowOf(i) == post[i] = "row" \/ (post[i] = "sent" /\ row[i] # "none")

Respond(p, a) ==
  LET s == pane[p] IN
  /\ s.work = "post"
  /\ \/ a = "row" /\ RowOf(s.site)
     \/ a \in {"refused", "unavailable"} /\ post[s.site] = a
     \/ a = "lost"
  /\ Put(p, Answered(s, a, Shown(s.site)))
  /\ UNCHANGED <<mount, row, post, owner>>

\* The server reads the row now; the answer arrives later.
Fetch(p) ==
  LET s == pane[p]
      sought == IF s.kind = "materialization" THEN Stored
                ELSE Stored \cap {s.site}
  IN
  /\ s.work = "read" /\ s.got = None
  /\ pane' = [pane EXCEPT ![p].got =
                IF sought = {} THEN NoRow ELSE Shown(CHOOSE i \in sought : TRUE)]
  /\ UNCHANGED <<mount, row, post, owner>>

Deliver(p) ==
  LET s == pane[p] IN
  /\ s.work = "read" /\ s.got # None
  /\ Put(p, Read(s, IF s.got = NoRow THEN "missing" ELSE "row", s.got))
  /\ UNCHANGED <<mount, row, post, owner>>

FetchFirst(p) ==
  /\ pane[p].first = "asked"
  /\ \E a \in {"lost", IF Stored = {} THEN "missing" ELSE "row"} :
       pane' = [pane EXCEPT ![p].first = a]
  /\ UNCHANGED <<mount, row, post, owner>>

DeliverFirst(p) ==
  /\ pane[p].first \notin {None, "asked", "done"}
  /\ \E i \in IF Stored = {} THEN {0} ELSE Stored :
       Put(p, MaterializationFirst(pane[p], Shown(i)))
  /\ UNCHANGED <<mount, row, post, owner>>

ReadFails(p) ==
  /\ pane[p].work = "read"
  /\ Put(p, Read(pane[p], "lost", NoRow))
  /\ UNCHANGED <<mount, row, post, owner>>

Relist(p, a) ==
  /\ pane[p].work = "list"
  /\ Put(p, Listed(pane[p], a))
  /\ UNCHANGED <<mount, row, post, owner>>

-----------------------------------------------------------------------------
(* The server.                                                              *)

KindOf(i) == IF owner[i] = None THEN None ELSE pane[owner[i][1]].kind

Store(i) ==
  /\ post[i] = "sent" /\ row[i] = "none"
  /\ KindOf(i) = "materialization" => Stored = {}
  /\ row' = [row EXCEPT ![i] = IF KindOf(i) \in Attempts THEN "pending" ELSE "final"]
  /\ UNCHANGED <<pane, mount, post, owner>>

Complete(i) ==
  /\ post[i] = "sent" /\ row[i] = "pending"
  /\ row' = [row EXCEPT ![i] = "final"]
  /\ UNCHANGED <<pane, mount, post, owner>>

Serve(i, a) ==
  /\ post[i] = "sent"
  /\ \/ a = "row" /\ row[i] = "final"
     \/ a = "refused" /\ row[i] = "none"
     \/ a = "unavailable"
  /\ post' = [post EXCEPT ![i] = a]
  /\ UNCHANGED <<pane, mount, row, owner>>

\* Another engineer creates the materialization of the same candidate.
StoreOther ==
  /\ pane["panel"].kind = "materialization" /\ Stored = {}
  /\ row' = [row EXCEPT ![0] = "final"]
  /\ UNCHANGED <<pane, mount, post, owner>>

-----------------------------------------------------------------------------
PanelInit ==
  /\ \E k \in Kinds :
       /\ pane = [p \in Slots |->
                    IF p = "panel" THEN Fresh(k[1])
                    ELSE IF k[2] = None THEN Fresh(None) ELSE Fresh(k[2])]
       /\ row = [i \in Ids \cup {0} |->
                   IF i = 0 /\ k[1] # "materialization" THEN "final" ELSE "none"]
  /\ mount = 1
  /\ post = [i \in Ids |-> "new"]
  /\ owner = [i \in Ids |-> None]

PanelNext ==
  \/ \E p \in Slots :
       \/ Consent(p) \/ Replay(p) \/ Reconcile(p) \/ ResetPanel(p)
       \/ Fetch(p) \/ Deliver(p) \/ ReadFails(p) \/ FetchFirst(p) \/ DeliverFirst(p)
       \/ \E i \in Ids : Launch(p, i)
       \/ \E i \in Ids \cup {0} : Open(p, i)
       \/ \E a \in Answers : Respond(p, a) \/ Relist(p, a)
  \/ \E i \in Ids : Store(i) \/ Complete(i) \/ \E a \in Answers : Serve(i, a)
  \/ StoreOther
  \/ Remount

PanelSpec == PanelInit /\ [][PanelNext]_panelVars

-----------------------------------------------------------------------------
(* Properties.                                                              *)

\* While the server may still carry out an attempt of a mounted panel, the panel lets nobody
\* start another one, whatever answers were lost and however early the attempt was read.
UnderWay(i) == post[i] = "sent" /\ row[i] # "final"
OneAttemptAtATime ==
  \A i \in Ids :
    UnderWay(i) /\ owner[i][2] = mount =>
      ~Launches([pane[owner[i][1]] EXCEPT !.consent = TRUE])

\* As long as it is mounted, a panel forgets only an attempt that is settled: refused and
\* never stored, stored as final, or made impossible by another record of the candidate.
\* The report a decision or an assessment is about is not exchanged under it either.
Settled(i) ==
  \/ post[i] \in {"refused", "unavailable"} /\ row[i] = "none"
  \/ row[i] = "final"
  \/ KindOf(i) = "materialization" /\ Stored # {}
ForgetsOnlySettled ==
  [][\A p \in Slots :
       LET i == pane[p].intent IN
       mount' = mount /\ i # None /\ pane'[p].intent # i => Settled(i)]_panelVars

(* The inductive invariant behind them.                                     *)

View == [id : Ids \cup {0}, final : BOOLEAN]
Pane ==
  [kind : Alone \cup {"report", "risk", "decision", None},
   work : {"idle", "post", "read", "list"}, site : Ids \cup {None},
   got : View \cup {NoRow, None}, intent : Ids \cup {None}, view : View \cup {None},
   uncertain : BOOLEAN, rejected : BOOLEAN, notStored : BOOLEAN, consent : BOOLEAN,
   again : BOOLEAN, first : {None, "asked", "missing", "lost", "row", "done"},
   ready : BOOLEAN]

PanelTypes ==
  /\ pane \in [Slots -> Pane] /\ mount \in Nat
  /\ row \in [Ids \cup {0} -> {"none", "pending", "final"}]
  /\ post \in [Ids -> {"new", "sent", "row", "refused", "unavailable"}]
  /\ owner \in [Ids -> (Slots \X Nat) \cup {None}]

\* What the server says of a request is true of its row.
RequestInv(i) ==
  /\ post[i] = "new" <=> owner[i] = None
  /\ post[i] = "new" => row[i] = "none"
  /\ post[i] = "row" => row[i] = "final"
  /\ post[i] = "refused" => row[i] = "none"
  /\ owner[i] # None => owner[i][2] <= mount /\ pane[owner[i][1]].kind # None
  /\ row[i] = "pending" => KindOf(i) \in Attempts

NeverStored(i) == post[i] \in {"refused", "unavailable"} /\ row[i] = "none"
Answering(i) == post[i] \in {"refused", "unavailable"} \/ row[i] # "none"

\* A row that a panel of this kind was shown.
Seen(kind, v) ==
  /\ row[v.id] # "none" /\ (v.final => row[v.id] = "final")
  /\ kind \notin Attempts => v.final

\* The attempt a panel awaits is the one it intends; the materialization of a candidate may
\* have been shown meanwhile, and can be read without an intent.
SiteInv(p, s) ==
  IF s.kind = "materialization"
  THEN /\ s.work # "list"
       /\ s.work = "post" => /\ s.site # None /\ owner[s.site] = <<p, mount>>
                             /\ s.intent = s.site \/ (s.intent = None /\ s.view # None)
  ELSE /\ s.work # "idle" => s.site # None /\ s.intent = s.site
       /\ s.got \notin {None, NoRow} => s.got.id = s.site
       /\ s.first = None

\* Certainty, refusals and missing rows are those of the attempt that is intended.
IntentInv(p, s) ==
  s.intent # None =>
    /\ owner[s.intent] = <<p, mount>>
    /\ ~s.uncertain /\ s.kind # "patch" => row[s.intent] = "final"
    /\ s.rejected => Answering(s.intent)
    /\ s.notStored => NeverStored(s.intent)
    /\ s.rejected /\ s.got = NoRow => NeverStored(s.intent)
    /\ s.work = "list" => row[s.intent] # "none"

PaneInv(p, s) ==
  /\ SiteInv(p, s) /\ IntentInv(p, s)
  /\ s.view # None => Seen(s.kind, s.view)
  /\ s.got \notin {None, NoRow} => Seen(s.kind, s.got)
  /\ IF s.work = "read" THEN s.kind # "patch" ELSE s.got = None
  /\ s.kind \in Replaying => ~s.rejected /\ ~s.notStored
  /\ s.first = "row" => Stored # {}
  /\ \A i \in Ids :
       UnderWay(i) /\ owner[i] = <<p, mount>> =>
         s.intent = i \/ (s.kind = "materialization" /\ s.view # None)

PanelInv ==
  /\ PanelTypes
  /\ <<pane["panel"].kind, pane["child"].kind>>
       \in (Alone \X {None}) \cup ({"report"} \X {"risk", "decision"})
  /\ row[0] # "pending"
  /\ \A i \in Ids : RequestInv(i)
  /\ \A p \in Slots : PaneInv(p, pane[p])
  /\ pane["panel"].work # "idle" => ~Guarded(pane["child"])
=============================================================================
