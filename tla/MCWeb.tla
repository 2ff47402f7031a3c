-------------------------------- MODULE MCWeb --------------------------------
(* The page does one thing to a panel, which is to mount it anew (Remount), and *)
(* a panel reaches the page only by ending the session (Disconnect).  So the    *)
(* two are played side by side, each while the other stands still.              *)
EXTENDS WebPanels

VARIABLE scene

EveryKind == (Alone \X {None}) \cup ({"report"} \X {"risk", "decision"})
TwoAttempts == 1 .. 2
TwoSessions == 1 .. 2

WebInit ==
  /\ SessionInit /\ PanelInit
  /\ scene \in {"page", "panel"}
  /\ scene = "page" => pane["panel"].kind = "forest"
WebNext ==
  /\ UNCHANGED scene
  /\ \/ scene = "page" /\ SessionNext /\ UNCHANGED panelVars
     \/ scene = "panel" /\ PanelNext /\ UNCHANGED sessionVars
WebSpec == WebInit /\ [][WebNext]_<<scene, sessionVars, panelVars>>
=============================================================================
