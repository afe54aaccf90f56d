---------------------------- MODULE MCAutomation -----------------------------
(* Users, the rule worker and recurring tasks on a small board: what the       *)
(* constants of AutomationEngine stand for in each run.                        *)
EXTENDS AutomationEngine, TLC

CONSTANTS k1, k2, k3, u1, s1, s2, a1, a2, a3, c1, c2

Body(field, value) == [ChangeStatus(Keep) EXCEPT ![field] = value]
Open(rule, due) == [txt |-> "open", sid |-> NULL, done |-> FALSE, arch |-> FALSE,
                    due |-> due, rule |-> rule, root |-> NULL]

NoRules == <<>>
NoRule == [on |-> "created", to |-> NULL, user |-> NULL, lead |-> 0, acts |-> <<>>]
SetStatus(s) == [type |-> "change_status", sid |-> s]
Notify == [type |-> "notify"]

\* Completing a task assigns it; whoever is assigned has it put in the done
\* column; a task dragged to s1 is put in s1, which it is in already.
BoardRule == a1 :> [NoRule EXCEPT !.on = "completed",
                                  !.acts = <<[type |-> "assign_user", user |-> u1], Notify>>]
          @@ a2 :> [NoRule EXCEPT !.on = "assigned", !.user = u1, !.acts = <<SetStatus(s2)>>]
          @@ a3 :> [NoRule EXCEPT !.on = "changed", !.to = s1, !.acts = <<SetStatus(s1)>>]
Ages == [a \in Automation |-> IF a = a1 THEN 1 ELSE IF a = a2 THEN 2 ELSE 3]
BoardRows == k1 :> Open(TRUE, NULL) @@ k2 :> Unborn @@ k3 :> Unborn
OneRow == k1 :> Open(FALSE, NULL)
BoardEdits == {Body("txt", "completed")}
SeriesDrafts == {Open(TRUE, 0)}
SeriesEdits == {Body("txt", "completed"), Body("txt", "open")}
BoardMoves == {[txt |-> Keep, sid |-> s1]}

\* Two due-soon rules, one of which completes the task it fires for.
DueRule  == a1 :> [NoRule EXCEPT !.on = "due_soon", !.lead = 1, !.acts = <<Notify>>]
         @@ a2 :> [NoRule EXCEPT !.on = "due_soon", !.acts = <<SetStatus(s2)>>]
DueRows  == k1 :> Open(FALSE, 1)
DueEdits == {Body("due", 1), Body("due", 2), Body("txt", "open")}
DueMoves == {[txt |-> Keep, sid |-> s2]}
=============================================================================
