----------------------------- MODULE MCPlanning -----------------------------
(***************************************************************************)
(* The planning services side by side, for TLC. They share no row that any *)
(* of them writes for another, so a behaviour is taken up by one of them:  *)
(* Init chooses which, and the bounds of each can be its own. Sprints are  *)
(* taken up twice: two of them with calls that overlap, and three of them, *)
(* so that a closing has a choice, without.                                *)
(***************************************************************************)
EXTENDS Timers, Dependencies, Sprints, Progress, TLC

CONSTANT Spare \* the third sprint

VARIABLE service

Amounts == {-1, 1, 2}

planningVars == <<service, timerVars, depVars, sprintVars, progressVars>>

PlanningInit ==
    /\ service \in {"timeentry", "dependency", "sprint", "sprints", "goal", "target", "milestone"}
    /\ TimerInit /\ DepInit /\ SprintInit /\ ProgressInit

\* Bound: nothing is claimed once two calls on sprints have overlapped, so nothing more
\* is explored then.
TwoSprints == ~sprintRace /\ sprint'[Spare] = NONE
\* Bound: calls do not overlap; an edit makes no row that creation does not make; no
\* task is completed, as what is moved matters less here than where to.
ThreeSprints ==
    /\ ~sprintRace' /\ finished' = {}
    /\ \A c \in SprintCalls : closing'[c] # NONE => closing'[c].step # "edit"

\* Bound: one goal at a time, and one update, of a target; no property is about two.
OneTargetUpdate ==
    /\ Cardinality(DOMAIN goal') <= 1
    /\ \A g \in DOMAIN goal' : goal'[g] = [parent |-> NIL, archived |-> FALSE]
    /\ \A c, d \in ProgressCalls : patching'[c] # NIL /\ patching'[d] # NIL => c = d
    /\ \A c \in ProgressCalls : patching'[c] # NIL => patching'[c].on = "target"

PlanningNext ==
    /\ UNCHANGED service
    /\ \/ /\ service = "timeentry" /\ TimerNext
          /\ UNCHANGED <<depVars, sprintVars, progressVars>>
       \/ /\ service = "dependency" /\ DepNext
          /\ UNCHANGED <<timerVars, sprintVars, progressVars>>
       \/ /\ SprintNext
          /\ \/ service = "sprint" /\ TwoSprints
             \/ service = "sprints" /\ ThreeSprints
          /\ UNCHANGED <<timerVars, depVars, progressVars>>
       \/ /\ \/ service = "goal" /\ GoalNext
             \/ service = "target" /\ (GoalNext \/ TargetNext \/ TasksNext) /\ OneTargetUpdate
             \/ service = "milestone" /\ (MilestoneNext \/ PortfolioNext \/ TasksNext)
          /\ UNCHANGED <<timerVars, depVars, sprintVars>>

PlanningSpec == PlanningInit /\ [][PlanningNext]_planningVars

\* Only identity matters of these; the sets share their two values, so that one
\* exchange serves all of them.
Interchangeable == Permutations(Entries)
=============================================================================
