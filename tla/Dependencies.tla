---------------------------- MODULE Dependencies ----------------------------
(***************************************************************************)
(* "Waits on" edges between tasks: service/dependency with its handler and *)
(* repository. The search for a cycle and the insertion are two statements *)
(* of one call, and the search gives up at a fixed depth.                  *)
(***************************************************************************)
EXTENDS Integers, FiniteSets

CONSTANTS DepTasks, DepCalls, MaxDepth, NoEdge

ASSUME DependencyConstants ==
    /\ MaxDepth \in Nat \ {0}
    /\ NoEdge \notin DepTasks \X DepTasks

VARIABLES
    waitsOn,    \* table task_dependencies: the pairs <<task, depends on>>
    checked,    \* the edge a call has found harmless and will insert, or NoEdge
    depRace     \* history: an edge was inserted while another was checked

depVars == <<waitsOn, checked, depRace>>

DepTypeOK ==
    /\ waitsOn \in SUBSET (DepTasks \X DepTasks)
    /\ checked \in [DepCalls -> DepTasks \X DepTasks \cup {NoEdge}]
    /\ depRace \in BOOLEAN

DepInit ==
    /\ waitsOn = {}
    /\ checked = [c \in DepCalls |-> NoEdge]
    /\ depRace = FALSE

WaitingOn(t) == {u \in DepTasks : <<t, u>> \in waitsOn}

\* The tasks at most n edges away: the recursive query, cut off at its depth.
Within(t, n) ==
    LET reach[d \in 1..n] ==
          IF d = 1 THEN WaitingOn(t)
          ELSE reach[d - 1] \cup UNION {WaitingOn(u) : u \in reach[d - 1]}
    IN  reach[n]

\* Mutated form: the search stops one edge early.
WouldCreateCycleShort(t, u) ==
    t = u \/ t \in Within(u, IF MaxDepth > 1 THEN MaxDepth - 1 ELSE 1)

WouldCreateCycle(t, u) == t = u \/ t \in Within(u, MaxDepth)

\* First half of Create: nothing is written yet.
CheckDependency(c, t, u) ==
    /\ checked[c] = NoEdge
    /\ ~WouldCreateCycle(t, u)
    /\ checked' = [checked EXCEPT ![c] = <<t, u>>]
    /\ UNCHANGED <<waitsOn, depRace>>

\* Second half: an edge that exists already keeps its place (upsert).
InsertDependency(c) ==
    /\ checked[c] # NoEdge
    /\ waitsOn' = waitsOn \cup {checked[c]}
    /\ checked' = [checked EXCEPT ![c] = NoEdge]
    /\ depRace' = (depRace \/ \E d \in DepCalls \ {c} : checked[d] # NoEdge)

FailDependency(c) ==
    /\ checked[c] # NoEdge
    /\ checked' = [checked EXCEPT ![c] = NoEdge]
    /\ UNCHANGED <<waitsOn, depRace>>

RemoveDependency(t, u) ==
    /\ waitsOn' = waitsOn \ {<<t, u>>}
    /\ UNCHANGED <<checked, depRace>>

PostDependency == \E c \in DepCalls, t, u \in DepTasks : CheckDependency(c, t, u)

DeleteDependency == \E t, u \in DepTasks : <<t, u>> \in waitsOn /\ RemoveDependency(t, u)

\* ON DELETE CASCADE on both ends of the edge. The task is gone, so a checked
\* edge that names it fails on its foreign key.
DropTask(t) ==
    /\ waitsOn' = {e \in waitsOn : t \notin {e[1], e[2]}}
    /\ checked' = [c \in DepCalls |->
         IF checked[c] # NoEdge /\ t \in {checked[c][1], checked[c][2]}
         THEN NoEdge ELSE checked[c]]
    /\ UNCHANGED depRace

DepNext ==
    \/ PostDependency \/ DeleteDependency
    \/ \E c \in DepCalls : InsertDependency(c) \/ FailDependency(c)
    \/ \E t \in DepTasks : DropTask(t)

DepSpec == DepInit /\ [][DepNext]_depVars

-----------------------------------------------------------------------------
\* While no insertion overlapped another call's check, every cycle is longer than
\* the search is deep: nothing shorter is ever closed, whatever was removed or
\* rewritten before. (A cycle of more than MaxDepth + 1 tasks is not noticed.)
NoShortCycle ==
    depRace \/ \A t \in DepTasks : t \notin Within(t, MaxDepth + 1)

=============================================================================
