------------------------------- MODULE Timers -------------------------------
(***************************************************************************)
(* Time entries: service/timeentry with its handler and repository.        *)
(* A call that reads rows and writes them back later runs in several steps, *)
(* so the calls of one user may interleave.                                *)
(***************************************************************************)
EXTENDS Integers, FiniteSets, FiniteSetsExt

CONSTANTS Users, Entries, TimerCalls, MaxTime, NULL, GONE,
    GivenTimes,       \* the start and stop times a request may carry
    GivenDurations    \* the durations a request may carry

ASSUME TimerConstants ==
    /\ MaxTime \in Nat
    /\ IsFiniteSet(Entries)
    /\ NULL # GONE
    /\ NULL \notin Int
    /\ GivenTimes \subseteq 0..MaxTime \cup {NULL}
    /\ GivenDurations \subseteq Nat \cup {NULL}

VARIABLES
    clock,      \* the time the server reads, counted up to MaxTime
    entry,      \* table time_entries: NULL before, GONE after a row's life
    timing,     \* the calls in flight: NULL or their progress
    crossed,    \* history: users two of whose calls were in flight together
    byHand      \* history: entries logged or edited by hand

timerVars == <<clock, entry, timing, crossed, byHand>>

Times == 0..MaxTime
Row == [user: Users, start: Times, stop: Times \cup {NULL}, dur: Int \cup {NULL}]

\* A call in flight: its user, the copies it has still to write back, its kind.
TimerCall == [user: Users, copy: [Entries -> Row \cup {NULL}],
              kind: {"start", "stop", "edit"}]

ASSUME TimerMarkers == NULL \notin Row

TimerTypeOK ==
    /\ clock \in Times
    /\ entry \in [Entries -> Row \cup {NULL, GONE}]
    /\ timing \in [TimerCalls -> TimerCall \cup {NULL}]
    /\ crossed \in SUBSET Users
    /\ byHand \in SUBSET Entries

TimerInit ==
    /\ clock = 0
    /\ entry = [e \in Entries |-> NULL]
    /\ timing = [c \in TimerCalls |-> NULL]
    /\ crossed = {}
    /\ byHand = {}

-----------------------------------------------------------------------------
(* Statements of the repository.                                           *)

Live == {e \in Entries : entry[e] \notin {NULL, GONE}}

InsertEntry(e, row) == entry[e] = NULL /\ entry' = [entry EXCEPT ![e] = row]

\* The statement sets every column but started_at, and misses a deleted row.
UpdateEntry(e, row) ==
    entry' = IF e \notin Live THEN entry
             ELSE [entry EXCEPT ![e] = [row EXCEPT !.start = entry[e].start]]

\* Mutated form: only timers started at this very moment are found.
ActiveForUserFirst(u) ==
    {e \in Live : entry[e].user = u /\ entry[e].stop = NULL /\ entry[e].start = clock}

ActiveForUser(u) == {e \in Live : entry[e].user = u /\ entry[e].stop = NULL}

\* The seconds a user has spent on the entries ids: running ones do not count.
Report(u, ids) ==
    MapThenSumSet(LAMBDA e : entry[e].dur,
        {e \in ids \cap Live : entry[e].user = u /\ NULL \notin {entry[e].stop, entry[e].dur}})

-----------------------------------------------------------------------------
(* The service.                                                            *)

\* A call starts with copies of rows, some of them edited already.
Begin(c, u, kind, rows) ==
    /\ timing[c] = NULL
    /\ timing' = [timing EXCEPT ![c] =
         [user |-> u, kind |-> kind,
          copy |-> [e \in Entries |-> IF e \in DOMAIN rows THEN rows[e] ELSE NULL]]]
    /\ crossed' = IF \E d \in TimerCalls : timing[d] # NULL /\ timing[d].user = u
                  THEN crossed \cup {u} ELSE crossed
    /\ UNCHANGED <<clock, entry, byHand>>

Copies(c) == {e \in Entries : timing[c].copy[e] # NULL}

\* Mutated form: the duration does not begin with the entry.
finalizeFromZero(row) == [row EXCEPT !.stop = clock, !.dur = clock + 1]

finalize(row) ==
    [row EXCEPT !.stop = clock, !.dur = clock - row.start]

\* The running entries are read first; the new one is inserted last.
StartTimer(c, u) == Begin(c, u, "start", [e \in ActiveForUser(u) |-> entry[e]])

\* One round of the loop, which is also the write of StopTimer. An entry that
\* starts in the future cannot be finalized and ends the call.
stopAllActive(c) ==
    /\ timing[c] # NULL /\ timing[c].kind # "edit"
    /\ \E e \in Copies(c) :
         IF clock < timing[c].copy[e].start
         THEN timing' = [timing EXCEPT ![c] = NULL] /\ UNCHANGED entry
         ELSE /\ UpdateEntry(e, finalize(timing[c].copy[e]))
              /\ timing' = [timing EXCEPT ![c] =
                   IF timing[c].kind = "stop" THEN NULL ELSE [@ EXCEPT !.copy[e] = NULL]]
    /\ UNCHANGED <<clock, crossed, byHand>>

OpenTimer(c) ==
    /\ timing[c] # NULL /\ timing[c].kind = "start"
    /\ Copies(c) = {}
    /\ \E e \in Entries :
         InsertEntry(e, [user |-> timing[c].user, start |-> clock, stop |-> NULL,
                         dur |-> NULL])
    /\ timing' = [timing EXCEPT ![c] = NULL]
    /\ UNCHANGED <<clock, crossed, byHand>>

\* Only the owner stops an entry; a stopped one is returned as it is.
StopTimer(c, u, e) ==
    e \in ActiveForUser(u) /\ Begin(c, u, "stop", [i \in {e} |-> entry[i]])

CreateManual(u, start, stop, d) ==
    /\ stop # NULL /\ d = NULL => stop >= start
    /\ \E e \in Entries :
         /\ InsertEntry(e, [user |-> u, start |-> start, stop |-> stop,
                            dur |-> IF stop # NULL /\ d = NULL THEN stop - start ELSE d])
         /\ byHand' = byHand \cup {e}
    /\ UNCHANGED <<clock, timing, crossed>>

\* Mutated form: a request without a stop clears it.
EditedClears(row, start, stop, d) == [row EXCEPT !.stop = stop]

\* The row Update will write; NULL is a field the request leaves out.
Edited(row, start, stop, d) ==
    LET from == IF start = NULL THEN row.start ELSE start
        to   == IF stop = NULL THEN row.stop ELSE stop
    IN  [row EXCEPT !.start = from, !.stop = to,
                    !.dur = IF d = NULL /\ to # NULL THEN to - from
                            ELSE IF d # NULL THEN d ELSE row.dur]

Update(c, u, e, start, stop, d) ==
    /\ e \in Live /\ entry[e].user = u
    /\ Begin(c, u, "edit", [i \in {e} |-> Edited(entry[e], start, stop, d)])

WriteEdit(c) ==
    /\ timing[c] # NULL /\ timing[c].kind = "edit"
    /\ \E e \in Copies(c) :
         UpdateEntry(e, timing[c].copy[e]) /\ byHand' = byHand \cup {e}
    /\ timing' = [timing EXCEPT ![c] = NULL]
    /\ UNCHANGED <<clock, crossed>>

\* Delete does not ask whose entry it is.
DeleteEntry(e) ==
    /\ e \in Live
    /\ entry' = [entry EXCEPT ![e] = GONE]
    /\ UNCHANGED <<clock, timing, crossed, byHand>>

\* A statement fails: the call ends with what it has written so far.
FailTimerCall(c) ==
    /\ timing[c] # NULL
    /\ timing' = [timing EXCEPT ![c] = NULL]
    /\ UNCHANGED <<clock, entry, crossed, byHand>>

-----------------------------------------------------------------------------
(* The handler: the caller is the user the token names, the rest of the    *)
(* request is free.                                                        *)

PostTimerStart == \E c \in TimerCalls, u \in Users : StartTimer(c, u)

PostTimerStop == \E c \in TimerCalls, u \in Users, e \in Entries : StopTimer(c, u, e)

PostTimeEntry ==
    \E u \in Users, start \in GivenTimes \ {NULL}, stop \in GivenTimes, d \in GivenDurations :
        CreateManual(u, start, stop, d)

PatchTimeEntry ==
    \E c \in TimerCalls, u \in Users, e \in Entries, d \in GivenDurations,
       start \in GivenTimes, stop \in GivenTimes :
        Update(c, u, e, start, stop, d)

DeleteTimeEntry == \E e \in Entries : DeleteEntry(e)

TimePasses ==
    /\ clock < MaxTime
    /\ clock' = clock + 1
    /\ UNCHANGED <<entry, timing, crossed, byHand>>

TimerNext ==
    \/ PostTimerStart \/ PostTimerStop \/ PostTimeEntry
    \/ PatchTimeEntry \/ DeleteTimeEntry \/ TimePasses
    \/ \E c \in TimerCalls : stopAllActive(c) \/ OpenTimer(c) \/ WriteEdit(c)
                             \/ FailTimerCall(c)

TimerSpec == TimerInit /\ [][TimerNext]_timerVars

-----------------------------------------------------------------------------
(* Properties.                                                             *)

\* A user none of whose calls overlapped has at most one running timer, the
\* entries made or edited by hand aside: StartTimer stops all it finds before it
\* inserts, and a call that fails half way leaves fewer, never more.
SingleTimer ==
    \A u \in Users \ crossed : \A e, f \in Live \ byHand :
        entry[e].user = u /\ entry[e].stop = NULL /\ entry[f].user = u /\ entry[f].stop = NULL
            => e = f

\* The timers of such a user never add up to more than the time that has passed:
\* no second is counted twice, whatever is stopped, restarted or deleted.
NoSecondTwice ==
    \A u \in Users \ crossed : Report(u, Entries \ byHand) <= clock

\* An entry that was stopped stays stopped; only a call that overlaps another one
\* of its owner writes an older, running copy over it.
StopIsFinal ==
    [][\A e \in Live : entry[e].stop # NULL /\ entry'[e] # GONE
            /\ entry[e].user \notin crossed => entry'[e].stop # NULL]_timerVars

=============================================================================
