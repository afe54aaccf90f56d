--------------------------- MODULE PlanningProofs ---------------------------
(* Proofs about timers and what reports add up of them, about the closing of *)
(* sprints, about cycles of dependencies, and about the progress of goals.  *)
EXTENDS Timers, Sprints, Dependencies, Progress, FiniteSums

-----------------------------------------------------------------------------
(* Timers.                                                                     *)

TimerBusy(c) == timing[c] # NULL

\* Before a user's calls ever overlapped there is one of them at most.
TimersAlone ==
    \A c, d \in TimerCalls :
        TimerBusy(c) /\ TimerBusy(d) /\ timing[c].user = timing[d].user
            /\ timing[c].user \notin crossed => c = d

\* A call holds copies of its own user's entries, which may be gone by now.
CopiesOwned(c) ==
    TimerBusy(c) => \A e \in Copies(c) :
        /\ timing[c].copy[e].user = timing[c].user
        /\ e \in Live => entry[e].user = timing[c].user
        /\ entry[e] # NULL

\* Undisturbed, StartTimer has copies of all that is still running, and an edit
\* does not hold as running what has been stopped.
CopiesFresh(c) ==
    TimerBusy(c) /\ timing[c].user \notin crossed =>
        /\ timing[c].kind = "start" => ActiveForUser(timing[c].user) \ byHand \subseteq Copies(c)
        /\ timing[c].kind = "edit" =>
             \A e \in Copies(c) \cap Live :
                timing[c].copy[e].stop = NULL => entry[e].stop = NULL

TimerInv ==
    /\ TimerTypeOK
    /\ TimersAlone
    /\ \A c \in TimerCalls : CopiesOwned(c) /\ CopiesFresh(c)
    /\ SingleTimer

\* What the constants say that the provers do not find at once.
LEMMA TimesAreNumbers ==
  /\ Times \subseteq Int /\ GivenTimes \subseteq Times \cup {NULL}
  /\ GivenDurations \subseteq Int \cup {NULL} /\ NULL \notin Int /\ NULL # GONE
BY TimerConstants DEF Times

\* A call begins with copies of entries of its user.
LEMMA BeginKeeps ==
  ASSUME TimerInv, NEW c \in TimerCalls, NEW u \in Users, NEW kind \in {"start", "stop", "edit"},
         NEW rows, DOMAIN rows \subseteq ActiveForUser(u) \cup {e \in Live : entry[e].user = u},
         \A e \in DOMAIN rows : rows[e] \in Row /\ rows[e].user = u,
         kind = "start" => \A e \in ActiveForUser(u) : e \in DOMAIN rows /\ rows[e] = entry[e],
         kind = "edit" => \A e \in DOMAIN rows : rows[e].stop = NULL => entry[e].stop = NULL,
         Begin(c, u, kind, rows)
  PROVE  TimerInv'
<1> DEFINE new == [user |-> u, kind |-> kind,
                   copy |-> [e \in Entries |-> IF e \in DOMAIN rows THEN rows[e] ELSE NULL]]
<1>1. /\ timing' = [timing EXCEPT ![c] = new] /\ timing[c] = NULL
      /\ crossed \subseteq crossed'
      /\ \A d \in TimerCalls : TimerBusy(d) /\ timing[d].user = u => u \in crossed'
      /\ crossed' \in SUBSET Users
      /\ UNCHANGED <<clock, entry, byHand>>
  BY DEF Begin, TimerInv, TimerTypeOK, TimerBusy
<1>2. new \in TimerCall
  <2>1. DOMAIN rows \subseteq Entries BY DEF ActiveForUser, Live
  <2> QED BY <2>1 DEF TimerCall
<1>3. /\ new.user = u /\ new.kind = kind
      /\ \A e \in Entries : new.copy[e] = IF e \in DOMAIN rows THEN rows[e] ELSE NULL
  OBVIOUS
<1> HIDE DEF new
<1>4. /\ timing'[c] = new
      /\ \A d \in TimerCalls \ {c} : timing'[d] = timing[d]
  BY <1>1 DEF TimerInv, TimerTypeOK
<1>5. TimerTypeOK'
  BY <1>1, <1>2 DEF TimerInv, TimerTypeOK, Times
<1>6. TimersAlone'
  BY <1>1, <1>3, <1>4 DEF TimerInv, TimersAlone, TimerBusy
<1>7. /\ Live' = Live
      /\ \A v : ActiveForUser(v)' = ActiveForUser(v)
  BY <1>1 DEF Live, ActiveForUser
<1>8. ASSUME NEW d \in TimerCalls PROVE CopiesOwned(d)' /\ CopiesFresh(d)'
  <2>1. CASE d # c
    <3>1. Copies(d)' = Copies(d) BY <1>4, <2>1 DEF Copies
    <3> QED
      BY <1>1, <1>4, <1>7, <2>1, <3>1 DEF TimerInv, CopiesOwned, CopiesFresh, TimerBusy
  <2>2. CASE d = c
    <3>1. \A e \in Copies(c)' : e \in DOMAIN rows /\ new.copy[e] = rows[e]
      BY <1>3, <1>4 DEF Copies
    <3>2. \A e \in DOMAIN rows : e \in Live /\ entry[e].user = u /\ entry[e] # NULL
      BY DEF ActiveForUser, Live
    <3>3. CopiesOwned(c)'
      BY <1>1, <1>3, <1>4, <1>7, <3>1, <3>2 DEF CopiesOwned, TimerBusy
    <3>4. ASSUME kind = "start" PROVE ActiveForUser(u) \subseteq Copies(c)'
      <4>1. \A e \in ActiveForUser(u) : e \in Entries /\ entry[e] # NULL
        BY DEF ActiveForUser, Live
      <4> QED BY <1>3, <1>4, <3>4, <4>1 DEF Copies
    <3>5. CopiesFresh(c)'
      BY <1>1, <1>3, <1>4, <1>7, <3>1, <3>4 DEF CopiesFresh, TimerBusy
    <3> QED BY <2>2, <3>3, <3>5
  <2> QED BY <2>1, <2>2
<1>9. SingleTimer'
  BY <1>1, <1>7 DEF TimerInv, SingleTimer
<1> QED BY <1>5, <1>6, <1>8, <1>9 DEF TimerInv

\* A call ends and writes no row.
LEMMA EndKeeps ==
  ASSUME TimerInv, NEW c \in TimerCalls, timing' = [timing EXCEPT ![c] = NULL],
         UNCHANGED <<clock, entry, crossed, byHand>>
  PROVE  TimerInv'
<1>1. /\ timing'[c] = NULL /\ timing' \in [TimerCalls -> TimerCall \cup {NULL}]
      /\ \A d \in TimerCalls \ {c} : timing'[d] = timing[d]
  BY DEF TimerInv, TimerTypeOK
<1>2. TimerTypeOK' BY <1>1 DEF TimerInv, TimerTypeOK, Times
<1>3. Live' = Live /\ \A v : ActiveForUser(v)' = ActiveForUser(v)
  BY DEF Live, ActiveForUser
<1>4. TimersAlone' BY <1>1 DEF TimerInv, TimersAlone, TimerBusy
<1>5. ASSUME NEW d \in TimerCalls PROVE CopiesOwned(d)' /\ CopiesFresh(d)'
  <2>1. CASE d = c BY <1>1, <2>1 DEF CopiesOwned, CopiesFresh, TimerBusy
  <2>2. CASE d # c
    <3>1. Copies(d)' = Copies(d) BY <1>1, <2>2 DEF Copies
    <3> QED BY <1>1, <1>3, <2>2, <3>1 DEF TimerInv, CopiesOwned, CopiesFresh, TimerBusy
  <2> QED BY <2>1, <2>2
<1>6. SingleTimer' BY <1>3 DEF TimerInv, SingleTimer
<1> QED BY <1>2, <1>4, <1>5, <1>6 DEF TimerInv

\* A call writes one of its copies, as a row of its user, and goes on without that
\* copy or ends. The row is stopped, or it is the edited one.
LEMMA CopyWritten ==
  ASSUME TimerInv, NEW c \in TimerCalls, TimerBusy(c), NEW e \in Copies(c), NEW row \in Row,
         row.user = timing[c].user, UpdateEntry(e, row),
         \/ row.stop # NULL /\ byHand' = byHand
         \/ byHand' = byHand \cup {e},
         timing[c].kind = "edit" => timing'[c] = NULL,
         \/ timing' = [timing EXCEPT ![c] = NULL]
         \/ timing' = [timing EXCEPT ![c] = [@ EXCEPT !.copy[e] = NULL]] /\ row.stop # NULL,
         UNCHANGED <<clock, crossed>>
  PROVE  TimerInv'
<1>user. PICK u \in Users : u = timing[c].user
  BY DEF TimerInv, TimerTypeOK, TimerBusy, TimerCall
<1> DEFINE put == [row EXCEPT !.start = entry[e].start]
<1>next. PICK next : next = timing'[c] OBVIOUS
<1>1. /\ e \in Entries /\ timing[c] \in TimerCall /\ entry[e] # NULL
      /\ e \in Live => entry[e].user = u
  BY <1>user DEF Copies, TimerInv, TimerTypeOK, CopiesOwned, TimerBusy
<1>2. /\ next = NULL \/ (/\ next \in TimerCall /\ next.user = u /\ next.kind = timing[c].kind
                         /\ \A i \in Entries \ {e} : next.copy[i] = timing[c].copy[i]
                         /\ next.copy[e] = NULL /\ row.stop # NULL)
      /\ \A d \in TimerCalls \ {c} : timing'[d] = timing[d]
      /\ timing' \in [TimerCalls -> TimerCall \cup {NULL}]
  BY <1>user, <1>next, <1>1 DEF TimerInv, TimerTypeOK, TimerCall
<1>3. e \in Live => put \in Row /\ put.user = u /\ put.stop = row.stop
  <2>1. e \in Live => entry[e] \in Row BY <1>1 DEF Live, TimerInv, TimerTypeOK
  <2> QED BY <1>user, <2>1 DEF Row
<1> HIDE DEF put
<1>4. /\ \A i \in Entries \ {e} : entry'[i] = entry[i]
      /\ e \in Live => entry'[e] = put
      /\ e \notin Live => entry'[e] = entry[e]
      /\ entry' \in [Entries -> Row \cup {NULL, GONE}]
  BY <1>1, <1>3 DEF UpdateEntry, TimerInv, TimerTypeOK, put
<1>5. byHand \subseteq byHand' /\ byHand' \subseteq Entries /\ u \in Users
  BY <1>1 DEF TimerInv, TimerTypeOK, TimerCall
<1>6. /\ \A i \in Entries \ {e} : i \in Live' <=> i \in Live
      /\ e \in Live' => e \in Live
  BY <1>1, <1>4 DEF Live
<1>7. \A v \in Users \ {u} : ActiveForUser(v)' \subseteq ActiveForUser(v)
  BY <1>1, <1>3, <1>4, <1>6 DEF ActiveForUser, Live
<1>8. ActiveForUser(u)' \ byHand' \subseteq (ActiveForUser(u) \ byHand) \ {e}
  BY <1>1, <1>3, <1>4, <1>5, <1>6 DEF ActiveForUser, Live
<1>9. TimerTypeOK'
  BY <1>2, <1>4, <1>5 DEF TimerInv, TimerTypeOK, Times
<1>10. TimersAlone'
  BY <1>user, <1>next, <1>2 DEF TimerInv, TimersAlone, TimerBusy
<1>11. ASSUME NEW d \in TimerCalls PROVE CopiesOwned(d)'
  <2> SUFFICES ASSUME TimerBusy(d)', NEW i \in Copies(d)'
               PROVE  /\ timing'[d].copy[i].user = timing'[d].user
                      /\ i \in Live' => entry'[i].user = timing'[d].user
                      /\ entry'[i] # NULL
    BY DEF CopiesOwned
  <2>1. /\ TimerBusy(d) /\ i \in Copies(d) /\ i \in Entries
        /\ timing'[d].user = timing[d].user /\ timing'[d].copy[i] = timing[d].copy[i]
        /\ d = c => i # e
    BY <1>user, <1>next, <1>2 DEF TimerBusy, Copies
  <2>2. /\ timing[d].copy[i].user = timing[d].user /\ entry[i] # NULL
        /\ i \in Live => entry[i].user = timing[d].user
    BY <2>1 DEF TimerInv, CopiesOwned
  <2>3. CASE i # e BY <1>4, <1>6, <2>1, <2>2, <2>3
  <2>4. CASE i = e /\ e \notin Live BY <1>4, <1>6, <2>1, <2>2, <2>4
  <2>5. CASE i = e /\ e \in Live
    <3>1. timing[d].user = u BY <1>1, <2>2, <2>5
    <3>2. entry'[e] # NULL
      BY <1>3, <1>4, <2>5, TimerMarkers
    <3> QED BY <1>3, <1>4, <2>1, <2>2, <2>5, <3>1, <3>2
  <2> QED BY <2>3, <2>4, <2>5
<1>12. ASSUME NEW d \in TimerCalls PROVE CopiesFresh(d)'
  <2>1. CASE d = c
    <3> SUFFICES ASSUME next # NULL, u \notin crossed PROVE CopiesFresh(c)'
      BY <1>user, <1>next, <1>2, <2>1 DEF CopiesFresh, TimerBusy
    <3>1. next.kind = timing[c].kind /\ next.user = u /\ timing[c].kind # "edit"
      BY <1>user, <1>next, <1>2
    <3>2. Copies(c) \ {e} \subseteq Copies(c)'
      BY <1>user, <1>next, <1>2 DEF Copies
    <3>3. timing[c].kind = "start" => ActiveForUser(u) \ byHand \subseteq Copies(c)
      BY <1>user, <1>next DEF TimerInv, CopiesFresh
    <3> QED BY <1>user, <1>next, <1>8, <3>1, <3>2, <3>3 DEF CopiesFresh
  <2>2. CASE d # c
    <3> SUFFICES ASSUME TimerBusy(d), timing[d].user \notin crossed PROVE CopiesFresh(d)'
      BY <1>2, <2>2 DEF CopiesFresh, TimerBusy
    <3>1. timing[d].user # u /\ timing[d] \in TimerCall
      BY <1>user, <1>next, <2>2 DEF TimerInv, TimersAlone, TimerTypeOK, TimerBusy
    <3>2. Copies(d)' = Copies(d) /\ timing'[d] = timing[d]
      BY <1>2, <2>2 DEF Copies
    <3>3. \A i \in Copies(d) \cap Live' : i \in Live /\ entry'[i] = entry[i]
      BY <1>1, <1>4, <1>6, <3>1 DEF TimerInv, CopiesOwned, Copies
    <3>4. timing[d].user \in Users BY <3>1 DEF TimerCall
    <3> QED BY <1>5, <1>7, <3>1, <3>2, <3>3, <3>4 DEF TimerInv, CopiesFresh
  <2> QED BY <2>1, <2>2
<1>13. SingleTimer'
  <2> SUFFICES ASSUME NEW v \in Users \ crossed, NEW i \in (Live \ byHand)',
                      NEW j \in (Live \ byHand)',
                      entry'[i].user = v, entry'[i].stop = NULL,
                      entry'[j].user = v, entry'[j].stop = NULL
               PROVE  i = j
    BY DEF SingleTimer
  <2>1. i \in ActiveForUser(v)' \ byHand' /\ j \in ActiveForUser(v)' \ byHand'
    BY DEF ActiveForUser
  <2>2. i \in ActiveForUser(v) \ byHand /\ j \in ActiveForUser(v) \ byHand
    BY <1>5, <1>7, <1>8, <2>1
  <2> QED BY <2>2 DEF TimerInv, SingleTimer, ActiveForUser
<1> QED BY <1>9, <1>10, <1>11, <1>12, <1>13 DEF TimerInv

\* What the service makes of a row: it is ended, or moved and ended.
EndedAt(row, b, d) == [row EXCEPT !.stop = b, !.dur = d]
MovedTo(row, a, b, d) == [row EXCEPT !.start = a, !.stop = b, !.dur = d]

\* The row that finalize writes.
LEMMA EndedRow ==
  ASSUME NEW row \in Row, NEW b \in Times \cup {NULL}, NEW d \in Int \cup {NULL}
  PROVE  LET new == EndedAt(row, b, d)
         IN  new \in Row /\ new.user = row.user /\ new.stop = b
<1>1. PICK ended : ended = [row EXCEPT !.stop = b] OBVIOUS
<1>2. ended \in Row /\ ended.user = row.user /\ ended.stop = b BY <1>1 DEF Row
<1>3. PICK new : new = EndedAt(row, b, d) OBVIOUS
<1>4. new = [ended EXCEPT !.dur = d] BY <1>1, <1>3 DEF EndedAt
<1>5. new \in Row /\ new.user = row.user /\ new.stop = b BY <1>2, <1>4 DEF Row
<1> QED BY <1>3, <1>5

\* The row that Update writes.
LEMMA MovedRow ==
  ASSUME NEW row \in Row, NEW a \in Times, NEW b \in Times \cup {NULL},
         NEW d \in Int \cup {NULL}
  PROVE  LET new == MovedTo(row, a, b, d)
         IN  new \in Row /\ new.user = row.user /\ new.stop = b
<1>1. PICK moved : moved = [row EXCEPT !.start = a] OBVIOUS
<1>2. moved \in Row /\ moved.user = row.user BY <1>1 DEF Row
<1>3. MovedTo(row, a, b, d) = EndedAt(moved, b, d) BY <1>1 DEF MovedTo, EndedAt
<1> QED BY <1>2, <1>3, EndedRow

\* The invariant holds at first.
LEMMA TimerInitHolds ==
  TimerInit => TimerInv
<1> SUFFICES ASSUME TimerInit PROVE TimerInv OBVIOUS
<1>1. TimerTypeOK
  BY TimerConstants DEF TimerInit, TimerTypeOK, Times
<1>2. Live = {} /\ \A c \in TimerCalls : ~TimerBusy(c)
  BY DEF TimerInit, Live, TimerBusy
<1> QED
  BY <1>1, <1>2 DEF TimerInv, TimersAlone, CopiesOwned, CopiesFresh, SingleTimer

\* A start reads what runs (StartTimer).
LEMMA StartStep ==
  ASSUME TimerInv, NEW c \in TimerCalls, NEW u \in Users, StartTimer(c, u)
  PROVE  TimerInv'
<1> DEFINE rows == [e \in ActiveForUser(u) |-> entry[e]]
<1>1. /\ DOMAIN rows = ActiveForUser(u)
      /\ \A e \in ActiveForUser(u) : rows[e] = entry[e] /\ entry[e] \in Row /\ entry[e].user = u
  BY DEF ActiveForUser, Live, TimerInv, TimerTypeOK
<1>2. Begin(c, u, "start", rows) BY DEF StartTimer
<1> HIDE DEF rows
<1> QED BY <1>1, <1>2, BeginKeeps

\* A stop reads its entry (StopTimer).
LEMMA StopStep ==
  ASSUME TimerInv, NEW c \in TimerCalls, NEW u \in Users, NEW e \in Entries, StopTimer(c, u, e)
  PROVE  TimerInv'
<1> DEFINE rows == [i \in {e} |-> entry[i]]
<1>1. /\ DOMAIN rows = {e} /\ e \in ActiveForUser(u)
      /\ rows[e] = entry[e] /\ entry[e] \in Row /\ entry[e].user = u
  BY DEF StopTimer, ActiveForUser, Live, TimerInv, TimerTypeOK
<1>2. Begin(c, u, "stop", rows) BY DEF StopTimer
<1> HIDE DEF rows
<1> QED BY <1>1, <1>2, BeginKeeps

\* An edit reads its entry (Update).
LEMMA EditStep ==
  ASSUME TimerInv, NEW c \in TimerCalls, NEW u \in Users, NEW e \in Entries,
         NEW start \in GivenTimes, NEW stop \in GivenTimes, NEW d \in GivenDurations,
         Update(c, u, e, start, stop, d)
  PROVE  TimerInv'
<1> DEFINE rows == [i \in {e} |-> Edited(entry[e], start, stop, d)]
<1>1. e \in Live /\ entry[e] \in Row /\ entry[e].user = u
  BY DEF Update, Live, TimerInv, TimerTypeOK
<1>2. /\ Edited(entry[e], start, stop, d) \in Row
      /\ Edited(entry[e], start, stop, d).user = u
      /\ Edited(entry[e], start, stop, d).stop = NULL => entry[e].stop = NULL
  <2>1. PICK from \in Times : from = IF start = NULL THEN entry[e].start ELSE start
    BY <1>1, TimesAreNumbers DEF Row
  <2>2. PICK to \in Times \cup {NULL} : to = IF stop = NULL THEN entry[e].stop ELSE stop
    BY <1>1, TimesAreNumbers DEF Row
  <2>3. PICK dur \in Int \cup {NULL} :
          dur = IF d = NULL /\ to # NULL THEN to - from
                ELSE IF d # NULL THEN d ELSE entry[e].dur
    <3>1. to # NULL => to - from \in Int
      <4>1. from \in Int BY <2>1, TimesAreNumbers
      <4>2. to # NULL => to \in Int BY <2>2, TimesAreNumbers
      <4> QED BY <4>1, <4>2
    <3>2. entry[e].dur \in Int \cup {NULL} BY <1>1 DEF Row
    <3> QED BY <3>1, <3>2, TimesAreNumbers
  <2>4. Edited(entry[e], start, stop, d) = [entry[e] EXCEPT !.start = from, !.stop = to, !.dur = dur]
    BY <2>1, <2>2, <2>3 DEF Edited
  <2>5. to = NULL => entry[e].stop = NULL BY <2>2
  <2>6. PICK old \in Row : old = entry[e] BY <1>1
  <2>7. PICK new : new = Edited(entry[e], start, stop, d) OBVIOUS
  <2>8. new = MovedTo(old, from, to, dur) BY <2>4, <2>6, <2>7 DEF MovedTo
  <2>9. new \in Row /\ new.user = old.user /\ new.stop = to BY <2>8, MovedRow
  <2> QED BY <1>1, <2>5, <2>6, <2>7, <2>9
<1>3. /\ DOMAIN rows = {e} /\ rows[e] = Edited(entry[e], start, stop, d)
  OBVIOUS
<1>4. Begin(c, u, "edit", rows)
  <2>1. rows = [i \in {e} |-> Edited(entry[i], start, stop, d)] OBVIOUS
  <2> QED BY <2>1 DEF Update
<1> HIDE DEF rows
<1> QED BY <1>1, <1>2, <1>3, <1>4, BeginKeeps

\* One running entry is finalized (stopAllActive).
LEMMA FinalizeStep ==
  ASSUME TimerInv, NEW c \in TimerCalls, stopAllActive(c)
  PROVE  TimerInv'
<1>1. timing[c] \in TimerCall /\ TimerBusy(c)
  BY DEF stopAllActive, TimerInv, TimerTypeOK, TimerBusy
<1>2. PICK e \in Copies(c) :
        IF clock < timing[c].copy[e].start
        THEN timing' = [timing EXCEPT ![c] = NULL] /\ UNCHANGED entry
        ELSE /\ UpdateEntry(e, finalize(timing[c].copy[e]))
             /\ timing' = [timing EXCEPT ![c] =
                  IF timing[c].kind = "stop" THEN NULL ELSE [@ EXCEPT !.copy[e] = NULL]]
  BY DEF stopAllActive
<1>3. CASE clock < timing[c].copy[e].start
  BY <1>2, <1>3, EndKeeps DEF stopAllActive
<1>4. CASE ~(clock < timing[c].copy[e].start)
  <2>1. timing[c].copy[e] \in Row /\ timing[c].copy[e].user = timing[c].user
    BY <1>1 DEF Copies, TimerCall, TimerInv, CopiesOwned
  <2>2. PICK row : row = finalize(timing[c].copy[e]) OBVIOUS
  <2>3. row \in Row /\ row.user = timing[c].user /\ row.stop # NULL
    <3>1. PICK old : old = timing[c].copy[e] OBVIOUS
    <3>2. PICK d \in Int : d = clock - old.start
      BY <2>1, <3>1 DEF Row, Times, TimerInv, TimerTypeOK
    <3>3. row = EndedAt(old, clock, d)
      BY <2>2, <3>1, <3>2 DEF finalize, EndedAt
    <3>4. old \in Row /\ clock \in Times /\ clock # NULL /\ old.user = timing[c].user
      BY <2>1, <3>1, TimesAreNumbers DEF TimerInv, TimerTypeOK
    <3>5. row \in Row /\ row.user = old.user /\ row.stop = clock BY <3>3, <3>4, EndedRow
    <3> QED BY <3>4, <3>5
  <2>4. \/ timing' = [timing EXCEPT ![c] = NULL]
        \/ timing' = [timing EXCEPT ![c] = [@ EXCEPT !.copy[e] = NULL]]
    BY <1>2, <1>4
  <2>5. /\ timing[c].kind # "edit" /\ byHand' = byHand /\ UpdateEntry(e, row)
        /\ UNCHANGED <<clock, crossed>>
    BY <1>2, <1>4, <2>2 DEF stopAllActive
  <2> QED BY <1>1, <2>3, <2>4, <2>5, CopyWritten
<1> QED BY <1>3, <1>4

\* The new running entry is inserted.
LEMMA OpenStep ==
  ASSUME TimerInv, NEW c \in TimerCalls, OpenTimer(c)
  PROVE  TimerInv'
<1>1. timing[c] \in TimerCall /\ TimerBusy(c)
  BY DEF OpenTimer, TimerInv, TimerTypeOK, TimerBusy
<1>2. PICK u \in Users : u = timing[c].user BY <1>1 DEF TimerCall
<1>3. PICK e \in Entries :
        InsertEntry(e, [user |-> u, start |-> clock, stop |-> NULL, dur |-> NULL])
  BY <1>2 DEF OpenTimer
<1>4. PICK row : row = [user |-> u, start |-> clock, stop |-> NULL, dur |-> NULL] OBVIOUS
<1>5. row \in Row /\ row.user = u /\ InsertEntry(e, row)
  BY <1>3, <1>4 DEF Row, TimerInv, TimerTypeOK
<1>6. u \notin crossed => ActiveForUser(u) \subseteq byHand
  BY <1>1, <1>2 DEF OpenTimer, TimerInv, CopiesFresh
<1>7. /\ entry[e] = NULL /\ entry'[e] = row
      /\ \A i \in Entries \ {e} : entry'[i] = entry[i]
      /\ entry' \in [Entries -> Row \cup {NULL, GONE}]
  BY <1>5 DEF InsertEntry, TimerInv, TimerTypeOK
<1>8. /\ timing'[c] = NULL /\ timing' \in [TimerCalls -> TimerCall \cup {NULL}]
      /\ \A d \in TimerCalls \ {c} : timing'[d] = timing[d]
      /\ UNCHANGED <<clock, crossed, byHand>>
  BY DEF OpenTimer, TimerInv, TimerTypeOK
<1>9. TimerTypeOK' BY <1>7, <1>8 DEF TimerInv, TimerTypeOK, Times
<1>10. TimersAlone' BY <1>8 DEF TimerInv, TimersAlone, TimerBusy
<1>11. \A d \in TimerCalls : Copies(d)' = Copies(d) \/ d = c BY <1>8 DEF Copies
<1>12. \A i \in Entries \ {e} : i \in Live' <=> i \in Live BY <1>7 DEF Live
<1>13. /\ \A v : ActiveForUser(v)' \ {e} = ActiveForUser(v)
       /\ \A v : v # u => ActiveForUser(v)' = ActiveForUser(v)
  BY <1>5, <1>7, <1>12 DEF ActiveForUser, Live
<1>14. ASSUME NEW d \in TimerCalls PROVE CopiesOwned(d)' /\ CopiesFresh(d)'
  <2>1. CASE d = c BY <1>8, <2>1 DEF CopiesOwned, CopiesFresh, TimerBusy
  <2>2. CASE d # c
    <3>1. TimerBusy(d) => e \notin Copies(d)
      BY <1>7 DEF TimerInv, CopiesOwned
    <3>2. CopiesOwned(d)'
      BY <1>7, <1>8, <1>11, <1>12, <2>2, <3>1 DEF TimerInv, CopiesOwned, TimerBusy, Copies
    <3>3. TimerBusy(d) /\ timing[d].user \notin crossed => timing[d].user # u
      BY <1>1, <1>2, <2>2 DEF TimerInv, TimersAlone
    <3>4. CopiesFresh(d)'
      BY <1>7, <1>8, <1>11, <1>12, <1>13, <2>2, <3>1, <3>3
         DEF TimerInv, CopiesFresh, TimerBusy, Copies
    <3> QED BY <3>2, <3>4
  <2> QED BY <2>1, <2>2
<1>15. SingleTimer'
  <2> SUFFICES ASSUME NEW v \in Users \ crossed, NEW i \in (Live \ byHand)',
                      NEW j \in (Live \ byHand)',
                      entry'[i].user = v, entry'[i].stop = NULL,
                      entry'[j].user = v, entry'[j].stop = NULL
               PROVE  i = j
    BY <1>8 DEF SingleTimer
  <2>1. i \in ActiveForUser(v)' \ byHand /\ j \in ActiveForUser(v)' \ byHand
    BY <1>8 DEF ActiveForUser
  <2>2. i # e /\ j # e => i = j
    BY <1>13, <2>1 DEF TimerInv, SingleTimer, ActiveForUser
  <2>3. i = e \/ j = e => v = u BY <1>5, <1>7
  <2> QED BY <1>6, <1>13, <2>1, <2>2, <2>3
<1> QED BY <1>9, <1>10, <1>14, <1>15 DEF TimerInv

\* An entry is logged by hand (CreateManual).
LEMMA ManualStep ==
  ASSUME TimerInv, NEW u \in Users, NEW start \in GivenTimes \ {NULL},
         NEW stop \in GivenTimes, NEW d \in GivenDurations, CreateManual(u, start, stop, d)
  PROVE  TimerInv'
<1>1. PICK e \in Entries :
        /\ InsertEntry(e, [user |-> u, start |-> start, stop |-> stop,
                           dur |-> IF stop # NULL /\ d = NULL THEN stop - start ELSE d])
        /\ byHand' = byHand \cup {e}
  BY DEF CreateManual
<1>2. PICK row : row = [user |-> u, start |-> start, stop |-> stop,
                        dur |-> IF stop # NULL /\ d = NULL THEN stop - start ELSE d]
  OBVIOUS
<1>3. row \in Row
  <2>1. start \in Times /\ start \in Int /\ stop \in Times \cup {NULL} /\ d \in Int \cup {NULL}
    BY TimesAreNumbers
  <2>2. stop # NULL => stop - start \in Int BY <2>1, TimesAreNumbers
  <2> QED BY <1>2, <2>1, <2>2 DEF Row
<1>4. /\ entry[e] = NULL /\ entry'[e] = row
      /\ \A i \in Entries \ {e} : entry'[i] = entry[i]
      /\ entry' \in [Entries -> Row \cup {NULL, GONE}]
  BY <1>1, <1>2, <1>3 DEF InsertEntry, TimerInv, TimerTypeOK
<1>5. UNCHANGED <<clock, timing, crossed>> BY DEF CreateManual
<1>6. TimerTypeOK' BY <1>1, <1>4, <1>5 DEF TimerInv, TimerTypeOK, Times
<1>7. TimersAlone' BY <1>5 DEF TimerInv, TimersAlone, TimerBusy
<1>8. \A i \in Entries \ {e} : i \in Live' <=> i \in Live BY <1>4 DEF Live
<1>9. \A v : ActiveForUser(v)' \ byHand' \subseteq ActiveForUser(v) \ byHand
  BY <1>1, <1>4, <1>8 DEF ActiveForUser, Live
<1>10. ASSUME NEW c \in TimerCalls PROVE CopiesOwned(c)' /\ CopiesFresh(c)'
  <2>1. Copies(c)' = Copies(c) BY <1>5 DEF Copies
  <2>2. TimerBusy(c) => e \notin Copies(c) BY <1>4 DEF TimerInv, CopiesOwned
  <2>3. CopiesOwned(c)'
    BY <1>4, <1>5, <1>8, <2>1, <2>2 DEF TimerInv, CopiesOwned, TimerBusy, Copies
  <2>4. CopiesFresh(c)'
    BY <1>4, <1>5, <1>8, <1>9, <2>1, <2>2 DEF TimerInv, CopiesFresh, TimerBusy, Copies
  <2> QED BY <2>3, <2>4
<1>11. SingleTimer'
  <2>1. \A i \in (Live \ byHand)' : i \in Live \ byHand /\ entry'[i] = entry[i]
    BY <1>1, <1>4, <1>8 DEF Live
  <2> QED BY <1>5, <2>1 DEF TimerInv, SingleTimer
<1> QED BY <1>6, <1>7, <1>10, <1>11 DEF TimerInv

\* An entry is deleted.
LEMMA DeleteEntryStep ==
  ASSUME TimerInv, NEW e \in Entries, DeleteEntry(e)
  PROVE  TimerInv'
<1>1. /\ entry[e] # NULL /\ entry'[e] = GONE
      /\ \A i \in Entries \ {e} : entry'[i] = entry[i]
      /\ entry' \in [Entries -> Row \cup {NULL, GONE}]
      /\ UNCHANGED <<clock, timing, crossed, byHand>>
  BY DEF DeleteEntry, Live, TimerInv, TimerTypeOK
<1>2. e \notin Live' /\ \A i \in Live' : i \in Live /\ i # e /\ entry'[i] = entry[i]
  BY <1>1 DEF Live
<1>3. TimerTypeOK' BY <1>1 DEF TimerInv, TimerTypeOK, Times
<1>4. TimersAlone' BY <1>1 DEF TimerInv, TimersAlone, TimerBusy
<1>5. ASSUME NEW c \in TimerCalls PROVE CopiesOwned(c)' /\ CopiesFresh(c)'
  <2>1. Copies(c)' = Copies(c) BY <1>1 DEF Copies
  <2>2. CopiesOwned(c)'
    BY <1>1, <1>2, <2>1, TimerConstants DEF TimerInv, CopiesOwned, TimerBusy, Copies
  <2>3. \A v : ActiveForUser(v)' \subseteq ActiveForUser(v)
    BY <1>2 DEF ActiveForUser
  <2>4. CopiesFresh(c)'
    BY <1>1, <1>2, <2>1, <2>3 DEF TimerInv, CopiesFresh, TimerBusy, Copies
  <2> QED BY <2>2, <2>4
<1>6. SingleTimer' BY <1>1, <1>2 DEF TimerInv, SingleTimer
<1> QED BY <1>3, <1>4, <1>5, <1>6 DEF TimerInv

\* Time passes, or nothing happens to the timers.
LEMMA ClockStep ==
  ASSUME TimerInv, UNCHANGED <<entry, timing, crossed, byHand>>,
         clock' = clock \/ TimePasses
  PROVE  TimerInv'
<1>1. clock' \in Times
  BY TimerConstants DEF TimePasses, TimerInv, TimerTypeOK, Times
<1>2. TimerTypeOK' BY <1>1 DEF TimerInv, TimerTypeOK, Times
<1>3. Live' = Live /\ \A v : ActiveForUser(v)' = ActiveForUser(v)
  BY DEF Live, ActiveForUser
<1>4. TimersAlone' BY DEF TimerInv, TimersAlone, TimerBusy
<1>5. ASSUME NEW c \in TimerCalls PROVE CopiesOwned(c)' /\ CopiesFresh(c)'
  <2>1. Copies(c)' = Copies(c) BY DEF Copies
  <2> QED BY <1>3, <2>1 DEF TimerInv, CopiesOwned, CopiesFresh, TimerBusy
<1>6. SingleTimer' BY <1>3 DEF TimerInv, SingleTimer
<1> QED BY <1>2, <1>4, <1>5, <1>6 DEF TimerInv

\* An edit or a stop writes its copy back.
LEMMA WriteEditStep ==
  ASSUME TimerInv, NEW c \in TimerCalls, WriteEdit(c)
  PROVE  TimerInv'
<1>1. timing[c] \in TimerCall /\ TimerBusy(c)
  BY DEF WriteEdit, TimerInv, TimerTypeOK, TimerBusy
<1>2. PICK e \in Copies(c) : UpdateEntry(e, timing[c].copy[e]) /\ byHand' = byHand \cup {e}
  BY DEF WriteEdit
<1>3. timing[c].copy[e] \in Row /\ timing[c].copy[e].user = timing[c].user
  BY <1>1 DEF Copies, TimerCall, TimerInv, CopiesOwned
<1>4. timing' = [timing EXCEPT ![c] = NULL] /\ timing'[c] = NULL
      /\ UNCHANGED <<clock, crossed>>
  BY DEF WriteEdit, TimerInv, TimerTypeOK
<1> QED BY <1>1, <1>2, <1>3, <1>4, CopyWritten

\* Each step of the timers preserves the invariant.
LEMMA TimerStep ==
  TimerInv /\ [TimerNext]_timerVars => TimerInv'
<1> SUFFICES ASSUME TimerInv, [TimerNext]_timerVars PROVE TimerInv' OBVIOUS
<1>1. CASE PostTimerStart BY <1>1, StartStep DEF PostTimerStart
<1>2. CASE PostTimerStop BY <1>2, StopStep DEF PostTimerStop
<1>3. CASE PostTimeEntry BY <1>3, ManualStep DEF PostTimeEntry
<1>4. CASE PatchTimeEntry BY <1>4, EditStep DEF PatchTimeEntry
<1>5. CASE DeleteTimeEntry BY <1>5, DeleteEntryStep DEF DeleteTimeEntry
<1>6. CASE TimePasses BY <1>6, ClockStep DEF TimePasses
<1>7. ASSUME NEW c \in TimerCalls, stopAllActive(c) PROVE TimerInv' BY <1>7, FinalizeStep
<1>8. ASSUME NEW c \in TimerCalls, OpenTimer(c) PROVE TimerInv' BY <1>8, OpenStep
<1>9. ASSUME NEW c \in TimerCalls, WriteEdit(c) PROVE TimerInv' BY <1>9, WriteEditStep
<1>10. ASSUME NEW c \in TimerCalls, FailTimerCall(c) PROVE TimerInv'
  BY <1>10, EndKeeps DEF FailTimerCall
<1>11. CASE UNCHANGED timerVars BY <1>11, ClockStep DEF timerVars
<1> QED
  BY <1>1, <1>2, <1>3, <1>4, <1>5, <1>6, <1>7, <1>8, <1>9, <1>10, <1>11 DEF TimerNext

\* A user whose calls never overlapped has one running timer at most, the entries
\* made by hand aside (service/timeentry, StartTimer and stopAllActive).
THEOREM SingleTimerHolds ==
  TimerSpec => []SingleTimer
<1>1. TimerInv => SingleTimer BY DEF TimerInv
<1> QED BY <1>1, TimerInitHolds, TimerStep, PTL DEF TimerSpec

\* A stopped entry of such a user stays stopped (finalize and Update write whole rows).
THEOREM StopIsFinalHolds ==
  TimerSpec => StopIsFinal
<1> DEFINE Final == \A e \in Live : entry[e].stop # NULL /\ entry'[e] # GONE
                        /\ entry[e].user \notin crossed => entry'[e].stop # NULL
<1>1. ASSUME TimerInv, [TimerNext]_timerVars PROVE [Final]_timerVars
  <2>1. CASE UNCHANGED timerVars BY <2>1
  <2>2. CASE TimerNext /\ entry' = entry BY <2>2
  <2> SUFFICES ASSUME NEW e \in Live, entry[e].stop # NULL, entry'[e] # GONE,
                      entry[e].user \notin crossed, TimerNext, entry' # entry
               PROVE  entry'[e].stop # NULL
    BY <1>1, <2>1, <2>2
  <2>3. e \in Entries /\ entry[e] # NULL /\ entry[e] # GONE /\ entry[e] \in Row
    BY <1>1 DEF Live, TimerInv, TimerTypeOK
  <2>4. ASSUME NEW i \in Entries, NEW row, InsertEntry(i, row) PROVE entry'[e].stop # NULL
    BY <1>1, <2>3, <2>4 DEF InsertEntry, TimerInv, TimerTypeOK
  <2>5. ASSUME NEW c \in TimerCalls, stopAllActive(c) PROVE entry'[e].stop # NULL
    <3>1. PICK i \in Copies(c) :
            UNCHANGED entry \/ UpdateEntry(i, finalize(timing[c].copy[i]))
      BY <2>5 DEF stopAllActive
    <3>2. timing[c] \in TimerCall /\ i \in Entries
      BY <1>1, <2>5 DEF stopAllActive, TimerInv, TimerTypeOK, Copies
    <3>3. timing[c].copy[i] \in Row BY <3>2 DEF Copies, TimerCall
    <3>4. PICK row : row = finalize(timing[c].copy[i]) OBVIOUS
    <3>5. clock # NULL BY <1>1, TimesAreNumbers DEF TimerInv, TimerTypeOK
    <3>6. row.stop # NULL /\ row \in Row
      <4>1. PICK d \in Int : d = clock - timing[c].copy[i].start
        BY <1>1, <3>3 DEF Row, Times, TimerInv, TimerTypeOK
      <4>2. row = [timing[c].copy[i] EXCEPT !.stop = clock, !.dur = d]
        BY <3>4, <4>1 DEF finalize
      <4>3. PICK old \in Row : old = timing[c].copy[i] BY <3>3
      <4>4. row = EndedAt(old, clock, d) BY <4>2, <4>3 DEF EndedAt
      <4>5. clock \in Times BY <1>1 DEF TimerInv, TimerTypeOK
      <4>6. row \in Row /\ row.stop = clock BY <4>4, <4>5, EndedRow
      <4> QED BY <3>5, <4>6
    <3>7. CASE UpdateEntry(i, row) /\ i = e
      <4>1. PICK put : put = [row EXCEPT !.start = entry[i].start] OBVIOUS
      <4>2. put.stop = row.stop BY <3>6, <4>1 DEF Row
      <4>3. entry'[e] = put
        BY <1>1, <2>3, <3>7, <4>1 DEF UpdateEntry, TimerInv, TimerTypeOK
      <4> QED BY <3>6, <4>2, <4>3
    <3>8. CASE UpdateEntry(i, row) /\ i # e
      BY <1>1, <2>3, <3>8 DEF UpdateEntry, TimerInv, TimerTypeOK
    <3> QED BY <3>1, <3>4, <3>7, <3>8
  <2>6. ASSUME NEW c \in TimerCalls, WriteEdit(c) PROVE entry'[e].stop # NULL
    <3>1. PICK i \in Copies(c) : UpdateEntry(i, timing[c].copy[i])
      BY <2>6 DEF WriteEdit
    <3>2. timing[c] \in TimerCall /\ i \in Entries /\ TimerBusy(c) /\ timing[c].kind = "edit"
      BY <1>1, <2>6 DEF WriteEdit, TimerInv, TimerTypeOK, Copies, TimerBusy
    <3>3. PICK row : row = timing[c].copy[i] OBVIOUS
    <3>4. row \in Row BY <3>2, <3>3 DEF Copies, TimerCall
    <3>5. CASE i = e
      <4>1. entry[e].user = timing[c].user
        BY <1>1, <3>2, <3>5 DEF TimerInv, CopiesOwned
      <4>2. row.stop # NULL
        BY <1>1, <3>2, <3>3, <3>5, <4>1 DEF TimerInv, CopiesFresh
      <4>3. PICK put : put = [row EXCEPT !.start = entry[i].start] OBVIOUS
      <4>4. put.stop = row.stop BY <3>4, <4>3 DEF Row
      <4>5. entry'[e] = put
        BY <1>1, <2>3, <3>1, <3>3, <3>5, <4>3 DEF UpdateEntry, TimerInv, TimerTypeOK
      <4> QED BY <4>2, <4>4, <4>5
    <3>6. CASE i # e
      BY <1>1, <2>3, <3>1, <3>6 DEF UpdateEntry, TimerInv, TimerTypeOK
    <3> QED BY <3>5, <3>6
  <2>7. ASSUME NEW i \in Entries, DeleteEntry(i) PROVE entry'[e].stop # NULL
    BY <1>1, <2>3, <2>7 DEF DeleteEntry, TimerInv, TimerTypeOK
  <2>8. CASE PostTimerStart BY <2>8 DEF PostTimerStart, StartTimer, Begin
  <2>9. CASE PostTimerStop BY <2>9 DEF PostTimerStop, StopTimer, Begin
  <2>10. CASE PostTimeEntry BY <2>4, <2>10 DEF PostTimeEntry, CreateManual
  <2>11. CASE PatchTimeEntry BY <2>11 DEF PatchTimeEntry, Update, Begin
  <2>12. CASE DeleteTimeEntry BY <2>7, <2>12 DEF DeleteTimeEntry
  <2>13. CASE TimePasses BY <2>13 DEF TimePasses
  <2>14. ASSUME NEW c \in TimerCalls, OpenTimer(c) PROVE entry'[e].stop # NULL
    BY <2>4, <2>14 DEF OpenTimer
  <2>15. ASSUME NEW c \in TimerCalls, FailTimerCall(c) PROVE entry'[e].stop # NULL
    BY <2>15 DEF FailTimerCall
  <2> QED
    BY <2>5, <2>6, <2>8, <2>9, <2>10, <2>11, <2>12, <2>13, <2>14, <2>15 DEF TimerNext
<1> QED BY <1>1, TimerInitHolds, TimerStep, PTL DEF TimerSpec, StopIsFinal
-----------------------------------------------------------------------------
(* Sprints.                                                                    *)

SprintBusy(c) == closing[c] # NONE

\* What is true of a call's statements while no other call is about. The sprint is
\* never unborn; before its closing it is open, afterwards it has the closed row or is
\* gone; an edit finds a closed sprint as empty as the property has it; the target is
\* open still, and the first of those that do not start before the sprint ends.
StepFits(c) ==
    LET id == closing[c].id  row == closing[c].row  to == closing[c].to
    IN  /\ sprint[id] # NONE
        /\ closing[c].step = "edit" => (id \in Closed \ lateOpen => OpenTasksOf(id) = {})
        /\ closing[c].step # "edit" => row.status = "closed"
        /\ closing[c].step = "close" => id \notin Closed
        /\ closing[c].step \in {"next", "move"} => (id \in Existing => sprint[id] = row)
        /\ closing[c].step = "move" =>
             /\ to # id
             /\ to # NONE => sprint[to] # NONE
             /\ to = NONE => Candidates(row.end) = {}
             /\ to \in Existing =>
                  /\ to \notin Closed /\ sprint[to].start >= row.end
                  /\ \A s \in Candidates(row.end) : sprint[to].start <= sprint[s].start

SprintInv ==
    /\ SprintTypeOK
    /\ \A t \in SprintTasks : inSprint[t] \in Existing \cup {NONE}
    /\ ~sprintRace =>
         /\ \A c, d \in SprintCalls : SprintBusy(c) /\ SprintBusy(d) => c = d
         /\ \A c \in SprintCalls : SprintBusy(c) => StepFits(c)
         /\ ClosedIsEmpty

\* The invariant holds at first.
LEMMA SprintInitHolds ==
  SprintInit => SprintInv
<1> SUFFICES ASSUME SprintInit PROVE SprintInv OBVIOUS
<1>1. Existing = {} /\ Closed = {} BY DEF SprintInit, Existing, Closed
<1> QED
  BY <1>1 DEF SprintInit, SprintInv, SprintTypeOK, SprintBusy, ClosedIsEmpty

\* Only the rows change, and no call is in the way of what the step does to them.
LEMMA SprintBorn ==
  ASSUME SprintInv, NEW s \in SprintIds, NEW row \in SprintRow,
         sprint[s] = NONE, sprint' = [sprint EXCEPT ![s] = row],
         newcomers' \in SUBSET SprintIds, newcomers \subseteq newcomers',
         \A c \in SprintCalls : SprintBusy(c) /\ closing[c].step = "move" => s \in newcomers',
         UNCHANGED <<inSprint, finished, closing, sprintRace, lateOpen>>
  PROVE  SprintInv'
<1>1. /\ sprint'[s] = row /\ row \notin {NONE, LOST} /\ s \notin Existing /\ s # NONE
      /\ \A r \in SprintIds \ {s} : sprint'[r] = sprint[r]
      /\ sprint' \in [SprintIds -> SprintRow \cup {NONE, LOST}]
  BY SprintConstants, SprintMarkers DEF SprintInv, SprintTypeOK, Existing
<1>2. /\ \A r \in SprintIds \ {s} : r \in Existing' <=> r \in Existing
      /\ \A r \in SprintIds \ {s} : r \in Closed' <=> r \in Closed
      /\ Existing \subseteq Existing' /\ Closed' \subseteq Closed \cup {s}
      /\ Existing' \subseteq SprintIds /\ Existing \subseteq SprintIds
  BY <1>1 DEF Existing, Closed
<1>3. \A r : OpenTasksOf(r)' = OpenTasksOf(r) BY DEF OpenTasksOf
<1>4. OpenTasksOf(s) = {}
  BY <1>1 DEF OpenTasksOf, SprintInv
<1>5. SprintTypeOK' BY <1>1 DEF SprintInv, SprintTypeOK, SprintCall, SprintRow, Days, Statuses
<1>6. \A t \in SprintTasks : (inSprint[t] \in Existing \cup {NONE})'
  BY <1>2 DEF SprintInv
<1>7. ASSUME ~sprintRace, NEW c \in SprintCalls, SprintBusy(c) PROVE StepFits(c)'
  <2>1. closing[c] \in SprintCall /\ closing[c].id \in SprintIds /\ closing[c].id # s
    BY <1>1, <1>7 DEF SprintInv, SprintTypeOK, SprintBusy, SprintCall, StepFits
  <2>2. closing[c].step = "move" /\ closing[c].to # NONE =>
          closing[c].to # s /\ closing[c].to \in SprintIds
    BY <1>1, <1>7, <2>1 DEF SprintInv, SprintCall, StepFits
  <2>3. closing[c].to = NONE => closing[c].to \notin Existing'
    BY <1>2, SprintConstants
  <2>4. closing[c].step = "move" => \A d : /\ Candidates(d)' \subseteq Candidates(d)
                                           /\ \A r \in Candidates(d)' : sprint'[r] = sprint[r]
    BY <1>1, <1>2, <1>7 DEF Candidates
  <2>5. StepFits(c) BY <1>7 DEF SprintInv
  <2> HIDE DEF Candidates
  <2> QED
    BY <1>1, <1>2, <1>3, <2>1, <2>2, <2>3, <2>4, <2>5 DEF StepFits
<1>8. ASSUME ~sprintRace PROVE ClosedIsEmpty'
  BY <1>2, <1>3, <1>4, <1>8 DEF SprintInv, ClosedIsEmpty, SprintBusy
<1> QED BY <1>5, <1>6, <1>7, <1>8 DEF SprintInv, SprintBusy

\* A sprint is deleted: its tasks are in none.
LEMMA DeleteSprintStep ==
  ASSUME SprintInv, NEW s \in SprintIds, DeleteSprint(s)
  PROVE  SprintInv'
<1>1. /\ sprint'[s] = LOST /\ s # NONE /\ LOST # NONE
      /\ \A r \in SprintIds \ {s} : sprint'[r] = sprint[r]
      /\ sprint' \in [SprintIds -> SprintRow \cup {NONE, LOST}]
      /\ \A t \in SprintTasks : inSprint'[t] = IF inSprint[t] = s THEN NONE ELSE inSprint[t]
      /\ UNCHANGED <<finished, closing, sprintRace, lateOpen, newcomers>>
  BY SprintConstants DEF SprintInv, SprintTypeOK, DeleteSprint
<1>2. /\ s \notin Existing' /\ s \notin Closed'
      /\ \A r \in SprintIds \ {s} : r \in Existing' <=> r \in Existing
      /\ \A r \in SprintIds \ {s} : r \in Closed' <=> r \in Closed
      /\ Existing' \subseteq SprintIds /\ Closed' \subseteq SprintIds
      /\ Existing \subseteq SprintIds
  BY <1>1 DEF Existing, Closed
<1>3. \A r \in SprintIds \ {s} : OpenTasksOf(r)' = OpenTasksOf(r)
  BY <1>1, SprintConstants DEF OpenTasksOf
<1>4. SprintTypeOK'
  BY <1>1 DEF SprintInv, SprintTypeOK, DeleteSprint, SprintCall, SprintRow, Days, Statuses
<1>5. \A t \in SprintTasks : (inSprint[t] \in Existing \cup {NONE})'
  BY <1>1, <1>2 DEF SprintInv
<1>6. ASSUME ~sprintRace, NEW c \in SprintCalls, SprintBusy(c) PROVE StepFits(c)'
  <2>1. closing[c] \in SprintCall /\ closing[c].id \in SprintIds
    BY <1>6 DEF SprintInv, SprintTypeOK, SprintBusy, SprintCall
  <2>2. StepFits(c) BY <1>6 DEF SprintInv
  <2>3. closing[c].to \in SprintIds \cup {NONE} BY <2>1 DEF SprintCall
  <2>4. closing[c].to = NONE => closing[c].to \notin Existing'
    BY <1>2, SprintConstants
  <2>5. \A d : /\ Candidates(d)' \subseteq Candidates(d)
               /\ \A r \in Candidates(d)' : sprint'[r] = sprint[r]
    BY <1>1, <1>2 DEF Candidates
  <2> QED
    BY <1>1, <1>2, <1>3, <2>1, <2>2, <2>3, <2>4, <2>5 DEF StepFits
<1>7. ASSUME ~sprintRace PROVE ClosedIsEmpty'
  BY <1>1, <1>2, <1>3, <1>7 DEF SprintInv, ClosedIsEmpty
<1> QED BY <1>1, <1>4, <1>5, <1>6, <1>7 DEF SprintInv, SprintBusy

\* A task is put into a sprint, completed or reopened.
LEMMA TaskMovedStep ==
  ASSUME SprintInv, NEW t \in SprintTasks, NEW s \in SprintIds \cup {NONE},
         NEW done \in BOOLEAN, UpdateTask(t, s, done)
  PROVE  SprintInv'
<1>1. /\ inSprint'[t] = s /\ s \in Existing \cup {NONE}
      /\ \A u \in SprintTasks \ {t} : inSprint'[u] = inSprint[u]
      /\ finished' = IF done THEN finished \cup {t} ELSE finished \ {t}
      /\ UNCHANGED <<sprint, closing, sprintRace, newcomers>>
      /\ lateOpen \subseteq lateOpen'
      /\ s \in Closed /\ ~done => s \in lateOpen'
  BY DEF SprintInv, SprintTypeOK, UpdateTask
<1>2. Existing' = Existing /\ Closed' = Closed /\ Closed \subseteq SprintIds
  BY <1>1 DEF Existing, Closed
<1>3. SprintTypeOK'
  BY <1>1, <1>2
     DEF SprintInv, SprintTypeOK, UpdateTask, SprintCall, SprintRow, Days, Statuses
<1>4. \A u \in SprintTasks : (inSprint[u] \in Existing \cup {NONE})'
  BY <1>1, <1>2 DEF SprintInv
<1>5. \A r \in Closed \ lateOpen' : OpenTasksOf(r)' \subseteq OpenTasksOf(r)
  BY <1>1 DEF OpenTasksOf
<1>6. ASSUME ~sprintRace, NEW c \in SprintCalls, SprintBusy(c) PROVE StepFits(c)'
  <2>1. StepFits(c) BY <1>6 DEF SprintInv
  <2>2. \A d : Candidates(d)' = Candidates(d) BY <1>1, <1>2 DEF Candidates
  <2> QED BY <1>1, <1>2, <1>5, <2>1, <2>2 DEF StepFits
<1>7. ASSUME ~sprintRace PROVE ClosedIsEmpty'
  <2>1. ClosedIsEmpty BY <1>7 DEF SprintInv
  <2> QED BY <1>1, <1>2, <1>5, <1>7, <2>1 DEF ClosedIsEmpty
<1> QED BY <1>1, <1>3, <1>4, <1>6, <1>7 DEF SprintInv, SprintBusy

\* A call begins.
LEMMA SprintCallBegins ==
  ASSUME SprintInv, NEW c \in SprintCalls, NEW s \in Existing, NEW row \in SprintRow,
         NEW step \in {"edit", "close"}, BeginSprintCall(c, s, row, step),
         step = "close" => s \notin Closed /\ row.status = "closed"
  PROVE  SprintInv'
<1> DEFINE new == [id |-> s, row |-> row, step |-> step, to |-> NONE]
<1>1. /\ closing' = [closing EXCEPT ![c] = new] /\ closing[c] = NONE
      /\ sprintRace' = (sprintRace \/ \E d \in SprintCalls : SprintBusy(d))
      /\ UNCHANGED <<sprint, inSprint, finished, lateOpen, newcomers>>
      /\ s \in SprintIds /\ sprint[s] # NONE
  BY DEF BeginSprintCall, SprintBusy, Existing
<1>2. /\ new \in SprintCall /\ new.id = s /\ new.row = row /\ new.step = step /\ new.to = NONE
  BY <1>1 DEF SprintCall
<1> HIDE DEF new
<1>3. /\ closing'[c] = new /\ new # NONE
      /\ closing' \in [SprintCalls -> SprintCall \cup {NONE}]
      /\ \A d \in SprintCalls \ {c} : closing'[d] = closing[d]
  BY <1>1, <1>2, SprintMarkers DEF SprintInv, SprintTypeOK
<1>4. sprintRace' \in BOOLEAN BY <1>1 DEF SprintInv, SprintTypeOK
<1>5. Existing' = Existing /\ Closed' = Closed /\ \A r : OpenTasksOf(r)' = OpenTasksOf(r)
  BY <1>1 DEF Existing, Closed, OpenTasksOf
<1>6. SprintTypeOK' BY <1>1, <1>3, <1>4 DEF SprintInv, SprintTypeOK
<1>7. ASSUME ~sprintRace'
      PROVE  ~sprintRace /\ \A d \in SprintCalls : ~SprintBusy(d) /\ (SprintBusy(d)' => d = c)
  BY <1>1, <1>3, <1>7 DEF SprintBusy
<1>8. ASSUME ~sprintRace' PROVE StepFits(c)'
  <2>1. ClosedIsEmpty /\ ~sprintRace BY <1>7, <1>8 DEF SprintInv
  <2>2. \A r \in Closed \ lateOpen : OpenTasksOf(r) = {}
    BY <1>7, <1>8, <2>1 DEF ClosedIsEmpty, SprintBusy
  <2> QED BY <1>1, <1>2, <1>3, <1>5, <2>2 DEF StepFits
<1>9. ASSUME ~sprintRace' PROVE ClosedIsEmpty'
  <2>1. ClosedIsEmpty /\ ~sprintRace BY <1>7, <1>9 DEF SprintInv
  <2>2. \A r \in Closed \ lateOpen : OpenTasksOf(r) = {}
    BY <1>7, <1>9, <2>1 DEF ClosedIsEmpty, SprintBusy
  <2> QED BY <1>1, <1>5, <2>2 DEF ClosedIsEmpty
<1>10. \A t \in SprintTasks : (inSprint[t] \in Existing \cup {NONE})'
  BY <1>1, <1>5 DEF SprintInv
<1> QED BY <1>6, <1>7, <1>8, <1>9, <1>10 DEF SprintInv

\* A call ends or goes on; what it writes is told apart by the lemmas that use this one.
LEMMA SprintCallMoves ==
  ASSUME SprintInv, NEW c \in SprintCalls, SprintBusy(c), NEW next,
         closing' = [closing EXCEPT ![c] = next], next \in SprintCall \cup {NONE},
         UNCHANGED sprintRace
  PROVE  /\ closing' \in [SprintCalls -> SprintCall \cup {NONE}] /\ closing'[c] = next
         /\ closing[c] \in SprintCall
         /\ ~sprintRace =>
              /\ \A d \in SprintCalls : SprintBusy(d)' => d = c
              /\ \A d \in SprintCalls : SprintBusy(d) => d = c
              /\ StepFits(c) /\ ClosedIsEmpty
<1>1. /\ closing' \in [SprintCalls -> SprintCall \cup {NONE}] /\ closing'[c] = next
      /\ \A d \in SprintCalls \ {c} : closing'[d] = closing[d]
  BY DEF SprintInv, SprintTypeOK
<1>2. closing[c] \in SprintCall BY DEF SprintInv, SprintTypeOK, SprintBusy
<1>3. ~sprintRace => \A d \in SprintCalls : SprintBusy(d) => d = c
  BY DEF SprintInv
<1> QED BY <1>1, <1>2, <1>3 DEF SprintInv, SprintBusy

\* The row of a sprint is written from a copy.
LEMMA UpdateSprintStep ==
  ASSUME SprintInv, NEW s \in SprintIds, NEW row \in SprintRow, UpdateSprint(s, row)
  PROVE  /\ sprint' \in [SprintIds -> SprintRow \cup {NONE, LOST}]
         /\ Existing' = Existing
         /\ \A r \in SprintIds \ {s} : sprint'[r] = sprint[r]
         /\ \A r \in SprintIds \ {s} : r \in Closed' <=> r \in Closed
         /\ s \in Existing => sprint'[s] = row
         /\ s \in Closed' <=> s \in Existing /\ row.status = "closed"
         /\ sprint[s] # NONE => sprint'[s] # NONE
<1>1. /\ sprint' \in [SprintIds -> SprintRow \cup {NONE, LOST}]
      /\ \A r \in SprintIds \ {s} : sprint'[r] = sprint[r]
      /\ s \in Existing => sprint'[s] = row
      /\ s \notin Existing => sprint' = sprint
  BY DEF UpdateSprint, SprintInv, SprintTypeOK
<1>2. row \notin {NONE, LOST} BY SprintMarkers
<1>3. Existing' = Existing BY <1>1, <1>2 DEF Existing
<1> QED BY <1>1, <1>2, <1>3 DEF Closed

\* An edit writes its copy of the sprint back.
LEMMA WriteSprintStep ==
  ASSUME SprintInv, NEW c \in SprintCalls, WriteSprint(c)
  PROVE  SprintInv'
<1>1. /\ SprintBusy(c) /\ closing[c].step = "edit" /\ UpdateSprint(closing[c].id, closing[c].row)
      /\ closing' = [closing EXCEPT ![c] = NONE]
      /\ lateOpen' = IF closing[c].row.status = "closed"
                     THEN lateOpen \cup {closing[c].id} ELSE lateOpen \ {closing[c].id}
      /\ UNCHANGED <<inSprint, finished, sprintRace, newcomers>>
  BY DEF WriteSprint, SprintBusy
<1>2. /\ closing' \in [SprintCalls -> SprintCall \cup {NONE}] /\ closing'[c] = NONE
      /\ closing[c] \in SprintCall
      /\ ~sprintRace =>
           /\ \A d \in SprintCalls : SprintBusy(d)' => d = c
           /\ \A d \in SprintCalls : SprintBusy(d) => d = c
           /\ StepFits(c) /\ ClosedIsEmpty
  BY <1>1, SprintCallMoves
<1>3. PICK id \in SprintIds : id = closing[c].id BY <1>2 DEF SprintCall
<1>4. PICK row \in SprintRow : row = closing[c].row BY <1>2 DEF SprintCall
<1>5. UpdateSprint(id, row) BY <1>1, <1>3, <1>4
<1>6. /\ sprint' \in [SprintIds -> SprintRow \cup {NONE, LOST}]
      /\ Existing' = Existing
      /\ \A r \in SprintIds \ {id} : r \in Closed' <=> r \in Closed
      /\ id \in Closed' <=> id \in Existing /\ row.status = "closed"
  BY <1>5, UpdateSprintStep
<1>7. SprintTypeOK'
  BY <1>1, <1>2, <1>3, <1>6 DEF SprintInv, SprintTypeOK
<1>8. \A t \in SprintTasks : (inSprint[t] \in Existing \cup {NONE})'
  BY <1>1, <1>6 DEF SprintInv
<1>9. ASSUME ~sprintRace PROVE ClosedIsEmpty'
  <2>1. \A r \in Closed \ lateOpen : r # id => OpenTasksOf(r) = {}
    BY <1>2, <1>3, <1>9 DEF ClosedIsEmpty, SprintBusy
  <2>2. \A r : OpenTasksOf(r)' = OpenTasksOf(r) BY <1>1 DEF OpenTasksOf
  <2>3. \A r \in Closed' : r \in SprintIds BY DEF Closed, Existing
  <2>4. id \notin Closed' \ lateOpen' BY <1>1, <1>3, <1>4, <1>6
  <2>5. \A r \in Closed' \ lateOpen' : r \in Closed \ lateOpen /\ r # id
    BY <1>1, <1>3, <1>6, <2>3, <2>4
  <2> QED BY <2>1, <2>2, <2>5 DEF ClosedIsEmpty
<1>10. \A d \in SprintCalls : ~sprintRace => ~SprintBusy(d)' BY <1>2 DEF SprintBusy
<1> QED BY <1>1, <1>7, <1>8, <1>9, <1>10 DEF SprintInv

\* The first statement of Close: the sprint is marked closed.
LEMMA CloseWriteStep ==
  ASSUME SprintInv, NEW c \in SprintCalls, CloseWrite(c)
  PROVE  SprintInv'
<1>1. /\ SprintBusy(c) /\ closing[c].step = "close" /\ UpdateSprint(closing[c].id, closing[c].row)
      /\ closing' = [closing EXCEPT ![c].step = "next"]
      /\ UNCHANGED <<inSprint, finished, sprintRace, lateOpen, newcomers>>
  BY DEF CloseWrite, SprintBusy
<1>2. PICK old \in SprintCall : old = closing[c]
  BY <1>1 DEF SprintInv, SprintTypeOK, SprintBusy
<1>3. PICK next : next = [old EXCEPT !.step = "next"] OBVIOUS
<1>4. /\ next \in SprintCall /\ next.id = old.id /\ next.row = old.row /\ next.step = "next"
  BY <1>3 DEF SprintCall
<1>5. closing' = [closing EXCEPT ![c] = next] BY <1>1, <1>2, <1>3
<1>6. /\ closing' \in [SprintCalls -> SprintCall \cup {NONE}] /\ closing'[c] = next
      /\ ~sprintRace =>
           /\ \A d \in SprintCalls : SprintBusy(d)' => d = c
           /\ \A d \in SprintCalls : SprintBusy(d) => d = c
           /\ StepFits(c) /\ ClosedIsEmpty
  BY <1>1, <1>4, <1>5, SprintCallMoves
<1>7. PICK id \in SprintIds : id = old.id BY DEF SprintCall
<1>8. PICK row \in SprintRow : row = old.row BY DEF SprintCall
<1>9. UpdateSprint(id, row) BY <1>1, <1>2, <1>7, <1>8
<1>10. /\ sprint' \in [SprintIds -> SprintRow \cup {NONE, LOST}]
       /\ Existing' = Existing
       /\ \A r \in SprintIds \ {id} : r \in Closed' <=> r \in Closed
       /\ id \in Existing => sprint'[id] = row
       /\ sprint[id] # NONE => sprint'[id] # NONE
  BY <1>9, UpdateSprintStep
<1>11. SprintTypeOK'
  BY <1>1, <1>6, <1>10 DEF SprintInv, SprintTypeOK
<1>12. \A t \in SprintTasks : (inSprint[t] \in Existing \cup {NONE})'
  BY <1>1, <1>10 DEF SprintInv
<1>13. ASSUME ~sprintRace PROVE StepFits(c)'
  <2>1. sprint[id] # NONE /\ row.status = "closed"
    BY <1>1, <1>2, <1>6, <1>7, <1>8, <1>13 DEF StepFits
  <2> QED BY <1>4, <1>6, <1>7, <1>8, <1>10, <2>1 DEF StepFits
<1>14. ASSUME ~sprintRace PROVE ClosedIsEmpty'
  <2>1. \A r \in Closed \ lateOpen : r # id => OpenTasksOf(r) = {}
    BY <1>2, <1>6, <1>7, <1>14 DEF ClosedIsEmpty, SprintBusy
  <2>2. \A r : OpenTasksOf(r)' = OpenTasksOf(r) BY <1>1 DEF OpenTasksOf
  <2>3. \A r \in Closed' : r \in SprintIds BY DEF Closed, Existing
  <2>4. closing'[c] # NONE /\ closing'[c].id = id
    BY <1>4, <1>6, <1>7, SprintMarkers
  <2> QED BY <1>1, <1>10, <2>1, <2>2, <2>3, <2>4 DEF ClosedIsEmpty
<1> QED BY <1>1, <1>6, <1>11, <1>12, <1>13, <1>14 DEF SprintInv

\* The second: where its tasks will go.
LEMMA FindNextStep ==
  ASSUME SprintInv, NEW c \in SprintCalls, CloseFindNext(c)
  PROVE  SprintInv'
<1>1. /\ SprintBusy(c) /\ closing[c].step = "next"
      /\ UNCHANGED <<sprint, inSprint, finished, sprintRace, lateOpen>> /\ newcomers' = {}
  BY DEF CloseFindNext, SprintBusy
<1>2. PICK s \in NextOpenSprint(closing[c].row.end) :
        closing' = [closing EXCEPT ![c].step = "move", ![c].to = s]
  BY DEF CloseFindNext
<1>3. PICK old \in SprintCall : old = closing[c]
  BY <1>1 DEF SprintInv, SprintTypeOK, SprintBusy
<1>4. /\ s = NONE \/ (s \in Existing /\ s \notin Closed /\ sprint[s].start >= old.row.end)
      /\ s \in SprintIds \cup {NONE}
      /\ s = NONE => Candidates(old.row.end)' = {}
      /\ s \in Existing => \A r \in Candidates(old.row.end)' : sprint'[s].start <= sprint'[r].start
  <2>1. PICK day : day = old.row.end OBVIOUS
  <2>2. Candidates(day)' = {r \in Existing \ Closed : sprint[r].start >= day}
    BY <1>1 DEF Candidates, Existing, Closed
  <2>3. NONE \notin Existing BY SprintConstants DEF Existing
  <2>4. s \in NextOpenSprint(day) BY <1>2, <1>3, <2>1
  <2>5. /\ s = NONE \/ (s \in Existing /\ s \notin Closed /\ sprint[s].start >= day)
        /\ s = NONE => Candidates(day)' = {}
        /\ s \in Existing => \A r \in Candidates(day)' : sprint[s].start <= sprint[r].start
    BY <2>2, <2>3, <2>4 DEF NextOpenSprint
  <2>6. Existing \subseteq SprintIds BY DEF Existing
  <2> QED BY <1>1, <2>1, <2>5, <2>6
<1>5. PICK next : next = [id |-> old.id, row |-> old.row, step |-> "move", to |-> s] OBVIOUS
<1>6. /\ next \in SprintCall /\ next.id = old.id /\ next.row = old.row
      /\ next.step = "move" /\ next.to = s
  BY <1>4, <1>5 DEF SprintCall
<1>7. closing' = [closing EXCEPT ![c] = next]
  <2>1. PICK mid : mid = [old EXCEPT !.step = "move"] OBVIOUS
  <2>2. mid = [id |-> old.id, row |-> old.row, step |-> "move", to |-> old.to]
    BY <2>1 DEF SprintCall
  <2>3. next = [mid EXCEPT !.to = s] BY <1>5, <2>2
  <2>4. next = [old EXCEPT !.step = "move", !.to = s] BY <2>1, <2>3
  <2>5. c \in DOMAIN closing BY DEF SprintInv, SprintTypeOK
  <2> QED BY <1>2, <1>3, <2>4, <2>5
<1>8. /\ closing' \in [SprintCalls -> SprintCall \cup {NONE}] /\ closing'[c] = next
      /\ ~sprintRace =>
           /\ \A d \in SprintCalls : SprintBusy(d)' => d = c
           /\ \A d \in SprintCalls : SprintBusy(d) => d = c
           /\ StepFits(c) /\ ClosedIsEmpty
  BY <1>1, <1>6, <1>7, SprintCallMoves
<1>9. Existing' = Existing /\ Closed' = Closed /\ \A r : OpenTasksOf(r)' = OpenTasksOf(r)
  BY <1>1 DEF Existing, Closed, OpenTasksOf
<1>10. SprintTypeOK' BY <1>1, <1>8 DEF SprintInv, SprintTypeOK
<1>11. \A t \in SprintTasks : (inSprint[t] \in Existing \cup {NONE})'
  BY <1>1, <1>9 DEF SprintInv
<1>12. ASSUME ~sprintRace PROVE StepFits(c)'
  <2>1. /\ sprint[old.id] # NONE /\ old.row.status = "closed"
        /\ old.id \in Existing => sprint[old.id] = old.row
    BY <1>1, <1>3, <1>8, <1>12 DEF StepFits
  <2>2. old.id # s
    BY <1>4, <2>1, SprintConstants DEF SprintCall, Closed
  <2>3. s # NONE => sprint[s] # NONE BY <1>4 DEF Existing
  <2>4. s = NONE => s \notin Existing BY SprintConstants DEF Existing
  <2> QED BY <1>1, <1>4, <1>6, <1>8, <1>9, <2>1, <2>2, <2>3, <2>4 DEF StepFits
<1>13. ASSUME ~sprintRace PROVE ClosedIsEmpty'
  <2>1. closing'[c] # NONE /\ closing'[c].id = closing[c].id
    BY <1>3, <1>6, <1>8, SprintMarkers
  <2> QED BY <1>1, <1>8, <1>9, <1>13, <2>1 DEF ClosedIsEmpty, SprintBusy
<1> QED BY <1>1, <1>8, <1>10, <1>11, <1>12, <1>13 DEF SprintInv

\* The third: its open tasks go there.
LEMMA CloseMoveStep ==
  ASSUME SprintInv, NEW c \in SprintCalls, CloseMove(c)
  PROVE  SprintInv'
<1>1. /\ SprintBusy(c) /\ closing[c].step = "move"
      /\ closing[c].to \in Existing \cup {NONE}
      /\ MoveOpenTasks(closing[c].id, closing[c].to)
      /\ closing' = [closing EXCEPT ![c] = NONE]
      /\ lateOpen' = IF closing[c].to \in Closed /\ OpenTasksOf(closing[c].id) # {}
                     THEN lateOpen \cup {closing[c].to} ELSE lateOpen
      /\ UNCHANGED <<sprint, finished, sprintRace, newcomers>>
  BY DEF CloseMove, SprintBusy
<1>2. /\ closing' \in [SprintCalls -> SprintCall \cup {NONE}] /\ closing'[c] = NONE
      /\ closing[c] \in SprintCall
      /\ ~sprintRace =>
           /\ \A d \in SprintCalls : SprintBusy(d)' => d = c
           /\ \A d \in SprintCalls : SprintBusy(d) => d = c
           /\ StepFits(c) /\ ClosedIsEmpty
  BY <1>1, SprintCallMoves
<1>3. PICK id \in SprintIds : id = closing[c].id BY <1>2 DEF SprintCall
<1>4. PICK to \in SprintIds \cup {NONE} : to = closing[c].to BY <1>2 DEF SprintCall
<1>5. Existing' = Existing /\ Closed' = Closed BY <1>1 DEF Existing, Closed
<1>6. /\ \A t \in SprintTasks : inSprint'[t] = IF t \in OpenTasksOf(id) THEN to ELSE inSprint[t]
      /\ inSprint' \in [SprintTasks -> SprintIds \cup {NONE}]
  BY <1>1, <1>3, <1>4 DEF MoveOpenTasks, SprintInv, SprintTypeOK
<1>7. SprintTypeOK'
  <2>1. lateOpen' \in SUBSET SprintIds
    BY <1>1 DEF SprintInv, SprintTypeOK, Closed, Existing
  <2> QED BY <1>1, <1>2, <1>6, <2>1 DEF SprintInv, SprintTypeOK
<1>8. \A t \in SprintTasks : (inSprint[t] \in Existing \cup {NONE})'
  BY <1>1, <1>4, <1>5, <1>6 DEF SprintInv
<1>9. ASSUME ~sprintRace PROVE ClosedIsEmpty'
  <2>1. to # id BY <1>1, <1>2, <1>3, <1>4, <1>9 DEF StepFits
  <2>2. OpenTasksOf(id)' = {}
    BY <1>1, <1>6, <2>1 DEF OpenTasksOf
  <2>3. \A r \in Closed \ lateOpen : r # id => OpenTasksOf(r) = {}
    BY <1>2, <1>3, <1>9 DEF ClosedIsEmpty, SprintBusy
  <2>4. \A r \in Closed \ lateOpen' : r # id => OpenTasksOf(r)' = {}
    <3> SUFFICES ASSUME NEW r \in Closed \ lateOpen', r # id,
                        NEW t \in SprintTasks \ finished, inSprint'[t] = r
                 PROVE  FALSE
      BY <1>1 DEF OpenTasksOf
    <3>1. r \notin lateOpen BY <1>1
    <3>2. inSprint[t] # r BY <2>3, <3>1 DEF OpenTasksOf
    <3>3. t \in OpenTasksOf(id) /\ r = to BY <1>6, <3>2
    <3> QED BY <1>1, <1>3, <1>4, <3>3
  <2> QED BY <1>5, <2>2, <2>4 DEF ClosedIsEmpty
<1>10. \A d \in SprintCalls : ~sprintRace => ~SprintBusy(d)' BY <1>2 DEF SprintBusy
<1> QED BY <1>1, <1>7, <1>8, <1>9, <1>10 DEF SprintInv

\* A call is cut off between two statements.
LEMMA FailSprintStep ==
  ASSUME SprintInv, NEW c \in SprintCalls, FailSprintCall(c)
  PROVE  SprintInv'
<1>1. /\ SprintBusy(c)
      /\ closing' = [closing EXCEPT ![c] = NONE]
      /\ lateOpen' = IF closing[c].step \in {"next", "move"}
                     THEN lateOpen \cup {closing[c].id} ELSE lateOpen
      /\ UNCHANGED <<sprint, inSprint, finished, sprintRace, newcomers>>
  BY DEF FailSprintCall, SprintBusy
<1>2. /\ closing' \in [SprintCalls -> SprintCall \cup {NONE}] /\ closing'[c] = NONE
      /\ closing[c] \in SprintCall
      /\ ~sprintRace =>
           /\ \A d \in SprintCalls : SprintBusy(d)' => d = c
           /\ \A d \in SprintCalls : SprintBusy(d) => d = c
           /\ StepFits(c) /\ ClosedIsEmpty
  BY <1>1, SprintCallMoves
<1>3. PICK id \in SprintIds : id = closing[c].id BY <1>2 DEF SprintCall
<1>4. closing[c].step \in {"edit", "close", "next", "move"} BY <1>2 DEF SprintCall
<1>5. Existing' = Existing /\ Closed' = Closed /\ \A r : OpenTasksOf(r)' = OpenTasksOf(r)
  BY <1>1 DEF Existing, Closed, OpenTasksOf
<1>6. SprintTypeOK' BY <1>1, <1>2, <1>3 DEF SprintInv, SprintTypeOK
<1>7. \A t \in SprintTasks : (inSprint[t] \in Existing \cup {NONE})'
  BY <1>1, <1>5 DEF SprintInv
<1>8. ASSUME ~sprintRace PROVE ClosedIsEmpty'
  <2>1. \A r \in Closed \ lateOpen : r # id => OpenTasksOf(r) = {}
    BY <1>2, <1>3, <1>8 DEF ClosedIsEmpty, SprintBusy
  <2>2. id \in Closed \ lateOpen' => OpenTasksOf(id) = {}
    BY <1>1, <1>2, <1>3, <1>4, <1>8 DEF StepFits
  <2>3. lateOpen \subseteq lateOpen' BY <1>1
  <2> QED BY <1>5, <2>1, <2>2, <2>3 DEF ClosedIsEmpty
<1>9. \A d \in SprintCalls : ~sprintRace => ~SprintBusy(d)' BY <1>2 DEF SprintBusy
<1> QED BY <1>1, <1>6, <1>7, <1>8, <1>9 DEF SprintInv

\* Each step of the sprints preserves the invariant.
LEMMA SprintStep ==
  SprintInv /\ [SprintNext]_sprintVars => SprintInv'
<1> SUFFICES ASSUME SprintInv, [SprintNext]_sprintVars PROVE SprintInv' OBVIOUS
<1>1. CASE PostSprint
  <2>1. PICK s \in SprintIds, a \in Days, b \in Days, st \in Statuses : CreateSprint(s, a, b, st)
    BY <1>1 DEF PostSprint
  <2>2. PICK row : row = [start |-> a, end |-> b, status |-> st] OBVIOUS
  <2>3. row \in SprintRow BY <2>2 DEF SprintRow
  <2>4. /\ newcomers' \in SUBSET SprintIds /\ newcomers \subseteq newcomers'
        /\ \A c \in SprintCalls : SprintBusy(c) /\ closing[c].step = "move" => s \in newcomers'
    BY <2>1 DEF CreateSprint, SprintBusy, SprintInv, SprintTypeOK
  <2> QED BY <2>1, <2>2, <2>3, <2>4, SprintBorn DEF CreateSprint
<1>2. CASE PatchSprint
  BY <1>2, SprintCallBegins DEF PatchSprint, EditSprint
<1>3. CASE PostSprintClose
  <2>1. PICK c \in SprintCalls, s \in SprintIds : CloseSprint(c, s)
    BY <1>3 DEF PostSprintClose
  <2>2. PICK row : row = [sprint[s] EXCEPT !.status = "closed"] OBVIOUS
  <2>3. s \in Existing /\ s \notin Closed /\ BeginSprintCall(c, s, row, "close")
    BY <2>1, <2>2 DEF CloseSprint
  <2>4. PICK old \in SprintRow : old = sprint[s]
    BY <2>3 DEF SprintInv, SprintTypeOK, Existing
  <2>5. row \in SprintRow /\ row.status = "closed"
    BY <2>2, <2>4 DEF SprintRow, Statuses
  <2> QED BY <2>3, <2>5, SprintCallBegins
<1>4. CASE DeleteSprintById BY <1>4, DeleteSprintStep DEF DeleteSprintById
<1>5. ASSUME NEW t \in SprintTasks, NEW s \in SprintIds \cup {NONE}, NEW done \in BOOLEAN,
             UpdateTask(t, s, done)
      PROVE  SprintInv'
  BY <1>5, TaskMovedStep
<1>6. ASSUME NEW c \in SprintCalls, WriteSprint(c) PROVE SprintInv' BY <1>6, WriteSprintStep
<1>7. ASSUME NEW c \in SprintCalls, CloseWrite(c) PROVE SprintInv' BY <1>7, CloseWriteStep
<1>8. ASSUME NEW c \in SprintCalls, CloseFindNext(c) PROVE SprintInv' BY <1>8, FindNextStep
<1>9. ASSUME NEW c \in SprintCalls, CloseMove(c) PROVE SprintInv' BY <1>9, CloseMoveStep
<1>10. ASSUME NEW c \in SprintCalls, FailSprintCall(c) PROVE SprintInv' BY <1>10, FailSprintStep
<1>11. CASE UNCHANGED sprintVars
  <2>1. Existing' = Existing /\ Closed' = Closed /\ \A r : OpenTasksOf(r)' = OpenTasksOf(r)
    BY <1>11 DEF sprintVars, Existing, Closed, OpenTasksOf
  <2> QED
    BY <1>11, <2>1
       DEF sprintVars, SprintInv, SprintTypeOK, SprintBusy, StepFits, ClosedIsEmpty, Candidates
<1> QED
  BY <1>1, <1>2, <1>3, <1>4, <1>5, <1>6, <1>7, <1>8, <1>9, <1>10, <1>11 DEF SprintNext

\* When a sprint's closing is over (service/sprint, Close) no open task is left in it,
\* whatever tasks do meanwhile; the exceptions are the history's.
THEOREM ClosedIsEmptyHolds ==
  SprintSpec => []ClosedIsEmpty
<1>1. SprintInv => ClosedIsEmpty BY DEF SprintInv, ClosedIsEmpty
<1> QED BY <1>1, SprintInitHolds, SprintStep, PTL DEF SprintSpec

\* Open tasks move to the first open sprint that starts no earlier than theirs ends, and to
\* none only if there is none (service/sprint, Close; repository/sprint, NextOpenSprint),
\* whatever happens to sprints and tasks between the look and the moving.
THEOREM RollsForwardHolds ==
  SprintSpec => []RollsForward
<1>1. ASSUME SprintInv PROVE RollsForward
  <2> SUFFICES ASSUME ~sprintRace, NEW c \in SprintCalls, closing[c] # NONE,
                      closing[c].step = "move", NEW from,
                      from = IF closing[c].id \in Existing THEN sprint[closing[c].id]
                             ELSE closing[c].row
               PROVE  LET to == closing[c].to
                      IN  /\ to = NONE => Candidates(from.end) = {}
                          /\ to \in Existing =>
                               /\ to \notin Closed /\ sprint[to].start >= from.end
                               /\ \A s \in Candidates(from.end) : sprint[to].start <= sprint[s].start
    BY DEF RollsForward
  <2>1. StepFits(c) BY <1>1 DEF SprintInv, SprintBusy
  <2>2. from = closing[c].row BY <2>1 DEF StepFits
  <2> QED BY <2>1, <2>2 DEF StepFits
<1> QED BY <1>1, SprintInitHolds, SprintStep, PTL DEF SprintSpec

-----------------------------------------------------------------------------
(* How long the timers of a user have run.                                     *)

Durations(f) == [e \in Entries |-> f[e].dur]

\* The entries whose durations a report adds up, if the table is f.
CountedFor(f, u, ids) ==
    {e \in ids : f[e] \notin {NULL, GONE} /\ f[e].user = u /\ NULL \notin {f[e].stop, f[e].dur}}

\* The report's fold over the entries is a sum.
LEMMA DurationsAdd ==
  ASSUME NEW f, NEW S, S \subseteq Entries, IsFiniteSet(S)
  PROVE  MapThenSumSet(LAMBDA e : f[e].dur, S) = SumOf(Durations(f), S)
<1> DEFINE h == Durations(f)
           Sums(g) == g = [s \in SUBSET S |->
                            IF s = {} THEN 0
                            ELSE f[CHOOSE x \in s : TRUE].dur + g[s \ {CHOOSE x \in s : TRUE}]]
           iter == CHOOSE g : Sums(g)
           k == CHOOSE g : IsSum(g, h, S)
<1>1. ASSUME NEW g PROVE Sums(g) <=> IsSum(g, h, S)
  <2>1. \A s \in SUBSET S : s # {} => h[Some(s)] = f[CHOOSE x \in s : TRUE].dur
    BY DEF Some, Durations
  <2> HIDE DEF h
  <2>2. [s \in SUBSET S |-> IF s = {} THEN 0
                            ELSE f[CHOOSE x \in s : TRUE].dur + g[s \ {CHOOSE x \in s : TRUE}]]
        = [s \in SUBSET S |-> IF s = {} THEN 0 ELSE h[Some(s)] + g[s \ {Some(s)}]]
    BY <2>1 DEF Some
  <2> QED BY <2>2 DEF IsSum
<1>2. MapThenSumSet(LAMBDA e : f[e].dur, S) = iter[S]
  BY Zenon DEF MapThenSumSet, MapThenFoldSet
<1> HIDE DEF Sums, h
<1>3. \E g : IsSum(g, h, S) BY SumExists
<1>4. Sums(iter) BY <1>1, <1>3
<1>5. IsSum(k, h, S) BY <1>3
<1>6. IsSum(iter, h, S) BY <1>1, <1>4
<1> HIDE DEF iter
<1>7. SumOf(h, S) = k[S] BY DEF SumOf
<1> HIDE DEF k
<1>8. iter[S] = k[S]
  <2>1. SameOn(h, h, S) /\ S \subseteq S BY DEF SameOn
  <2> QED BY <1>5, <1>6, <2>1, SumsAgree
<1>9. MapThenSumSet(LAMBDA e : f[e].dur, S) = SumOf(h, S) BY <1>2, <1>7, <1>8
<1> QED BY <1>9 DEF h

Total(f, u, ids) == SumOf(Durations(f), CountedFor(f, u, ids))

ReportIsTotal == \A u : Report(u, Entries \ byHand) = Total(entry, u, Entries \ byHand)

\* A user's report is the sum of the durations of the counted entries.
LEMMA ReportAdds == ReportIsTotal
<1> SUFFICES ASSUME NEW u
             PROVE  Report(u, Entries \ byHand) = Total(entry, u, Entries \ byHand)
  BY DEF ReportIsTotal
<1> DEFINE ids == Entries \ byHand
           S == {e \in ids \cap Live : entry[e].user = u /\ NULL \notin {entry[e].stop, entry[e].dur}}
<1>1. S = CountedFor(entry, u, ids) BY DEF CountedFor, Live
<1>2. S \subseteq Entries /\ IsFiniteSet(S) BY TimerConstants, FS_Subset
<1>3. Report(u, ids) = MapThenSumSet(LAMBDA e : entry[e].dur, S) BY Zenon DEF Report
<1> HIDE DEF S
<1>4. MapThenSumSet(LAMBDA e : entry[e].dur, S) = SumOf(Durations(entry), S)
  BY <1>2, DurationsAdd, Zenon
<1> QED BY <1>1, <1>3, <1>4 DEF Total

\* The same of the next state.
LEMMA ReportAddsNext == ReportIsTotal'
BY ReportAdds, PTL

\* The numbers a report of entries not made by hand adds up.
StartsPast ==
    \A e \in Live \ byHand :
        /\ entry[e].start <= clock
        /\ entry[e].stop # NULL => entry[e].dur \in Nat

\* What an undisturbed call is about to stop still runs, since when its copy says.
CopiesRunning(c) ==
    TimerBusy(c) /\ timing[c].kind # "edit" /\ timing[c].user \notin crossed =>
        \A e \in (Copies(c) \cap Live) \ byHand :
            entry[e].stop = NULL /\ timing[c].copy[e].start = entry[e].start

\* All that is counted was over when the running timer was started.
CountedBefore ==
    \A u \in Users \ crossed : \A e \in Live \ byHand :
        entry[e].user = u /\ entry[e].stop = NULL
            => Report(u, Entries \ byHand) <= entry[e].start

SecondsInv ==
    /\ TimerInv
    /\ StartsPast
    /\ \A c \in TimerCalls : CopiesRunning(c)
    /\ CountedBefore
    /\ NoSecondTwice

\* A report is a number.
LEMMA ReportIsNumber ==
  ASSUME TimerTypeOK, NEW u
  PROVE  Report(u, Entries \ byHand) \in Int
<1> DEFINE S == CountedFor(entry, u, Entries \ byHand)
           h == Durations(entry)
<1>1. S \subseteq Entries /\ IsFiniteSet(S) BY TimerConstants, FS_Subset DEF CountedFor
<1>2. \A i \in S : h[i] \in Int
  <2> SUFFICES ASSUME NEW i \in S PROVE h[i] \in Int OBVIOUS
  <2>1. i \in Entries /\ entry[i] \in Row /\ entry[i].dur # NULL
    BY <1>1 DEF CountedFor, TimerTypeOK
  <2> QED BY <2>1 DEF Row, Durations
<1>3. IntsOn(h, S) BY <1>2 DEF IntsOn
<1>4. Report(u, Entries \ byHand) = SumOf(h, S) BY ReportAdds DEF ReportIsTotal, Total
<1> HIDE DEF S, h
<1> QED BY <1>1, <1>3, <1>4, SumParts

\* A step that writes one row e changes a report by what that row says.
LEMMA OneRowChanges ==
  ASSUME TimerTypeOK, TimerTypeOK', StartsPast, NEW e \in Entries,
         \A i \in Entries \ {e} : entry'[i] = entry[i],
         byHand \subseteq byHand', byHand' \subseteq byHand \cup {e}, NEW u
  PROVE  /\ Report(u, Entries \ byHand) \in Int /\ Report(u, Entries \ byHand)' \in Int
         /\ e \notin CountedFor(entry', u, Entries \ byHand')
              => Report(u, Entries \ byHand)' <= Report(u, Entries \ byHand)
         /\ e \notin CountedFor(entry, u, Entries \ byHand)
            /\ e \in CountedFor(entry', u, Entries \ byHand')
              => Report(u, Entries \ byHand)' = Report(u, Entries \ byHand) + entry'[e].dur
<1> DEFINE S == CountedFor(entry, u, Entries \ byHand)
           T == CountedFor(entry', u, Entries \ byHand')
           h == Durations(entry)
           j == Durations(entry')
<1>1. S \subseteq Entries /\ T \subseteq Entries /\ IsFiniteSet(S) /\ IsFiniteSet(T)
  BY TimerConstants, FS_Subset DEF CountedFor
<1>2. S \ {e} = T \ {e} BY DEF CountedFor
<1>3. \A i \in Entries : h[i] = entry[i].dur /\ j[i] = entry'[i].dur BY DEF Durations
<1>4. \A i \in S : h[i] \in Nat
  <2> SUFFICES ASSUME NEW i \in S PROVE h[i] \in Nat OBVIOUS
  <2>1. i \in Live \ byHand /\ entry[i].stop # NULL BY DEF CountedFor, Live
  <2> QED BY <1>1, <1>3, <2>1 DEF StartsPast
<1>5. \A i \in T : j[i] \in Int
  <2> SUFFICES ASSUME NEW i \in T PROVE j[i] \in Int OBVIOUS
  <2>1. i \in Entries /\ entry'[i] \in Row /\ entry'[i].dur # NULL
    BY <1>1 DEF CountedFor, TimerTypeOK
  <2> QED BY <1>3, <2>1 DEF Row
<1>6. Report(u, Entries \ byHand) = SumOf(h, S) BY ReportAdds DEF ReportIsTotal, Total
<1>7. Report(u, Entries \ byHand)' = SumOf(j, T) BY ReportAddsNext DEF ReportIsTotal, Total
<1>8. SameOn(h, j, S \ {e}) BY <1>1, <1>3 DEF SameOn
<1>a. IntsOn(h, S) BY <1>4 DEF IntsOn
<1>b. IntsOn(j, T) BY <1>5 DEF IntsOn
<1> HIDE DEF S, T, h, j
<1>9. SumOf(h, S \ {e}) = SumOf(j, T \ {e}) /\ IsFiniteSet(S \ {e})
  BY <1>1, <1>2, <1>8, SumSame, FS_Subset
<1>10. /\ SumOf(h, S \ {e}) \in Int /\ SumOf(h, S) \in Int
       /\ e \in S => SumOf(h, S) = SumOf(h, S \ {e}) + h[e]
       /\ e \notin S => SumOf(h, S \ {e}) = SumOf(h, S)
  BY <1>a, <1>1, SumParts
<1>11. /\ SumOf(j, T) \in Int
       /\ e \in T => SumOf(j, T) = SumOf(j, T \ {e}) + j[e]
       /\ e \notin T => SumOf(j, T \ {e}) = SumOf(j, T)
  BY <1>1, <1>b, SumParts
<1>12. e \in S => h[e] \in Nat BY <1>4
<1>13. e \in T => j[e] \in Int /\ j[e] = entry'[e].dur BY <1>3, <1>5
<1> DEFINE a == SumOf(h, S)
           b == SumOf(j, T)
           r == SumOf(h, S \ {e})
<1>14. /\ a \in Int /\ b \in Int /\ r \in Int
       /\ e \in S => a = r + h[e]
       /\ e \notin S => r = a
       /\ e \in T => b = r + j[e]
       /\ e \notin T => b = r
  BY <1>9, <1>10, <1>11
<1>15. Report(u, Entries \ byHand) = a /\ Report(u, Entries \ byHand)' = b BY <1>6, <1>7
<1> HIDE DEF a, b, r
<1>16. e \notin T => b <= a BY <1>12, <1>14
<1>17. e \notin S /\ e \in T => b = a + entry'[e].dur BY <1>13, <1>14
<1> QED BY <1>14, <1>15, <1>16, <1>17 DEF S, T

\* A step writes no row.
LEMMA NoRowChanges ==
  ASSUME SecondsInv, TimerInv', UNCHANGED <<entry, byHand>>, crossed \subseteq crossed',
         clock <= clock'
  PROVE  StartsPast' /\ CountedBefore' /\ NoSecondTwice'
<1>1. \A u : Report(u, Entries \ byHand)' = Report(u, Entries \ byHand)
  <2> TAKE u
  <2>1. Report(u, Entries \ byHand)' = Total(entry, u, Entries \ byHand)
    BY ReportAddsNext DEF ReportIsTotal
  <2> QED BY <2>1, ReportAdds DEF ReportIsTotal
<1>2. Live' = Live BY DEF Live
<1>3. clock \in Int /\ clock' \in Int
  BY TimesAreNumbers DEF SecondsInv, TimerInv, TimerTypeOK
<1>4. StartsPast'
  <2> SUFFICES ASSUME NEW e \in Live \ byHand
               PROVE  entry[e].start <= clock' /\ (entry[e].stop # NULL => entry[e].dur \in Nat)
    BY <1>2 DEF StartsPast
  <2>1. entry[e] \in Row BY DEF Live, SecondsInv, TimerInv, TimerTypeOK
  <2>2. entry[e].start \in Int BY <2>1, TimesAreNumbers DEF Row
  <2> QED BY <1>3, <2>2 DEF SecondsInv, StartsPast
<1>5. CountedBefore'
  BY <1>1, <1>2 DEF SecondsInv, CountedBefore
<1>6. NoSecondTwice'
  <2> SUFFICES ASSUME NEW u \in Users \ crossed PROVE Report(u, Entries \ byHand) <= clock'
    BY <1>1 DEF NoSecondTwice
  <2>1. Report(u, Entries \ byHand) <= clock BY DEF SecondsInv, NoSecondTwice
  <2>2. Report(u, Entries \ byHand) \in Int
    BY ReportIsNumber DEF SecondsInv, TimerInv
  <2> QED BY <1>3, <2>1, <2>2
<1> QED BY <1>4, <1>5, <1>6

\* A step writes one row: it is not counted, or it ran and is now counted for the
\* time since its start; and if it runs, it was started just now.
LEMMA OneRowCounts ==
  ASSUME SecondsInv, TimerInv', NEW e \in Entries,
         \A i \in Entries \ {e} : entry'[i] = entry[i],
         byHand \subseteq byHand', byHand' \subseteq byHand \cup {e},
         UNCHANGED <<clock, crossed>>,
         e \in Live' \ byHand' => /\ entry'[e].start <= clock
                                  /\ entry'[e].stop # NULL => entry'[e].dur \in Nat,
         \A u \in Users \ crossed : e \in CountedFor(entry', u, Entries \ byHand') =>
            /\ e \in Live \ byHand /\ entry[e].user = u /\ entry[e].stop = NULL
            /\ entry'[e].dur = clock - entry[e].start,
         \A u \in Users \ crossed : e \in Live' \ byHand' /\ entry'[e].user = u
            /\ entry'[e].stop = NULL => entry'[e].start = clock
  PROVE  StartsPast' /\ CountedBefore' /\ NoSecondTwice'
<1>1. /\ TimerTypeOK /\ TimerTypeOK' /\ clock \in Int
      /\ StartsPast
  BY TimesAreNumbers DEF SecondsInv, TimerInv, TimerTypeOK
<1>2. \A i \in (Live \ byHand)' : i # e => i \in Live \ byHand /\ entry'[i] = entry[i]
  BY DEF Live
<1>3. StartsPast'
  <2> SUFFICES ASSUME NEW i \in (Live \ byHand)'
               PROVE  /\ entry'[i].start <= clock
                      /\ entry'[i].stop # NULL => entry'[i].dur \in Nat
    BY DEF StartsPast
  <2>1. CASE i = e BY <2>1
  <2>2. CASE i # e BY <1>1, <1>2, <2>2 DEF StartsPast
  <2> QED BY <2>1, <2>2
<1>4. ASSUME NEW u \in Users \ crossed
      PROVE  /\ Report(u, Entries \ byHand)' <= clock
             /\ \A i \in (Live \ byHand)' : entry'[i].user = u /\ entry'[i].stop = NULL
                  => Report(u, Entries \ byHand)' <= entry'[i].start
  <2> DEFINE a == Report(u, Entries \ byHand)
             b == Report(u, Entries \ byHand)'
  <2>1. /\ a \in Int /\ b \in Int
        /\ e \notin CountedFor(entry', u, Entries \ byHand') => b <= a
        /\ e \notin CountedFor(entry, u, Entries \ byHand)
           /\ e \in CountedFor(entry', u, Entries \ byHand') => b = a + entry'[e].dur
    BY <1>1, OneRowChanges
  <2>2. a <= clock BY DEF SecondsInv, NoSecondTwice
  <2>3. \A i \in Live \ byHand : entry[i].user = u /\ entry[i].stop = NULL => a <= entry[i].start
    BY DEF SecondsInv, CountedBefore
  <2> HIDE DEF a, b
  <2>4. CASE e \notin CountedFor(entry', u, Entries \ byHand')
    <3>1. b <= clock BY <1>1, <2>1, <2>2, <2>4
    <3>2. ASSUME NEW i \in (Live \ byHand)', entry'[i].user = u, entry'[i].stop = NULL
          PROVE  b <= entry'[i].start
      <4>1. CASE i = e BY <3>1, <3>2, <4>1
      <4>2. CASE i # e
        <5>1. a <= entry'[i].start BY <1>2, <2>3, <3>2, <4>2
        <5>2. i \in Entries /\ entry'[i] \in Row
          BY <1>1 DEF Live, TimerTypeOK
        <5>3. entry'[i].start \in Int BY <5>2, TimesAreNumbers DEF Row
        <5> QED BY <2>1, <2>4, <5>1, <5>3
      <4> QED BY <4>1, <4>2
    <3> QED BY <3>1, <3>2 DEF b
  <2>5. CASE e \in CountedFor(entry', u, Entries \ byHand')
    <3>1. /\ e \in Live \ byHand /\ entry[e].user = u /\ entry[e].stop = NULL
          /\ entry'[e].dur = clock - entry[e].start
      BY <2>5
    <3>2. e \notin CountedFor(entry, u, Entries \ byHand) BY <3>1 DEF CountedFor
    <3>3. b = a + entry'[e].dur BY <2>1, <2>5, <3>2
    <3>4. entry[e] \in Row BY <1>1, <3>1 DEF Live, TimerTypeOK
    <3>5. entry[e].start \in Int BY <3>4, TimesAreNumbers DEF Row
    <3>6. a <= entry[e].start BY <2>3, <3>1
    <3>7. b <= clock BY <1>1, <2>1, <3>1, <3>3, <3>5, <3>6
    <3>8. ASSUME NEW i \in (Live \ byHand)', entry'[i].user = u, entry'[i].stop = NULL
          PROVE  FALSE
      <4>1. i # e BY <2>5, <3>8 DEF CountedFor
      <4>2. i \in Live \ byHand /\ entry[i].user = u /\ entry[i].stop = NULL
        BY <1>2, <3>8, <4>1
      <4> QED BY <3>1, <4>1, <4>2 DEF SecondsInv, TimerInv, SingleTimer
    <3> QED BY <3>7, <3>8 DEF b
  <2> QED BY <2>4, <2>5
<1>5. CountedBefore' /\ NoSecondTwice'
  BY <1>4 DEF CountedBefore, NoSecondTwice
<1> QED BY <1>3, <1>5

\* A call begins; what it is to stop, it has found running.
LEMMA BeginCounts ==
  ASSUME SecondsInv, TimerInv', NEW c \in TimerCalls, NEW u \in Users,
         NEW kind \in {"start", "stop", "edit"}, NEW rows,
         DOMAIN rows \subseteq Entries,
         kind # "edit" => \A e \in DOMAIN rows : e \in ActiveForUser(u) /\ rows[e] = entry[e],
         Begin(c, u, kind, rows)
  PROVE  SecondsInv'
<1>1. /\ timing[c] = NULL
      /\ timing' = [timing EXCEPT ![c] =
            [user |-> u, kind |-> kind,
             copy |-> [e \in Entries |-> IF e \in DOMAIN rows THEN rows[e] ELSE NULL]]]
      /\ crossed \subseteq crossed'
      /\ UNCHANGED <<clock, entry, byHand>>
  BY DEF Begin
<1>2. clock <= clock' BY <1>1, TimesAreNumbers DEF SecondsInv, TimerInv, TimerTypeOK
<1>3. StartsPast' /\ CountedBefore' /\ NoSecondTwice' BY <1>1, <1>2, NoRowChanges
<1>4. Live' = Live BY <1>1 DEF Live
<1>5. ASSUME NEW d \in TimerCalls PROVE CopiesRunning(d)'
  <2>1. CASE d # c
    <3>1. timing'[d] = timing[d] BY <1>1, <2>1 DEF SecondsInv, TimerInv, TimerTypeOK
    <3>2. Copies(d)' = Copies(d) BY <3>1 DEF Copies
    <3> QED BY <1>1, <1>4, <3>1, <3>2 DEF SecondsInv, CopiesRunning, TimerBusy
  <2>2. CASE d = c
    <3> SUFFICES ASSUME kind # "edit", NEW e \in Copies(c)'
                 PROVE  entry'[e].stop = NULL /\ timing'[c].copy[e].start = entry'[e].start
      <4>1. timing'[c].kind = kind BY <1>1 DEF SecondsInv, TimerInv, TimerTypeOK
      <4> QED BY <2>2, <4>1 DEF CopiesRunning
    <3>1. \A i \in Entries : timing'[c].copy[i] = IF i \in DOMAIN rows THEN rows[i] ELSE NULL
      BY <1>1 DEF SecondsInv, TimerInv, TimerTypeOK
    <3>2. e \in Entries /\ e \in DOMAIN rows /\ timing'[c].copy[e] = rows[e]
      BY <3>1 DEF Copies
    <3>3. e \in ActiveForUser(u) /\ rows[e] = entry[e] BY <3>2
    <3> QED BY <1>1, <3>2, <3>3 DEF ActiveForUser
  <2> QED BY <2>1, <2>2
<1> QED BY <1>3, <1>5 DEF SecondsInv

\* One row is written, none that an undisturbed call has still to stop.
LEMMA CopiesStillRun ==
  ASSUME SecondsInv, NEW e \in Entries, \A i \in Entries \ {e} : entry'[i] = entry[i],
         byHand \subseteq byHand', UNCHANGED crossed,
         \A d \in TimerCalls : TimerBusy(d)' =>
            /\ TimerBusy(d) /\ timing'[d].kind = timing[d].kind /\ timing'[d].user = timing[d].user
            /\ \A i \in Copies(d)' : i \in Copies(d) /\ timing'[d].copy[i] = timing[d].copy[i],
         \A d \in TimerCalls : TimerBusy(d)' /\ timing'[d].user \notin crossed /\ e \in Copies(d)'
            => e \notin Live' \ byHand'
  PROVE  \A d \in TimerCalls : CopiesRunning(d)'
<1> SUFFICES ASSUME NEW d \in TimerCalls, TimerBusy(d)', timing'[d].kind # "edit",
                    timing'[d].user \notin crossed, NEW i \in (Copies(d)' \cap Live') \ byHand'
             PROVE  entry'[i].stop = NULL /\ timing'[d].copy[i].start = entry'[i].start
  BY DEF CopiesRunning
<1>1. i # e /\ i \in Entries BY DEF Copies
<1>2. entry'[i] = entry[i] /\ i \in Live \ byHand BY <1>1 DEF Live
<1> QED BY <1>2 DEF SecondsInv, CopiesRunning

\* One round of stopAllActive, which ends the entry or finds it gone.
LEMMA FinalizeCounts ==
  ASSUME SecondsInv, TimerInv', NEW c \in TimerCalls, stopAllActive(c)
  PROVE  SecondsInv'
<1>1. /\ timing[c] \in TimerCall /\ TimerBusy(c) /\ timing[c].kind # "edit"
      /\ UNCHANGED <<clock, crossed, byHand>>
  BY DEF stopAllActive, SecondsInv, TimerInv, TimerTypeOK, TimerBusy
<1>2. PICK e \in Copies(c) :
        IF clock < timing[c].copy[e].start
        THEN timing' = [timing EXCEPT ![c] = NULL] /\ UNCHANGED entry
        ELSE /\ UpdateEntry(e, finalize(timing[c].copy[e]))
             /\ timing' = [timing EXCEPT ![c] =
                  IF timing[c].kind = "stop" THEN NULL ELSE [@ EXCEPT !.copy[e] = NULL]]
  BY DEF stopAllActive
<1>3. /\ e \in Entries /\ timing[c].copy[e] \in Row
      /\ e \in Live => entry[e].user = timing[c].user /\ entry[e] \in Row
      /\ clock \in Int /\ timing[c].user \in Users
  BY <1>1, TimesAreNumbers
     DEF Copies, TimerCall, SecondsInv, TimerInv, CopiesOwned, TimerTypeOK, Live
<1>4. PICK old : old = timing[c].copy[e] OBVIOUS
<1>5. PICK u \in Users : u = timing[c].user BY <1>3
<1>6. CASE clock < old.start
  <2>1. timing' = [timing EXCEPT ![c] = NULL] /\ UNCHANGED <<entry, byHand>>
    BY <1>1, <1>2, <1>4, <1>6
  <2>2. StartsPast' /\ CountedBefore' /\ NoSecondTwice' BY <1>1, <1>3, <2>1, NoRowChanges
  <2>3. \A d \in TimerCalls : CopiesRunning(d)'
    <3> SUFFICES ASSUME NEW d \in TimerCalls, TimerBusy(d)' PROVE CopiesRunning(d)'
      BY DEF CopiesRunning
    <3>1. timing'[d] = timing[d] BY <2>1 DEF SecondsInv, TimerInv, TimerTypeOK, TimerBusy
    <3>2. Copies(d)' = Copies(d) /\ Live' = Live BY <2>1, <3>1 DEF Copies, Live
    <3> QED BY <1>1, <2>1, <3>1, <3>2 DEF SecondsInv, CopiesRunning, TimerBusy
  <2> QED BY <2>2, <2>3 DEF SecondsInv
<1>7. CASE ~(clock < old.start)
  <2>1. /\ UpdateEntry(e, finalize(old))
        /\ timing' = [timing EXCEPT ![c] =
                  IF timing[c].kind = "stop" THEN NULL ELSE [@ EXCEPT !.copy[e] = NULL]]
    BY <1>2, <1>4, <1>7
  <2>2. \A i \in Entries \ {e} : entry'[i] = entry[i]
    BY <1>3, <2>1 DEF UpdateEntry, SecondsInv, TimerInv, TimerTypeOK
  <2>3. /\ e \in Live' => e \in Live
        /\ e \in Live => /\ entry'[e].user = u /\ entry'[e].stop = clock
                         /\ entry'[e].start = entry[e].start
                         /\ entry'[e].dur = clock - old.start
    <3>1. CASE e \notin Live BY <2>1, <3>1 DEF UpdateEntry, Live
    <3>2. CASE e \in Live
      <4>1. PICK row : row = finalize(old) OBVIOUS
      <4>2. old \in Row /\ old.user = u /\ row = [old EXCEPT !.stop = clock, !.dur = clock - old.start]
        BY <1>1, <1>3, <1>4, <1>5, <4>1 DEF finalize, SecondsInv, TimerInv, CopiesOwned
      <4>3. PICK n : n = clock - old.start OBVIOUS
      <4>4. PICK ended : ended = [old EXCEPT !.stop = clock] OBVIOUS
      <4>5. ended.user = u /\ ended.stop = clock /\ DOMAIN ended = {"user", "start", "stop", "dur"}
        BY <4>2, <4>4 DEF Row
      <4>6. row = [ended EXCEPT !.dur = n] BY <4>2, <4>3, <4>4
      <4>7. /\ row.user = u /\ row.stop = clock /\ row.dur = n
            /\ DOMAIN row = {"user", "start", "stop", "dur"}
        BY <4>5, <4>6
      <4>8. PICK put : put = [row EXCEPT !.start = entry[e].start] OBVIOUS
      <4>9. /\ put.user = u /\ put.stop = clock /\ put.dur = n /\ put.start = entry[e].start
        BY <4>7, <4>8
      <4>10. entry'[e] = put
        BY <1>3, <2>1, <3>2, <4>1, <4>8 DEF UpdateEntry, SecondsInv, TimerInv, TimerTypeOK
      <4> QED BY <3>2, <4>3, <4>9, <4>10
    <3> QED BY <3>1, <3>2
  <2>4. u \notin crossed /\ e \in Live \ byHand => entry[e].stop = NULL /\ old.start = entry[e].start
    BY <1>1, <1>4, <1>5 DEF SecondsInv, CopiesRunning
  <2>5. old.start \in Int BY <1>3, <1>4, TimesAreNumbers DEF Row
  <2>6. e \in Live' \ byHand' => /\ entry'[e].start <= clock
                                 /\ entry'[e].stop # NULL => entry'[e].dur \in Nat
    BY <1>1, <1>3, <1>7, <2>3, <2>5 DEF SecondsInv, StartsPast
  <2>7. ASSUME NEW v \in Users \ crossed, e \in CountedFor(entry', v, Entries \ byHand')
        PROVE  /\ e \in Live \ byHand /\ entry[e].user = v /\ entry[e].stop = NULL
               /\ entry'[e].dur = clock - entry[e].start
    <3>1. e \in Live' /\ e \notin byHand /\ entry'[e].user = v
      BY <1>1, <2>7 DEF CountedFor, Live
    <3> QED BY <1>3, <1>5, <2>3, <2>4, <2>7, <3>1
  <2>8. e \in Live' => entry'[e].stop # NULL
    BY <2>3, TimesAreNumbers DEF SecondsInv, TimerInv, TimerTypeOK
  <2>9. StartsPast' /\ CountedBefore' /\ NoSecondTwice'
    BY <1>1, <1>3, <2>2, <2>6, <2>7, <2>8, OneRowCounts
  <2>10. ASSUME NEW d \in TimerCalls, TimerBusy(d)'
         PROVE  /\ TimerBusy(d) /\ timing'[d].kind = timing[d].kind
                /\ timing'[d].user = timing[d].user
                /\ \A i \in Copies(d)' : i \in Copies(d) /\ timing'[d].copy[i] = timing[d].copy[i]
                /\ e \in Copies(d)' /\ timing'[d].user \notin crossed => e \notin Live'
    <3>1. CASE d # c
      <4>1. timing'[d] = timing[d] BY <2>1, <3>1 DEF SecondsInv, TimerInv, TimerTypeOK
      <4>2. Copies(d)' = Copies(d) /\ TimerBusy(d) BY <2>10, <4>1 DEF Copies, TimerBusy
      <4>3. ASSUME e \in Copies(d), timing[d].user \notin crossed, e \in Live PROVE FALSE
        <5>1. timing[d].user = timing[c].user
          BY <1>3, <4>2, <4>3 DEF SecondsInv, TimerInv, CopiesOwned
        <5> QED BY <1>1, <3>1, <4>2, <4>3, <5>1 DEF SecondsInv, TimerInv, TimersAlone
      <4> QED BY <2>3, <4>1, <4>2, <4>3
    <3>2. CASE d = c
      <4>1. timing'[c] = [timing[c] EXCEPT !.copy[e] = NULL]
        BY <2>1, <2>10, <3>2 DEF SecondsInv, TimerInv, TimerTypeOK, TimerBusy
      <4>2. /\ timing'[c].kind = timing[c].kind /\ timing'[c].user = timing[c].user
            /\ timing'[c].copy = [timing[c].copy EXCEPT ![e] = NULL]
        BY <1>1, <4>1 DEF TimerCall
      <4>3. timing[c].copy \in [Entries -> Row \cup {NULL}] BY <1>1 DEF TimerCall
      <4>4. e \notin Copies(c)' BY <1>3, <4>2, <4>3 DEF Copies
      <4>5. \A i \in Copies(c)' : i \in Copies(c) /\ timing'[c].copy[i] = timing[c].copy[i]
        BY <1>3, <4>2, <4>3, <4>4 DEF Copies
      <4> QED BY <1>1, <3>2, <4>2, <4>4, <4>5
    <3> QED BY <3>1, <3>2
  <2>11. \A d \in TimerCalls : CopiesRunning(d)'
    BY <1>1, <1>3, <2>2, <2>10, CopiesStillRun
  <2> QED BY <2>9, <2>11 DEF SecondsInv
<1> QED BY <1>4, <1>6, <1>7

\* A start that opens its timer: until now no second was counted twice.
LEMMA OpenCounts ==
  ASSUME SecondsInv, TimerInv', NEW c \in TimerCalls, OpenTimer(c)
  PROVE  SecondsInv'
<1>1. PICK e \in Entries :
        InsertEntry(e, [user |-> timing[c].user, start |-> clock, stop |-> NULL, dur |-> NULL])
  BY DEF OpenTimer
<1>2. /\ entry[e] = NULL /\ \A i \in Entries \ {e} : entry'[i] = entry[i]
      /\ entry'[e] = [user |-> timing[c].user, start |-> clock, stop |-> NULL, dur |-> NULL]
      /\ UNCHANGED <<clock, crossed, byHand>>
      /\ clock \in Int
  BY <1>1, TimesAreNumbers DEF InsertEntry, OpenTimer, SecondsInv, TimerInv, TimerTypeOK
<1>3. entry'[e].start = clock /\ entry'[e].stop = NULL BY <1>2
<1>4. \A u : e \notin CountedFor(entry', u, Entries \ byHand') BY <1>3 DEF CountedFor
<1>a. entry'[e].start <= clock /\ (entry'[e].stop # NULL => entry'[e].dur \in Nat)
  BY <1>2, <1>3
<1>b. byHand \subseteq byHand' /\ byHand' \subseteq byHand \cup {e} BY <1>2
<1>5. StartsPast' /\ CountedBefore' /\ NoSecondTwice'
  BY <1>2, <1>3, <1>4, <1>a, <1>b, OneRowCounts
<1>6. ASSUME NEW d \in TimerCalls, TimerBusy(d)'
      PROVE  /\ timing'[d] = timing[d] /\ TimerBusy(d) /\ Copies(d)' = Copies(d)
             /\ e \notin Copies(d)
  <2>1. timing'[d] = timing[d] /\ TimerBusy(d)
    BY <1>6 DEF OpenTimer, SecondsInv, TimerInv, TimerTypeOK, TimerBusy
  <2>2. Copies(d)' = Copies(d) BY <2>1 DEF Copies
  <2>3. e \notin Copies(d) BY <1>2, <2>1 DEF SecondsInv, TimerInv, CopiesOwned
  <2> QED BY <2>1, <2>2, <2>3
<1>7. \A d \in TimerCalls : CopiesRunning(d)' BY <1>2, <1>6, CopiesStillRun
<1> QED BY <1>5, <1>7 DEF SecondsInv

\* What is made, edited or deleted by hand is not counted, and nothing else changes.
LEMMA HandCounts ==
  ASSUME SecondsInv, TimerInv', NEW e \in Entries,
         \A i \in Entries \ {e} : entry'[i] = entry[i],
         byHand \subseteq byHand', byHand' \subseteq byHand \cup {e},
         e \in byHand' \/ entry'[e] = GONE,
         \A d \in TimerCalls : TimerBusy(d)' => timing'[d] = timing[d] /\ TimerBusy(d),
         UNCHANGED <<clock, crossed>>
  PROVE  SecondsInv'
<1>1. e \notin Live' \ byHand' BY DEF Live
<1>2. \A u : e \notin CountedFor(entry', u, Entries \ byHand') BY DEF CountedFor
<1>3. StartsPast' /\ CountedBefore' /\ NoSecondTwice' BY <1>1, <1>2, OneRowCounts
<1>4. \A d \in TimerCalls : TimerBusy(d)' => Copies(d)' = Copies(d) BY DEF Copies
<1>5. \A d \in TimerCalls : CopiesRunning(d)' BY <1>1, <1>4, CopiesStillRun
<1> QED BY <1>3, <1>5 DEF SecondsInv

\* No row is written, and a call may end.
LEMMA IdleCounts ==
  ASSUME SecondsInv, TimerInv', UNCHANGED <<entry, crossed, byHand>>, clock <= clock',
         \A d \in TimerCalls : TimerBusy(d)' => timing'[d] = timing[d] /\ TimerBusy(d)
  PROVE  SecondsInv'
<1>1. StartsPast' /\ CountedBefore' /\ NoSecondTwice' BY NoRowChanges
<1>2. ASSUME NEW d \in TimerCalls PROVE CopiesRunning(d)'
  <2>1. TimerBusy(d)' => Copies(d)' = Copies(d) BY DEF Copies
  <2>2. Live' = Live BY DEF Live
  <2> QED BY <2>1, <2>2 DEF SecondsInv, CopiesRunning
<1> QED BY <1>1, <1>2 DEF SecondsInv

\* Nothing is reported at first.
LEMMA SecondsStart ==
  TimerInit => SecondsInv
<1> SUFFICES ASSUME TimerInit PROVE SecondsInv OBVIOUS
<1>1. TimerInv BY TimerInitHolds
<1>2. Live = {} /\ \A c \in TimerCalls : ~TimerBusy(c) BY DEF TimerInit, Live, TimerBusy
<1>3. ASSUME NEW u PROVE Report(u, Entries \ byHand) = 0
  <2>1. CountedFor(entry, u, Entries \ byHand) = {} BY DEF TimerInit, CountedFor
  <2>2. Report(u, Entries \ byHand) = SumOf(Durations(entry), {})
    BY <2>1, ReportAdds DEF ReportIsTotal, Total
  <2>3. SumOf(Durations(entry), {}) = 0 BY SumRec, FS_EmptySet
  <2> QED BY <2>2, <2>3
<1>4. NoSecondTwice BY <1>3 DEF NoSecondTwice, TimerInit
<1> QED BY <1>1, <1>2, <1>4 DEF SecondsInv, StartsPast, CopiesRunning, CountedBefore

\* Every step keeps the reports within the time that has passed.
LEMMA SecondsStep ==
  SecondsInv /\ [TimerNext]_timerVars => SecondsInv'
<1> SUFFICES ASSUME SecondsInv, [TimerNext]_timerVars PROVE SecondsInv' OBVIOUS
<1>0. TimerInv /\ TimerInv' BY TimerStep DEF SecondsInv
<1>number. clock \in Int BY <1>0, TimesAreNumbers DEF TimerInv, TimerTypeOK
<1>1. CASE PostTimerStart
  <2>1. PICK c \in TimerCalls, u \in Users : StartTimer(c, u) BY <1>1 DEF PostTimerStart
  <2> DEFINE rows == [e \in ActiveForUser(u) |-> entry[e]]
  <2>2. DOMAIN rows \subseteq Entries BY DEF ActiveForUser, Live
  <2>3. \A e \in DOMAIN rows : e \in ActiveForUser(u) /\ rows[e] = entry[e] OBVIOUS
  <2>4. Begin(c, u, "start", rows) BY <2>1 DEF StartTimer
  <2> HIDE DEF rows
  <2> QED BY <1>0, <2>2, <2>3, <2>4, BeginCounts
<1>2. CASE PostTimerStop
  <2>1. PICK c \in TimerCalls, u \in Users, e \in Entries : StopTimer(c, u, e)
    BY <1>2 DEF PostTimerStop
  <2> DEFINE rows == [i \in {e} |-> entry[i]]
  <2>2. DOMAIN rows \subseteq Entries OBVIOUS
  <2>3. \A i \in DOMAIN rows : i \in ActiveForUser(u) /\ rows[i] = entry[i]
    BY <2>1 DEF StopTimer
  <2>4. Begin(c, u, "stop", rows) BY <2>1 DEF StopTimer
  <2> HIDE DEF rows
  <2> QED BY <1>0, <2>2, <2>3, <2>4, BeginCounts
<1>3. CASE PostTimeEntry
  <2>1. PICK e \in Entries :
           /\ \E row : InsertEntry(e, row)
           /\ byHand' = byHand \cup {e} /\ UNCHANGED <<clock, timing, crossed>>
    BY <1>3 DEF PostTimeEntry, CreateManual
  <2>2. \A i \in Entries \ {e} : entry'[i] = entry[i]
    BY <1>0, <2>1 DEF InsertEntry, TimerInv, TimerTypeOK
  <2> QED BY <1>0, <2>1, <2>2, HandCounts DEF TimerBusy
<1>4. CASE PatchTimeEntry
  <2>1. PICK c \in TimerCalls, u \in Users, e \in Entries :
           \E row : Begin(c, u, "edit", [i \in {e} |-> row])
    BY <1>4 DEF PatchTimeEntry, Update
  <2>a. PICK row : Begin(c, u, "edit", [i \in {e} |-> row]) BY <2>1
  <2> DEFINE rows == [i \in {e} |-> row]
  <2>2. DOMAIN rows \subseteq Entries OBVIOUS
  <2>3. Begin(c, u, "edit", rows) BY <2>a
  <2> HIDE DEF rows
  <2> QED BY <1>0, <2>2, <2>3, BeginCounts
<1>5. CASE DeleteTimeEntry
  <2>1. PICK e \in Entries : DeleteEntry(e) BY <1>5 DEF DeleteTimeEntry
  <2>2. /\ entry'[e] = GONE /\ \A i \in Entries \ {e} : entry'[i] = entry[i]
        /\ UNCHANGED <<clock, timing, crossed, byHand>>
    BY <1>0, <2>1 DEF DeleteEntry, TimerInv, TimerTypeOK
  <2> QED BY <1>0, <2>2, HandCounts DEF TimerBusy
<1>6. CASE TimePasses
  <2>1. clock <= clock' BY <1>6, <1>number DEF TimePasses
  <2> QED BY <1>0, <1>6, <2>1, IdleCounts DEF TimePasses, TimerBusy
<1>7. ASSUME NEW c \in TimerCalls, stopAllActive(c) PROVE SecondsInv'
  BY <1>0, <1>7, FinalizeCounts
<1>8. ASSUME NEW c \in TimerCalls, OpenTimer(c) PROVE SecondsInv' BY <1>0, <1>8, OpenCounts
<1>9. ASSUME NEW c \in TimerCalls, WriteEdit(c) PROVE SecondsInv'
  <2>1. PICK e \in Copies(c) : UpdateEntry(e, timing[c].copy[e]) /\ byHand' = byHand \cup {e}
    BY <1>9 DEF WriteEdit
  <2>2. e \in Entries /\ \A i \in Entries \ {e} : entry'[i] = entry[i]
    BY <1>0, <2>1 DEF Copies, UpdateEntry, TimerInv, TimerTypeOK
  <2>3. \A d \in TimerCalls : TimerBusy(d)' => timing'[d] = timing[d] /\ TimerBusy(d)
    BY <1>0, <1>9 DEF WriteEdit, TimerBusy, TimerInv, TimerTypeOK
  <2>4. UNCHANGED <<clock, crossed>> BY <1>9 DEF WriteEdit
  <2> QED BY <1>0, <2>1, <2>2, <2>3, <2>4, HandCounts
<1>10. ASSUME NEW c \in TimerCalls, FailTimerCall(c) PROVE SecondsInv'
  <2>1. \A d \in TimerCalls : TimerBusy(d)' => timing'[d] = timing[d] /\ TimerBusy(d)
    BY <1>0, <1>10 DEF FailTimerCall, TimerBusy, TimerInv, TimerTypeOK
  <2>2. clock <= clock' /\ UNCHANGED <<entry, crossed, byHand>>
    BY <1>10, <1>number DEF FailTimerCall
  <2> QED BY <1>0, <2>1, <2>2, IdleCounts
<1>11. CASE UNCHANGED timerVars
  <2>1. clock <= clock' BY <1>11, <1>number DEF timerVars
  <2> QED BY <1>0, <1>11, <2>1, IdleCounts DEF timerVars, TimerBusy
<1> QED
  BY <1>1, <1>2, <1>3, <1>4, <1>5, <1>6, <1>7, <1>8, <1>9, <1>10, <1>11 DEF TimerNext

\* The timers of a user whose calls never overlapped never add up to more than the
\* time that has passed (service/timeentry, StartTimer, StopTimer and finalize).
THEOREM NoSecondTwiceHolds ==
  TimerSpec => []NoSecondTwice
<1>1. SecondsInv => NoSecondTwice BY DEF SecondsInv
<1> QED BY <1>1, SecondsStart, SecondsStep, PTL DEF TimerSpec

-----------------------------------------------------------------------------
(* Dependencies.                                                            *)

Radius == MaxDepth + 1
\* The tasks one edge of G away from a set of them, and those at most n edges away.
Across(G, A) == {v \in DepTasks : \E u \in A : <<u, v>> \in G}
IsBall(b, G, t, N) == b = [n \in 0..N |-> IF n = 0 THEN {t} ELSE b[n - 1] \cup Across(G, b[n - 1])]
Ball(G, t) == CHOOSE b : IsBall(b, G, t, Radius)

\* The recursive definition has a solution.
LEMMA BallExists == ASSUME NEW G, NEW t, NEW N \in Nat PROVE \E b : IsBall(b, G, t, N)
<1> DEFINE S == {m \in 0..N : \E b : IsBall(b, G, t, m)}
<1>1. 0 \in S
  <2> DEFINE b == [n \in 0..0 |-> {t}]
  <2>1. b = [n \in 0..0 |-> IF n = 0 THEN {t} ELSE b[n - 1] \cup Across(G, b[n - 1])]
    OBVIOUS
  <2>2. IsBall(b, G, t, 0) BY <2>1 DEF IsBall
  <2> HIDE DEF b
  <2> QED BY <2>2
<1>2. ASSUME NEW m \in 0..N, m \in S, m < N PROVE m + 1 \in S
  <2>1. PICK b : IsBall(b, G, t, m) BY <1>2
  <2> DEFINE c == [n \in 0..m + 1 |-> IF n = m + 1 THEN b[m] \cup Across(G, b[m]) ELSE b[n]]
  <2>2. \A n \in 0..m : c[n] = b[n] OBVIOUS
  <2>3. \A n \in 0..m : b[n] = IF n = 0 THEN {t} ELSE b[n - 1] \cup Across(G, b[n - 1])
    BY <2>1 DEF IsBall
  <2>4. ASSUME NEW n \in 0..m + 1
        PROVE  c[n] = IF n = 0 THEN {t} ELSE c[n - 1] \cup Across(G, c[n - 1])
    <3>1. CASE n = m + 1
      <4>1. n - 1 = m /\ m \in 0..m /\ n # 0 BY <3>1
      <4>2. c[n - 1] = b[m] BY <2>2, <4>1
      <4> QED BY <3>1, <4>1, <4>2
    <3>2. CASE n \in 0..m
      <4>1. n # 0 => n - 1 \in 0..m BY <3>2
      <4>2. n # 0 => c[n - 1] = b[n - 1] BY <2>2, <4>1
      <4> QED BY <2>2, <2>3, <3>2, <4>2
    <3> QED BY <3>1, <3>2
  <2>5. c = [n \in 0..m + 1 |-> c[n]] OBVIOUS
  <2> HIDE DEF c
  <2>6. c = [n \in 0..m + 1 |-> IF n = 0 THEN {t} ELSE c[n - 1] \cup Across(G, c[n - 1])]
    BY <2>4, <2>5, Zenon
  <2> QED BY <1>2, <2>6 DEF IsBall
<1> HIDE DEF S
<1>3. 0..N \subseteq S BY <1>1, <1>2, UpTo
<1>4. N \in S BY <1>3
<1> QED BY <1>4 DEF S

\* The depth of the search is a number.
LEMMA RadiusNat == Radius \in Nat /\ MaxDepth \in Nat \ {0} /\ Radius = MaxDepth + 1
BY DependencyConstants DEF Radius

\* A ball is the ball before it and what is one edge away.
LEMMA BallGrows ==
  ASSUME NEW G, NEW t
  PROVE  /\ Ball(G, t)[0] = {t}
         /\ \A n \in 0..Radius : n < Radius =>
              Ball(G, t)[n + 1] = Ball(G, t)[n] \cup Across(G, Ball(G, t)[n])
<1> DEFINE b == Ball(G, t)
<1>1. \E c : IsBall(c, G, t, Radius) BY RadiusNat, BallExists
<1>2. IsBall(b, G, t, Radius) BY <1>1 DEF Ball
<1> HIDE DEF b
<1>3. \A n \in 0..Radius : b[n] = IF n = 0 THEN {t} ELSE b[n - 1] \cup Across(G, b[n - 1])
  BY <1>2 DEF IsBall
<1>4. b[0] = {t}
  <2>1. 0 \in 0..Radius BY RadiusNat
  <2>2. b[0] = IF 0 = 0 THEN {t} ELSE b[0 - 1] \cup Across(G, b[0 - 1]) BY <1>3, <2>1, Zenon
  <2> QED BY <2>2
<1>5. ASSUME NEW n \in 0..Radius, n < Radius PROVE b[n + 1] = b[n] \cup Across(G, b[n])
  <2>1. n + 1 \in 0..Radius /\ n + 1 # 0 /\ (n + 1) - 1 = n BY <1>5, RadiusNat
  <2> QED BY <1>3, <2>1
<1> QED BY <1>4, <1>5 DEF b

\* What the search computes, in any graph.
IsReach(f, G, t, n) ==
    f = [d \in 1..n |-> IF d = 1 THEN {u \in DepTasks : <<t, u>> \in G}
                        ELSE f[d - 1] \cup UNION {{v \in DepTasks : <<u, v>> \in G} : u \in f[d - 1]}]
WithinIn(G, t, n) == (CHOOSE f : IsReach(f, G, t, n))[n]

\* The model's operator, of the edges there are and of the next state's.
LEMMA WithinIsIn ==
  ASSUME NEW t, NEW n
  PROVE  Within(t, n) = WithinIn(waitsOn, t, n) /\ Within(t, n)' = WithinIn(waitsOn', t, n)
BY Zenon DEF Within, WithinIn, IsReach, WaitingOn

\* The search finds what is one edge beyond the ball of one edge less.
LEMMA WithinIsAcross ==
  ASSUME NEW G, NEW t, NEW n \in 1..Radius
  PROVE  WithinIn(G, t, n) = Across(G, Ball(G, t)[n - 1])
<1> DEFINE b == Ball(G, t)
<1>0. \A m \in 0..Radius : m < Radius => b[m + 1] = b[m] \cup Across(G, b[m])
  BY BallGrows
<1>1. b[0] = {t} BY BallGrows
<1> HIDE DEF b
<1>2. /\ n \in Nat /\ Radius \in Nat
      /\ \A d \in 1..n : d - 1 \in 0..Radius /\ d - 1 < Radius
  BY RadiusNat
<1> DEFINE Step(A) == A \cup UNION {{v \in DepTasks : <<u, v>> \in G} : u \in A}
           First == {u \in DepTasks : <<t, u>> \in G}
<1>3. \A A : Step(Across(G, A)) = Across(G, A \cup Across(G, A))
  <2>1. ASSUME NEW C PROVE UNION {{v \in DepTasks : <<u, v>> \in G} : u \in C} = Across(G, C)
    <3>1. ASSUME NEW x PROVE x \in UNION {{v \in DepTasks : <<u, v>> \in G} : u \in C}
                              <=> x \in Across(G, C)
      <4>1. ASSUME NEW u \in C, x \in {v \in DepTasks : <<u, v>> \in G} PROVE x \in Across(G, C)
        BY <4>1 DEF Across
      <4>2. ASSUME x \in Across(G, C)
            PROVE  \E u \in C : x \in {v \in DepTasks : <<u, v>> \in G}
        BY <4>2 DEF Across
      <4> QED BY <4>1, <4>2, Zenon
    <3> QED BY <3>1, Zenon
  <2>2. \A A, C : Across(G, A) \cup Across(G, C) = Across(G, A \cup C)
    BY DEF Across
  <2> QED BY <2>1, <2>2
<1>4. First = Across(G, {t}) BY DEF Across
<1>5. \E f : IsReach(f, G, t, n)
  <2> DEFINE f == [d \in 1..n |-> Across(G, b[d - 1])]
  <2>1. ASSUME NEW d \in 1..n PROVE f[d] = IF d = 1 THEN First ELSE Step(f[d - 1])
    <3>1. CASE d = 1 BY <1>1, <1>4, <3>1
    <3>2. CASE d # 1
      <4>1. d - 1 \in 1..n /\ (d - 1) - 1 \in 0..Radius /\ (d - 1) - 1 < Radius
            /\ ((d - 1) - 1) + 1 = d - 1
        BY <1>2, <3>2
      <4>2. b[d - 1] = b[(d - 1) - 1] \cup Across(G, b[(d - 1) - 1]) BY <1>0, <4>1
      <4>3. f[d - 1] = Across(G, b[(d - 1) - 1]) BY <4>1
      <4>4. f[d] = Across(G, b[d - 1]) OBVIOUS
      <4> HIDE DEF Step, First, f
      <4> QED BY <1>3, <3>2, <4>2, <4>3, <4>4
    <3> QED BY <3>1, <3>2
  <2>2. f = [d \in 1..n |-> f[d]] OBVIOUS
  <2> HIDE DEF f
  <2>3. f = [d \in 1..n |-> IF d = 1 THEN First ELSE Step(f[d - 1])] BY <2>1, <2>2, Zenon
  <2> QED BY <2>3 DEF IsReach
<1> DEFINE f == CHOOSE g : IsReach(g, G, t, n)
<1>6. IsReach(f, G, t, n) BY <1>5
<1>7. WithinIn(G, t, n) = f[n] BY DEF WithinIn
<1> HIDE DEF f
<1>8. \A d \in 1..n : f[d] = IF d = 1 THEN First ELSE Step(f[d - 1]) BY <1>6 DEF IsReach
<1> HIDE DEF Step, First
<1> DEFINE S == {m \in 0..n : m # 0 => f[m] = Across(G, b[m - 1])}
<1>9. 0 \in S BY <1>2
<1>10. ASSUME NEW m \in 0..n, m \in S, m < n PROVE m + 1 \in S
  <2>1. m + 1 \in 1..n /\ (m + 1) - 1 = m BY <1>2, <1>10
  <2>2. CASE m = 0
    <3>1. f[1] = First BY <1>8, <2>1, <2>2
    <3> QED BY <1>1, <1>4, <2>1, <2>2, <3>1
  <2>3. CASE m # 0
    <3>1. f[m + 1] = Step(f[m]) BY <1>8, <2>1, <2>3
    <3>2. f[m] = Across(G, b[m - 1]) BY <1>10, <2>3
    <3>3. m \in 1..n /\ (m - 1) + 1 = m BY <1>2, <2>3
    <3>4. b[m] = b[m - 1] \cup Across(G, b[m - 1]) BY <1>0, <1>2, <3>3
    <3>5. f[m + 1] = Across(G, b[m]) BY <1>3, <3>1, <3>2, <3>4
    <3> QED BY <2>1, <3>5
  <2> QED BY <2>2, <2>3
<1> HIDE DEF S
<1>11. n \in S BY <1>2, <1>9, <1>10, UpTo
<1>12. f[n] = Across(G, b[n - 1]) BY <1>11 DEF S
<1> QED BY <1>7, <1>12 DEF b

-----------------------------------------------------------------------------
(* Walks. *)
LEMMA BallInside ==
  ASSUME NEW G, NEW t, NEW m \in 0..Radius, NEW n \in 0..Radius, m <= n
  PROVE  Ball(G, t)[m] \subseteq Ball(G, t)[n]
<1> DEFINE b == Ball(G, t)
<1>1. \A k \in 0..Radius : k < Radius => b[k] \subseteq b[k + 1] BY BallGrows
<1> HIDE DEF b
<1> DEFINE S == {k \in 0..Radius : m <= k => b[m] \subseteq b[k]}
<1>2. 0 \in S BY RadiusNat
<1>3. ASSUME NEW k \in 0..Radius, k \in S, k < Radius PROVE k + 1 \in S
  <2>1. k + 1 \in 0..Radius BY <1>3, RadiusNat
  <2>2. CASE m <= k BY <1>1, <1>3, <2>1, <2>2
  <2>3. CASE ~(m <= k)
    <3>1. m <= k + 1 => m = k + 1 BY <2>3, RadiusNat
    <3> QED BY <2>1, <3>1
  <2> QED BY <2>2, <2>3
<1> HIDE DEF S
<1>4. n \in S BY <1>2, <1>3, UpTo, RadiusNat
<1> QED BY <1>4 DEF S, b

\* Fewer edges, smaller balls.
LEMMA BallShrinks ==
  ASSUME NEW G, NEW H, H \subseteq G, NEW t, NEW n \in 0..Radius
  PROVE  Ball(H, t)[n] \subseteq Ball(G, t)[n]
<1> DEFINE b == Ball(G, t)  c == Ball(H, t)
<1>1. b[0] = {t} /\ \A k \in 0..Radius : k < Radius => b[k + 1] = b[k] \cup Across(G, b[k]) BY BallGrows
<1>2. c[0] = {t} /\ \A k \in 0..Radius : k < Radius => c[k + 1] = c[k] \cup Across(H, c[k]) BY BallGrows
<1> HIDE DEF b, c
<1> DEFINE S == {k \in 0..Radius : c[k] \subseteq b[k]}
<1>3. 0 \in S BY <1>1, <1>2, RadiusNat
<1>4. ASSUME NEW k \in 0..Radius, k \in S, k < Radius PROVE k + 1 \in S
  BY <1>1, <1>2, <1>4, RadiusNat DEF Across
<1> HIDE DEF S
<1>5. n \in S BY <1>3, <1>4, UpTo, RadiusNat
<1> QED BY <1>5 DEF S, b, c

\* One walk after another.
LEMMA BallThroughBall ==
  ASSUME NEW G, NEW t, NEW m \in 0..Radius, NEW u \in Ball(G, t)[m], NEW n \in 0..Radius,
         m + n <= Radius
  PROVE  Ball(G, u)[n] \subseteq Ball(G, t)[m + n]
<1> DEFINE b == Ball(G, t)  c == Ball(G, u)
<1>1. \A k \in 0..Radius : k < Radius => b[k + 1] = b[k] \cup Across(G, b[k]) BY BallGrows
<1>2. c[0] = {u} /\ \A k \in 0..Radius : k < Radius => c[k + 1] = c[k] \cup Across(G, c[k]) BY BallGrows
<1>3. u \in b[m] OBVIOUS
<1> HIDE DEF b, c
<1> DEFINE S == {k \in 0..Radius : m + k <= Radius => c[k] \subseteq b[m + k]}
<1>4. 0 \in S BY <1>2, <1>3, RadiusNat
<1>5. ASSUME NEW k \in 0..Radius, k \in S, k < Radius PROVE k + 1 \in S
  <2>1. k + 1 \in 0..Radius BY <1>5, RadiusNat
  <2>2. ASSUME m + (k + 1) <= Radius PROVE c[k + 1] \subseteq b[m + (k + 1)]
    <3>1. m + k \in 0..Radius /\ m + k < Radius /\ (m + k) + 1 = m + (k + 1)
      BY <2>2, RadiusNat
    <3>2. c[k] \subseteq b[m + k] BY <1>5, <3>1
    <3>3. b[m + (k + 1)] = b[m + k] \cup Across(G, b[m + k]) BY <1>1, <3>1
    <3>4. c[k + 1] = c[k] \cup Across(G, c[k]) BY <1>2, <1>5
    <3> QED BY <3>2, <3>3, <3>4 DEF Across
  <2> QED BY <2>1, <2>2
<1> HIDE DEF S
<1>6. n \in S BY <1>4, <1>5, UpTo, RadiusNat
<1> QED BY <1>6 DEF S, b, c

\* A task beyond the ball.
LEMMA BallOneFurther ==
  ASSUME NEW G, NEW t, NEW n \in 0..Radius, n < Radius, NEW u \in Ball(G, t)[n],
         NEW v \in DepTasks, <<u, v>> \in G
  PROVE  v \in Ball(G, t)[n + 1]
BY BallGrows DEF Across

\* What an edge from t to u adds, when u does not lead back to t.
LEMMA EdgeAdded ==
  ASSUME NEW G, NEW t \in DepTasks, NEW u \in DepTasks, t \notin Ball(G, u)[MaxDepth],
         NEW s, NEW n \in 0..Radius, NEW v \in Ball(G \cup {<<t, u>>}, s)[n]
  PROVE  \/ v \in Ball(G, s)[n]
         \/ \E i, j \in 0..Radius : i + 1 + j <= n /\ t \in Ball(G, s)[i] /\ v \in Ball(G, u)[j]
<1> DEFINE H == G \cup {<<t, u>>}
           b == Ball(G, s)  c == Ball(H, s)  d == Ball(G, u)
           Through(k, x) == \E i, j \in 0..Radius : i + 1 + j <= k /\ t \in b[i] /\ x \in d[j]
           S == {k \in 0..Radius : \A x \in c[k] : x \in b[k] \/ Through(k, x)}
<1>1. b[0] = {s} /\ \A k \in 0..Radius : k < Radius => b[k + 1] = b[k] \cup Across(G, b[k]) BY BallGrows
<1>2. c[0] = {s} /\ \A k \in 0..Radius : k < Radius => c[k + 1] = c[k] \cup Across(H, c[k]) BY BallGrows
<1>3. d[0] = {u} /\ \A k \in 0..Radius : k < Radius => d[k + 1] = d[k] \cup Across(G, d[k]) BY BallGrows
<1>4. \A j \in 0..Radius : j <= MaxDepth => t \notin d[j]
  BY BallInside, RadiusNat
<1>5. \A e : e \in H <=> e \in G \/ e = <<t, u>> OBVIOUS
<1> HIDE DEF b, c, d, H
<1>6. 0 \in S BY <1>1, <1>2, RadiusNat
<1>7. ASSUME NEW k \in 0..Radius, k \in S, k < Radius PROVE k + 1 \in S
  <2>1. k + 1 \in 0..Radius BY <1>7, RadiusNat
  <2>2. ASSUME NEW x \in c[k + 1] PROVE x \in b[k + 1] \/ Through(k + 1, x)
    <3>1. CASE x \in c[k]
      <4>1. x \in b[k] \/ Through(k, x) BY <1>7, <3>1
      <4>2. CASE x \in b[k] BY <1>1, <1>7, <4>2
      <4>3. CASE Through(k, x) BY <4>3, <1>7, RadiusNat
      <4> QED BY <4>1, <4>2, <4>3
    <3>2. CASE x \in Across(H, c[k])
      <4>1. PICK y \in c[k] : <<y, x>> \in H /\ x \in DepTasks BY <3>2 DEF Across
      <4>2. y \in b[k] \/ Through(k, y) BY <1>7
      <4>3. CASE <<y, x>> \in G /\ y \in b[k]
        <5>1. x \in Across(G, b[k]) BY <4>1, <4>3 DEF Across
        <5> QED BY <1>1, <1>7, <5>1
      <4>4. CASE <<y, x>> \in G /\ Through(k, y)
        <5>1. PICK i, j \in 0..Radius : i + 1 + j <= k /\ t \in b[i] /\ y \in d[j] BY <4>4
        <5>2. j < Radius /\ j + 1 \in 0..Radius /\ i + 1 + (j + 1) <= k + 1 BY <1>7, <5>1, RadiusNat
        <5>3. x \in Across(G, d[j]) BY <4>1, <4>4, <5>1 DEF Across
        <5>4. x \in d[j + 1] BY <1>3, <5>2, <5>3
        <5> QED BY <5>1, <5>2, <5>4
      <4>5. CASE y = t /\ x = u /\ y \in b[k]
        <5>1. 0 \in 0..Radius /\ k + 1 + 0 <= k + 1 /\ x \in d[0] BY <1>3, <1>7, <4>5, RadiusNat
        <5> QED BY <1>7, <4>5, <5>1
      <4>6. CASE y = t /\ x = u /\ Through(k, y)
        <5>1. PICK i, j \in 0..Radius : i + 1 + j <= k /\ t \in b[i] /\ y \in d[j] BY <4>6
        <5>2. j <= MaxDepth BY <1>7, <5>1, RadiusNat
        <5> QED BY <1>4, <4>6, <5>1, <5>2
      <4> QED BY <1>5, <4>1, <4>2, <4>3, <4>4, <4>5, <4>6
    <3> QED BY <1>2, <1>7, <3>1, <3>2
  <2> QED BY <2>1, <2>2
<1>8. S \subseteq 0..Radius OBVIOUS
<1> HIDE DEF S
<1>9. n \in S BY <1>6, <1>7, UpTo, RadiusNat
<1> QED BY <1>9 DEF S, b, c, d, H

NoShortCycleIn(G) == \A t \in DepTasks : t \notin WithinIn(G, t, Radius)
Leads(G, u, t) == t = u \/ t \in WithinIn(G, u, MaxDepth)

\* Where the search does not get to is outside the ball.
LEMMA LeadsInBall ==
  ASSUME NEW G, NEW u \in DepTasks, NEW t \in DepTasks, ~Leads(G, u, t)
  PROVE  t \notin Ball(G, u)[MaxDepth]
<1> DEFINE b == Ball(G, u)
<1>1. b[0] = {u} /\ \A k \in 0..Radius : k < Radius => b[k + 1] = b[k] \cup Across(G, b[k]) BY BallGrows
<1>2. t # u /\ t \notin Across(G, b[MaxDepth - 1])
  BY WithinIsAcross, RadiusNat DEF Leads
<1> HIDE DEF b
<1> DEFINE S == {k \in 0..Radius : k <= MaxDepth => t \notin b[k]}
<1>3. \A k \in 0..Radius : k < MaxDepth => b[k] \subseteq b[MaxDepth - 1]
  BY BallInside, RadiusNat DEF b
<1>4. 0 \in S BY <1>1, <1>2, RadiusNat
<1>5. ASSUME NEW k \in 0..Radius, k \in S, k < Radius PROVE k + 1 \in S
  <2>1. k + 1 \in 0..Radius BY <1>5, RadiusNat
  <2>2. ASSUME k + 1 <= MaxDepth PROVE t \notin b[k + 1]
    <3>1. k < MaxDepth /\ t \notin b[k] BY <1>5, <2>2, RadiusNat
    <3>2. t \notin Across(G, b[k]) BY <1>2, <1>3, <3>1 DEF Across
    <3> QED BY <1>1, <1>5, <3>1, <3>2
  <2> QED BY <2>1, <2>2
<1> HIDE DEF S
<1>6. MaxDepth \in S BY <1>4, <1>5, UpTo, RadiusNat
<1> QED BY <1>6, RadiusNat DEF S, b

\* An edge that a search has found harmless closes no short cycle.
LEMMA HarmlessEdge ==
  ASSUME NEW G, NEW t \in DepTasks, NEW u \in DepTasks, ~Leads(G, u, t), NoShortCycleIn(G)
  PROVE  NoShortCycleIn(G \cup {<<t, u>>})
<1> DEFINE H == G \cup {<<t, u>>}
<1>1. t \notin Ball(G, u)[MaxDepth] BY LeadsInBall
<1>2. ASSUME NEW s \in DepTasks, s \in WithinIn(H, s, Radius) PROVE FALSE
  <2>1. s \in Across(H, Ball(H, s)[MaxDepth]) BY <1>2, WithinIsAcross, RadiusNat
  <2>2. s \notin Across(G, Ball(G, s)[MaxDepth])
    BY WithinIsAcross, RadiusNat DEF NoShortCycleIn
  <2>3. PICK y \in Ball(H, s)[MaxDepth] : <<y, s>> \in H BY <2>1 DEF Across
  <2>4. MaxDepth \in 0..Radius /\ MaxDepth < Radius BY RadiusNat
  <2>5. CASE y \in Ball(G, s)[MaxDepth]
    <3>1. <<y, s>> \notin G BY <1>2, <2>2, <2>5 DEF Across
    <3>2. y = t /\ s = u BY <2>3, <3>1
    <3> QED BY <1>1, <2>5, <3>2
  <2>6. CASE \E i, j \in 0..Radius :
               i + 1 + j <= MaxDepth /\ t \in Ball(G, s)[i] /\ y \in Ball(G, u)[j]
    <3>1. PICK i, j \in 0..Radius :
               i + 1 + j <= MaxDepth /\ t \in Ball(G, s)[i] /\ y \in Ball(G, u)[j]
      BY <2>6
    <3>2. CASE <<y, s>> \in G
      <4>1. j < Radius /\ j + 1 \in 0..Radius /\ (j + 1) + i <= MaxDepth
            /\ (j + 1) + i \in 0..Radius
        BY <3>1, RadiusNat
      <4>2. s \in Ball(G, u)[j + 1] BY <1>2, <3>1, <3>2, <4>1, BallOneFurther
      <4>3. (j + 1) + i <= Radius BY <4>1, RadiusNat
      <4>4. t \in Ball(G, u)[(j + 1) + i] BY <3>1, <4>1, <4>2, <4>3, BallThroughBall
      <4> QED BY <1>1, <2>4, <4>1, <4>4, BallInside
    <3>3. CASE y = t /\ s = u
      <4>1. j <= MaxDepth BY <3>1, RadiusNat
      <4> QED BY <1>1, <2>4, <3>1, <3>3, <4>1, BallInside
    <3> QED BY <2>3, <3>2, <3>3
  <2>7. \/ y \in Ball(G, s)[MaxDepth]
        \/ \E i, j \in 0..Radius :
               i + 1 + j <= MaxDepth /\ t \in Ball(G, s)[i] /\ y \in Ball(G, u)[j]
    <3>1. y \in Ball(G \cup {<<t, u>>}, s)[MaxDepth] BY <2>3
    <3>2. MaxDepth \in 0..Radius BY <2>4
    <3> HIDE DEF H
    <3> QED BY <1>1, <3>1, <3>2, EdgeAdded
  <2> QED BY <2>5, <2>6, <2>7
<1> QED BY <1>2 DEF NoShortCycleIn

\* Fewer edges lead nowhere new.
LEMMA FewerEdges ==
  ASSUME NEW G, NEW H, H \subseteq G
  PROVE  /\ NoShortCycleIn(G) => NoShortCycleIn(H)
         /\ \A t, u : Leads(H, u, t) => Leads(G, u, t)
<1>1. ASSUME NEW t, NEW n \in 1..Radius PROVE WithinIn(H, t, n) \subseteq WithinIn(G, t, n)
  <2>1. n - 1 \in 0..Radius BY RadiusNat
  <2>2. Ball(H, t)[n - 1] \subseteq Ball(G, t)[n - 1] BY <2>1, BallShrinks
  <2> QED BY <2>2, WithinIsAcross DEF Across
<1>2. MaxDepth \in 1..Radius /\ Radius \in 1..Radius BY RadiusNat
<1> QED BY <1>1, <1>2 DEF NoShortCycleIn, Leads

\* What a call has found harmless still is, and there is no short cycle, unless an
\* insertion has overlapped a check.
DepInv ==
    /\ DepTypeOK
    /\ depRace \/ /\ NoShortCycleIn(waitsOn)
                  /\ \A c \in DepCalls : checked[c] # NoEdge =>
                       ~Leads(waitsOn, checked[c][2], checked[c][1])

\* Every step keeps the graph without short cycles.
LEMMA DepStep == ASSUME DepInv, [DepNext]_depVars PROVE DepInv'
<1> USE DEF DepInv, DepTypeOK
<1>1. ASSUME NEW c \in DepCalls, NEW t \in DepTasks, NEW u \in DepTasks, CheckDependency(c, t, u)
      PROVE  DepInv'
  <2>1. ~Leads(waitsOn, u, t)
    BY <1>1, WithinIsIn DEF CheckDependency, WouldCreateCycle, Leads
  <2> QED BY <1>1, <2>1 DEF CheckDependency
<1>2. ASSUME NEW c \in DepCalls, InsertDependency(c) PROVE DepInv'
  <2>1. checked[c] \in DepTasks \X DepTasks BY <1>2 DEF InsertDependency
  <2>2. PICK t \in DepTasks, u \in DepTasks : checked[c] = <<t, u>> BY <2>1
  <2>3. CASE ~depRace'
    <3>1. ~depRace /\ \A d \in DepCalls \ {c} : checked[d] = NoEdge
      BY <1>2, <2>3 DEF InsertDependency
    <3>2. ~Leads(waitsOn, u, t) BY <1>2, <2>2, <3>1 DEF InsertDependency
    <3>3. NoShortCycleIn(waitsOn \cup {<<t, u>>}) BY <3>1, <3>2, HarmlessEdge
    <3>4. waitsOn' = waitsOn \cup {<<t, u>>} /\ \A d \in DepCalls : checked'[d] = NoEdge
      BY <1>2, <2>2, <3>1 DEF InsertDependency
    <3> QED BY <1>2, <3>3, <3>4 DEF InsertDependency
  <2>4. CASE depRace' BY <1>2, <2>1, <2>4 DEF InsertDependency
  <2> QED BY <2>3, <2>4
<1>3. ASSUME NEW c \in DepCalls, FailDependency(c) PROVE DepInv'
  BY <1>3 DEF FailDependency
<1>4. ASSUME waitsOn' \subseteq waitsOn, UNCHANGED depRace, DepTypeOK',
             \A c \in DepCalls : checked'[c] \in {checked[c], NoEdge}
      PROVE  DepInv'
  BY <1>4, FewerEdges
<1>5. ASSUME DeleteDependency PROVE DepInv'
  BY <1>4, <1>5 DEF DeleteDependency, RemoveDependency
<1>6. ASSUME NEW t \in DepTasks, DropTask(t) PROVE DepInv'
  <2>1. waitsOn' \subseteq waitsOn /\ UNCHANGED depRace BY <1>6 DEF DropTask
  <2>2. \A c \in DepCalls : checked'[c] \in {checked[c], NoEdge} BY <1>6 DEF DropTask
  <2>3. DepTypeOK' BY <1>6, <2>1, <2>2 DEF DropTask
  <2> QED BY <1>4, <2>1, <2>2, <2>3
<1>7. CASE UNCHANGED depVars BY <1>7 DEF depVars
<1> QED BY <1>1, <1>2, <1>3, <1>5, <1>6, <1>7 DEF DepNext, PostDependency

\* There are no edges at first.
LEMMA DepStart == DepInit => DepInv
<1> SUFFICES ASSUME DepInit PROVE DepInv OBVIOUS
<1>1. waitsOn = {} /\ DepTypeOK BY DEF DepInit, DepTypeOK
<1>2. NoShortCycleIn({})
  <2>1. Radius \in 1..Radius BY RadiusNat
  <2>2. \A A : Across({}, A) = {} BY DEF Across
  <2>3. \A t \in DepTasks : WithinIn({}, t, Radius) = {} BY <2>1, <2>2, WithinIsAcross
  <2> QED BY <2>3 DEF NoShortCycleIn
<1> QED BY <1>1, <1>2 DEF DepInit, DepInv

\* Whatever the depth of the search (repository/dependency, WouldCreateCycle), no cycle as
\* short as it can see is ever closed while insertions do not overlap checks, in graphs of
\* any size.
THEOREM NoShortCycleHolds == DepSpec => []NoShortCycle
<1>1. DepInv => NoShortCycle
  BY WithinIsIn DEF DepInv, NoShortCycle, NoShortCycleIn, Radius
<1>2. DepInv /\ [DepNext]_depVars => DepInv' BY DepStep
<1> QED BY <1>1, <1>2, DepStart, PTL DEF DepSpec

\* The walks of k edges from u to v in G, as functions.
Walks(G, k, u, v) ==
    {p \in [0..k -> DepTasks] : /\ p[0] = u /\ p[k] = v
                                /\ \A i \in 1..k : <<p[i - 1], p[i]>> \in G}

\* One edge more.
LEMMA WalkExtended ==
  ASSUME NEW G, NEW u, NEW v, NEW w \in DepTasks, NEW k \in Nat,
         NEW p \in Walks(G, k, u, v), <<v, w>> \in G
  PROVE  \E q : q \in Walks(G, k + 1, u, w)
<1> DEFINE q == [i \in 0..k + 1 |-> IF i = k + 1 THEN w ELSE p[i]]
<1>1. p \in [0..k -> DepTasks] /\ p[0] = u /\ p[k] = v /\ \A i \in 1..k : <<p[i - 1], p[i]>> \in G
  BY DEF Walks
<1>2. q \in [0..k + 1 -> DepTasks]
  <2>1. \A i \in 0..k + 1 : i # k + 1 => i \in 0..k OBVIOUS
  <2> QED BY <1>1, <2>1
<1>3. q[0] = u /\ q[k] = v /\ q[k + 1] = w BY <1>1
<1>4. ASSUME NEW i \in 1..k + 1 PROVE <<q[i - 1], q[i]>> \in G
  <2>1. CASE i = k + 1
    <3>1. i - 1 = k BY <2>1
    <3> QED BY <1>3, <2>1, <3>1
  <2>2. CASE i \in 1..k
    <3>1. i - 1 \in 0..k /\ i - 1 # k + 1 /\ i # k + 1 /\ i - 1 \in 0..k + 1 BY <2>2
    <3>2. q[i - 1] = p[i - 1] /\ q[i] = p[i] BY <2>2, <3>1
    <3> QED BY <1>1, <2>2, <3>2
  <2> QED BY <2>1, <2>2
<1> HIDE DEF q
<1> QED BY <1>2, <1>3, <1>4 DEF Walks

\* A ball is where the walks of at most as many edges end.
LEMMA BallIsWalks ==
  ASSUME NEW G, NEW t \in DepTasks, NEW n \in 0..Radius, NEW v
  PROVE  v \in Ball(G, t)[n] <=> \E k \in 0..n : Walks(G, k, t, v) # {}
<1> DEFINE b == Ball(G, t)
<1>1. b[0] = {t} /\ \A k \in 0..Radius : k < Radius => b[k + 1] = b[k] \cup Across(G, b[k])
  BY BallGrows
<1>2. \A m \in 0..n : b[m] \subseteq b[n] BY BallInside, RadiusNat
<1> HIDE DEF b
<1>3. ASSUME v \in b[n] PROVE \E k \in 0..n : Walks(G, k, t, v) # {}
  <2> DEFINE Reached2(m, x) == \E k \in 0..m : \E p : p \in Walks(G, k, t, x)
             S == {m \in 0..Radius : \A x \in b[m] : Reached2(m, x)}
  <2>1. 0 \in S
    <3> DEFINE p == [i \in 0..0 |-> t]
    <3>1. p \in [0..0 -> DepTasks] /\ p[0] = t OBVIOUS
    <3>2. \A i \in 1..0 : FALSE OBVIOUS
    <3> HIDE DEF p
    <3>3. p \in Walks(G, 0, t, t) BY <3>1, <3>2 DEF Walks
    <3>4. 0 \in 0..0 /\ 0 \in 0..Radius BY RadiusNat
    <3>5. Reached2(0, t) BY <3>3, <3>4
    <3> QED BY <1>1, <3>4, <3>5
  <2>2. ASSUME NEW m \in 0..Radius, m \in S, m < Radius PROVE m + 1 \in S
    <3>1. b[m + 1] = b[m] \cup Across(G, b[m]) /\ m + 1 \in 0..Radius BY <1>1, <2>2, RadiusNat
    <3>2. ASSUME NEW x \in b[m] PROVE Reached2(m + 1, x)
      <4>1. PICK k \in 0..m : \E p : p \in Walks(G, k, t, x) BY <2>2, <3>2
      <4>2. k \in 0..m + 1 OBVIOUS
      <4> QED BY <4>1, <4>2
    <3>3. ASSUME NEW x \in Across(G, b[m]) PROVE Reached2(m + 1, x)
      <4>1. PICK w \in b[m] : <<w, x>> \in G BY <3>3 DEF Across
      <4>2. x \in DepTasks BY <3>3 DEF Across
      <4>3. PICK k \in 0..m : \E p : p \in Walks(G, k, t, w) BY <2>2, <4>1
      <4>4. PICK p : p \in Walks(G, k, t, w) BY <4>3
      <4>5. k \in Nat /\ k + 1 \in 0..m + 1 OBVIOUS
      <4>6. \E q : q \in Walks(G, k + 1, t, x) BY <4>1, <4>2, <4>4, <4>5, WalkExtended
      <4> QED BY <4>5, <4>6
    <3> HIDE DEF Reached2
    <3> QED BY <3>1, <3>2, <3>3
  <2> HIDE DEF S, Reached2
  <2>3. n \in S BY <2>1, <2>2, UpTo, RadiusNat
  <2>4. Reached2(n, v) BY <1>3, <2>3 DEF S
  <2> QED BY <2>4 DEF Reached2
<1>4. ASSUME NEW k \in 0..n, NEW p \in Walks(G, k, t, v) PROVE v \in b[n]
  <2>1. p \in [0..k -> DepTasks] /\ p[0] = t /\ p[k] = v /\ \A i \in 1..k : <<p[i - 1], p[i]>> \in G
    BY <1>4 DEF Walks
  <2> DEFINE S == {m \in 0..k : p[m] \in b[m]}
  <2>2. 0 \in S BY <1>1, <2>1
  <2>3. ASSUME NEW m \in 0..k, m \in S, m < k PROVE m + 1 \in S
    <3>1. m + 1 \in 1..k /\ m + 1 \in 0..k /\ (m + 1) - 1 = m /\ m \in 0..Radius /\ m < Radius
      BY <2>3, RadiusNat
    <3>2. <<p[m], p[m + 1]>> \in G /\ p[m + 1] \in DepTasks /\ p[m] \in b[m] BY <2>1, <2>3, <3>1
    <3>3. p[m + 1] \in Across(G, b[m]) BY <3>2 DEF Across
    <3>4. b[m + 1] = b[m] \cup Across(G, b[m]) BY <1>1, <3>1
    <3> QED BY <3>1, <3>3, <3>4
  <2> HIDE DEF S
  <2>4. k \in S BY <2>2, <2>3, UpTo
  <2>5. v \in b[k] BY <2>1, <2>4 DEF S
  <2> QED BY <1>2, <2>5
<1> QED BY <1>3, <1>4 DEF b

\* The search finds the ends of the walks that have an edge and no more than its depth.
LEMMA WithinIsWalks ==
  ASSUME NEW G, NEW t \in DepTasks, NEW n \in 1..Radius, NEW v \in DepTasks
  PROVE  v \in WithinIn(G, t, n) <=> \E k \in 1..n : Walks(G, k, t, v) # {}
<1>0. n - 1 \in 0..Radius /\ n \in Nat BY RadiusNat
<1>1. WithinIn(G, t, n) = Across(G, Ball(G, t)[n - 1]) BY WithinIsAcross
<1>2. ASSUME v \in WithinIn(G, t, n) PROVE \E k \in 1..n : Walks(G, k, t, v) # {}
  <2>1. PICK w \in Ball(G, t)[n - 1] : <<w, v>> \in G BY <1>1, <1>2 DEF Across
  <2>2. PICK k \in 0..n - 1 : Walks(G, k, t, w) # {} BY <1>0, <2>1, BallIsWalks
  <2>3. PICK p : p \in Walks(G, k, t, w) BY <2>2
  <2>4. k \in Nat /\ k + 1 \in 1..n BY <1>0
  <2>5. \E q : q \in Walks(G, k + 1, t, v) BY <2>1, <2>3, <2>4, WalkExtended
  <2> QED BY <2>4, <2>5
<1>3. ASSUME NEW k \in 1..n, NEW p \in Walks(G, k, t, v) PROVE v \in WithinIn(G, t, n)
  <2>1. p \in [0..k -> DepTasks] /\ p[0] = t /\ p[k] = v /\ \A i \in 1..k : <<p[i - 1], p[i]>> \in G
    BY <1>3 DEF Walks
  <2>2. PICK w : w = p[k - 1] OBVIOUS
  <2>3. k \in 1..k /\ k - 1 \in 0..n - 1 /\ k - 1 \in 0..k BY <1>0
  <2>4. <<w, v>> \in G BY <2>1, <2>2, <2>3
  <2> DEFINE q == [i \in 0..k - 1 |-> p[i]]
  <2>5. q \in Walks(G, k - 1, t, w)
    <3>1. \A i \in 0..k - 1 : i \in 0..k BY <2>3
    <3>2. q \in [0..k - 1 -> DepTasks] BY <2>1, <3>1
    <3>3. q[0] = t /\ q[k - 1] = w BY <2>1, <2>2, <2>3
    <3>4. \A i \in 1..k - 1 : i \in 1..k /\ i - 1 \in 0..k - 1 /\ i \in 0..k - 1 BY <2>3
    <3>5. \A i \in 1..k - 1 : <<q[i - 1], q[i]>> \in G BY <2>1, <3>4
    <3> HIDE DEF q
    <3> QED BY <3>2, <3>3, <3>5 DEF Walks
  <2>6. w \in Ball(G, t)[n - 1] BY <1>0, <2>3, <2>5, BallIsWalks
  <2> QED BY <1>1, <2>4, <2>6 DEF Across
<1> QED BY <1>2, <1>3

\* The search that precedes an insertion (repository/dependency, WouldCreateCycle) finds the
\* task itself, and the paths of at most MaxDepth edges from the other task to it: all of
\* them, and nothing else.
THEOREM SearchFindsPaths ==
  \A t, u \in DepTasks : WouldCreateCycle(t, u) <=> \E k \in 0..MaxDepth : Walks(waitsOn, k, u, t) # {}
<1> SUFFICES ASSUME NEW t \in DepTasks, NEW u \in DepTasks
             PROVE  WouldCreateCycle(t, u) <=> \E k \in 0..MaxDepth : Walks(waitsOn, k, u, t) # {}
  OBVIOUS
<1>1. MaxDepth \in 1..Radius /\ 0 \in 0..Radius BY RadiusNat
<1>2. t = u <=> Walks(waitsOn, 0, u, t) # {}
  <2>1. t \in Ball(waitsOn, u)[0] <=> \E k \in 0..0 : Walks(waitsOn, k, u, t) # {}
    BY <1>1, BallIsWalks
  <2>2. Ball(waitsOn, u)[0] = {u} BY BallGrows
  <2> QED BY <2>1, <2>2
<1>3. t \in Within(u, MaxDepth) <=> \E k \in 1..MaxDepth : Walks(waitsOn, k, u, t) # {}
  BY <1>1, WithinIsIn, WithinIsWalks
<1>4. \A k : k \in 0..MaxDepth <=> k = 0 \/ k \in 1..MaxDepth BY RadiusNat
<1> QED BY <1>2, <1>3, <1>4 DEF WouldCreateCycle

\* No task waits on itself over up to MaxDepth + 1 edges, while insertions do not overlap
\* checks: the invariant that the runs check, in terms of paths.
THEOREM NoClosedWalk ==
  DepSpec => [](depRace \/ \A t \in DepTasks : \A k \in 1..MaxDepth + 1 : Walks(waitsOn, k, t, t) = {})
<1>1. NoShortCycle => depRace \/ \A t \in DepTasks : \A k \in 1..MaxDepth + 1 : Walks(waitsOn, k, t, t) = {}
  <2>1. Radius \in 1..Radius /\ MaxDepth + 1 = Radius BY RadiusNat
  <2>2. \A t \in DepTasks : Within(t, Radius) = WithinIn(waitsOn, t, Radius) BY WithinIsIn
  <2> QED BY <2>1, <2>2, WithinIsWalks DEF NoShortCycle
<1> QED BY <1>1, NoShortCycleHolds, PTL

-----------------------------------------------------------------------------
(* Goals, targets and milestones.                                           *)

\* The goals that hang directly on one of a set.
Children(G) == {h \in DOMAIN goal : goal[h].parent \in G}
IsDown(f, g, N) == f = [n \in 0..N |-> IF n = 0 THEN {g} ELSE f[n - 1] \cup Children(f[n - 1])]

\* The recursive definition has a solution.
LEMMA DownExists == ASSUME NEW g, NEW N \in Nat PROVE \E f : IsDown(f, g, N)
<1> DEFINE S == {m \in 0..N : \E f : IsDown(f, g, m)}
<1>1. 0 \in S
  <2> DEFINE f == [n \in 0..0 |-> {g}]
  <2>1. f = [n \in 0..0 |-> IF n = 0 THEN {g} ELSE f[n - 1] \cup Children(f[n - 1])]
    OBVIOUS
  <2>2. IsDown(f, g, 0) BY <2>1 DEF IsDown
  <2> HIDE DEF f
  <2> QED BY <2>2
<1>2. ASSUME NEW m \in 0..N, m \in S, m < N PROVE m + 1 \in S
  <2>1. PICK f : IsDown(f, g, m) BY <1>2
  <2> DEFINE h == [n \in 0..m + 1 |-> IF n = m + 1 THEN f[m] \cup Children(f[m]) ELSE f[n]]
  <2>2. \A n \in 0..m : h[n] = f[n] OBVIOUS
  <2>3. \A n \in 0..m : f[n] = IF n = 0 THEN {g} ELSE f[n - 1] \cup Children(f[n - 1])
    BY <2>1 DEF IsDown
  <2>4. ASSUME NEW n \in 0..m + 1
        PROVE  h[n] = IF n = 0 THEN {g} ELSE h[n - 1] \cup Children(h[n - 1])
    <3>1. CASE n = m + 1
      <4>1. n - 1 = m /\ m \in 0..m /\ n # 0 BY <3>1
      <4>2. h[n - 1] = f[m] BY <2>2, <4>1
      <4> QED BY <3>1, <4>1, <4>2
    <3>2. CASE n \in 0..m
      <4>1. n # 0 => n - 1 \in 0..m BY <3>2
      <4>2. n # 0 => h[n - 1] = f[n - 1] BY <2>2, <4>1
      <4> QED BY <2>2, <2>3, <3>2, <4>2
    <3> QED BY <3>1, <3>2
  <2>5. h = [n \in 0..m + 1 |-> h[n]] OBVIOUS
  <2> HIDE DEF h
  <2>6. h = [n \in 0..m + 1 |-> IF n = 0 THEN {g} ELSE h[n - 1] \cup Children(h[n - 1])]
    BY <2>4, <2>5, Zenon
  <2> QED BY <1>2, <2>6 DEF IsDown
<1> HIDE DEF S
<1>3. 0..N \subseteq S BY <1>1, <1>2, UpTo
<1>4. N \in S BY <1>3
<1> QED BY <1>4 DEF S

\* What Below(g) computes.
LEMMA BelowUnfolds ==
  ASSUME NEW g
  PROVE  \E f : IsDown(f, g, Cardinality(Goals)) /\ Below(g) = f[Cardinality(Goals)]
<1>1. Cardinality(Goals) \in Nat BY FS_CardinalityType, ProgressConstants
<1>2. \E f : IsDown(f, g, Cardinality(Goals)) BY <1>1, DownExists
<1> DEFINE down == CHOOSE f : IsDown(f, g, Cardinality(Goals))
<1>3. IsDown(down, g, Cardinality(Goals)) BY <1>2
<1>4. Below(g) = down[Cardinality(Goals)] BY Zenon DEF Below, IsDown, Children
<1> QED BY <1>3, <1>4

\* The goals that are deleted with one are a set no goal that stays hangs on.
LEMMA BelowClosed ==
  ASSUME ProgressTypeOK, NEW g \in DOMAIN goal
  PROVE  /\ g \in Below(g) /\ Below(g) \subseteq DOMAIN goal
         /\ Children(Below(g)) \subseteq Below(g)
<1> DEFINE N == Cardinality(Goals)
<1>1. N \in Nat /\ IsFiniteSet(Goals) BY FS_CardinalityType, ProgressConstants
<1>2. PICK f : IsDown(f, g, N) /\ Below(g) = f[N] BY BelowUnfolds
<1> HIDE DEF N
<1>3. /\ f[0] = {g}
      /\ \A n \in 0..N : n < N => f[n + 1] = f[n] \cup Children(f[n])
  <2>1. \A n \in 0..N : f[n] = IF n = 0 THEN {g} ELSE f[n - 1] \cup Children(f[n - 1])
    BY <1>2 DEF IsDown
  <2>2. f[0] = {g}
    <3>1. 0 \in 0..N BY <1>1
    <3>2. f[0] = IF 0 = 0 THEN {g} ELSE f[0 - 1] \cup Children(f[0 - 1]) BY <2>1, <3>1, Zenon
    <3> QED BY <3>2
  <2>3. ASSUME NEW n \in 0..N, n < N PROVE f[n + 1] = f[n] \cup Children(f[n])
    <3>1. n + 1 \in 0..N /\ n + 1 # 0 /\ (n + 1) - 1 = n BY <1>1, <2>3
    <3> QED BY <2>1, <3>1
  <2> QED BY <2>2, <2>3
<1>4. DOMAIN goal \subseteq Goals BY DEF ProgressTypeOK
<1> DEFINE S == {n \in 0..N : /\ g \in f[n] /\ f[n] \subseteq DOMAIN goal
                              /\ \/ Children(f[n]) \subseteq f[n]
                                 \/ Cardinality(f[n]) >= n + 1}
<1>5. 0 \in S
  <2>1. Cardinality(f[0]) = 1 BY <1>3, FS_Singleton
  <2>2. g \in f[0] /\ f[0] \subseteq DOMAIN goal BY <1>3
  <2>3. 0 \in 0..N /\ Cardinality(f[0]) >= 0 + 1 BY <1>1, <2>1
  <2> QED BY <2>2, <2>3
<1>6. ASSUME NEW n \in 0..N, n \in S, n < N PROVE n + 1 \in S
  <2>1. f[n + 1] = f[n] \cup Children(f[n]) /\ n + 1 \in 0..N BY <1>1, <1>3, <1>6
  <2>2. g \in f[n + 1] /\ f[n + 1] \subseteq DOMAIN goal BY <1>6, <2>1 DEF Children
  <2>3. CASE Children(f[n]) \subseteq f[n]
    <3>1. f[n + 1] = f[n] BY <2>1, <2>3
    <3> QED BY <2>1, <2>2, <2>3, <3>1
  <2>4. CASE ~(Children(f[n]) \subseteq f[n]) /\ Cardinality(f[n]) >= n + 1
    <3>1. IsFiniteSet(f[n]) /\ IsFiniteSet(f[n + 1])
      BY <1>1, <1>4, <1>6, <2>2, FS_Subset
    <3>2. f[n] \subseteq f[n + 1] /\ f[n] # f[n + 1] BY <2>1, <2>4
    <3>3. /\ Cardinality(f[n]) < Cardinality(f[n + 1])
          /\ Cardinality(f[n]) \in Nat /\ Cardinality(f[n + 1]) \in Nat
      BY <3>1, <3>2, FS_Subset, FS_CardinalityType
    <3>4. Cardinality(f[n + 1]) >= (n + 1) + 1 BY <2>4, <3>3
    <3> QED BY <2>1, <2>2, <3>4
  <2> QED BY <1>6, <2>3, <2>4
<1> HIDE DEF S
<1>7. N \in S BY <1>1, <1>5, <1>6, UpTo
<1>8. ASSUME Cardinality(f[N]) >= N + 1 PROVE FALSE
  <2>1. f[N] \subseteq Goals BY <1>4, <1>7 DEF S
  <2>2. Cardinality(f[N]) <= N /\ Cardinality(f[N]) \in Nat
    BY <1>1, <2>1, FS_Subset, FS_CardinalityType DEF N
  <2> QED BY <1>1, <1>8, <2>2
<1> QED BY <1>2, <1>7, <1>8 DEF S

-----------------------------------------------------------------------------
\* The stored parents are those last asked for, and a request that names none has read
\* the one it will write, unless updates of the goal overlapped.
AskedFits ==
    /\ \A g \in DOMAIN goal \ goalRace : asked[g] = goal[g].parent
    /\ \A c \in ProgressCalls :
         Patching(c, "goal") /\ patching[c].id \in DOMAIN goal \ goalRace /\ ~patching[c].named
           => patching[c].row.parent = goal[patching[c].id].parent
    /\ \A c, d \in ProgressCalls :
         Patching(c, "goal") /\ Patching(d, "goal") /\ patching[c].id = patching[d].id
             /\ patching[c].id \in DOMAIN goal \ goalRace
           => c = d

\* What the two properties rest on.
ProgressInv == ProgressTypeOK /\ AskedFits

\* Nothing but goals and their updates matters to it.
LEMMA AskedUntouched ==
  ASSUME AskedFits, UNCHANGED <<goal, asked, goalRace, patching>> PROVE AskedFits'
BY DEF AskedFits, Patching

\* An update that ends, or is of a target, leaves it.
LEMMA AskedReturn ==
  ASSUME ProgressTypeOK, AskedFits, NEW c \in ProgressCalls, NEW v \in TargetPatch \cup {NIL},
         patching' = [patching EXCEPT ![c] = v], UNCHANGED <<goal, asked, goalRace>>
  PROVE  AskedFits'
<1>1. \A d \in ProgressCalls : Patching(d, "goal")' => Patching(d, "goal") /\ patching'[d] = patching[d]
  BY DEF Patching, ProgressTypeOK, TargetPatch
<1> QED BY <1>1 DEF AskedFits

\* The first statement of an update of a goal.
LEMMA GoalUpdateKeeps ==
  ASSUME ProgressInv, NEW c \in ProgressCalls, NEW g \in Goals, NEW in \in GoalRequest,
         GoalUpdate(c, g, in)
  PROVE  ProgressInv'
<1> DEFINE v == [on |-> "goal", id |-> g, row |-> GoalPatched(goal[g], in), named |-> in.parent # NIL]
<1>1. /\ g \in DOMAIN goal /\ patching[c] = NIL /\ patching' = [patching EXCEPT ![c] = v]
      /\ goalRace' = IF \E d \in ProgressCalls : Patching(d, "goal") /\ patching[d].id = g
                     THEN goalRace \cup {g} ELSE goalRace
      /\ UNCHANGED <<taskRows, goal, asked, target, planRows>>
  BY DEF GoalUpdate
<1>2. goal[g] \in GoalRow BY <1>1 DEF ProgressInv, ProgressTypeOK
<1>3. v.row \in GoalRow BY <1>2 DEF GoalPatched, GoalArchived, GoalRow, GoalRequest
<1>4. v \in GoalPatch BY <1>3 DEF GoalPatch
<1>5. ProgressTypeOK'
  <2>1. goalRace' \in SUBSET Goals BY <1>1 DEF ProgressInv, ProgressTypeOK
  <2> HIDE DEF v
  <2>2. patching' \in [ProgressCalls -> GoalPatch \cup TargetPatch \cup {NIL}]
    BY <1>1, <1>4 DEF ProgressInv, ProgressTypeOK
  <2> QED BY <1>1, <2>1, <2>2 DEF ProgressInv, ProgressTypeOK, taskRows, planRows
<1>6. v.on = "goal" /\ v.id = g /\ (~v.named => v.row.parent = goal[g].parent)
  BY DEF GoalPatched
<1> PICK w : w = v OBVIOUS
<1>7. /\ patching' = [patching EXCEPT ![c] = w]
      /\ w.on = "goal" /\ w.id = g /\ (~w.named => w.row.parent = goal[g].parent)
  BY <1>1, <1>6
<1> HIDE DEF v
<1>8. patching'[c] = w /\ \A d \in ProgressCalls \ {c} : patching'[d] = patching[d]
  BY <1>7 DEF ProgressInv, ProgressTypeOK
<1>9. \A d \in ProgressCalls \ {c} : Patching(d, "goal")' <=> Patching(d, "goal")
  BY <1>8 DEF Patching
<1>10. goalRace \subseteq goalRace' BY <1>1
<1>11. g \notin goalRace' => \A d \in ProgressCalls : Patching(d, "goal") => patching[d].id # g
  BY <1>1
<1>12. goal' = goal /\ asked' = asked BY <1>1
<1>13. (\A h \in DOMAIN goal \ goalRace : asked[h] = goal[h].parent)'
  BY <1>10, <1>12 DEF ProgressInv, AskedFits
<1>14. ASSUME NEW d \in ProgressCalls, Patching(d, "goal")', patching'[d].id \in DOMAIN goal \ goalRace',
              ~patching'[d].named
       PROVE  patching'[d].row.parent = goal[patching'[d].id].parent
  <2>1. CASE d = c BY <1>7, <1>8, <1>14, <2>1
  <2>2. CASE d # c
    <3>1. Patching(d, "goal") /\ patching'[d] = patching[d] BY <1>8, <1>9, <1>14, <2>2
    <3> QED BY <1>10, <1>14, <3>1 DEF ProgressInv, AskedFits
  <2> QED BY <2>1, <2>2
<1>15. ASSUME NEW d \in ProgressCalls, NEW e \in ProgressCalls, Patching(d, "goal")',
              Patching(e, "goal")', patching'[d].id = patching'[e].id,
              patching'[d].id \in DOMAIN goal \ goalRace', d # e
       PROVE  FALSE
  <2>1. CASE d = c
    <3>1. Patching(e, "goal") /\ patching[e].id = g BY <1>7, <1>8, <1>9, <1>15, <2>1
    <3> QED BY <1>7, <1>8, <1>11, <1>15, <2>1, <3>1
  <2>2. CASE e = c
    <3>1. Patching(d, "goal") /\ patching[d].id = g BY <1>7, <1>8, <1>9, <1>15, <2>2
    <3> QED BY <1>7, <1>8, <1>11, <1>15, <2>2, <3>1
  <2>3. CASE d # c /\ e # c
    <3>1. /\ Patching(d, "goal") /\ patching'[d] = patching[d]
          /\ Patching(e, "goal") /\ patching'[e] = patching[e]
      BY <1>8, <1>9, <1>15, <2>3
    <3> QED BY <1>10, <1>15, <3>1 DEF ProgressInv, AskedFits
  <2> QED BY <2>1, <2>2, <2>3
<1>16. AskedFits' BY <1>12, <1>13, <1>14, <1>15 DEF AskedFits
<1> QED BY <1>5, <1>16 DEF ProgressInv

\* The second.
LEMMA WriteGoalKeeps ==
  ASSUME ProgressInv, NEW c \in ProgressCalls, WriteGoal(c) PROVE ProgressInv'
<1> PICK p : p = patching[c] OBVIOUS
<1>1. /\ Patching(c, "goal") /\ patching' = [patching EXCEPT ![c] = NIL]
      /\ UNCHANGED <<taskRows, goalRace, target, planRows>>
  BY DEF WriteGoal, Return
<1>2. p \in GoalPatch
  <2>1. p \in GoalPatch \cup TargetPatch \cup {NIL} BY DEF ProgressInv, ProgressTypeOK
  <2>2. p # NIL /\ p.on = "goal" BY <1>1 DEF Patching
  <2> QED BY <2>1, <2>2 DEF TargetPatch
<1>3. p.id \in Goals /\ p.row \in GoalRow /\ p.row.parent \in Goals \cup {NIL}
  BY <1>2 DEF GoalPatch, GoalRow
<1>4. \A d \in ProgressCalls : Patching(d, "goal")' =>
        d # c /\ Patching(d, "goal") /\ patching'[d] = patching[d]
  BY <1>1 DEF Patching, ProgressInv, ProgressTypeOK
<1>5. patching' \in [ProgressCalls -> GoalPatch \cup TargetPatch \cup {NIL}]
  BY <1>1 DEF ProgressInv, ProgressTypeOK
<1>6. CASE p.id \notin DOMAIN goal
  <2>1. UNCHANGED <<goal, asked>> BY <1>6 DEF WriteGoal
  <2>2. ProgressTypeOK'
    BY <1>1, <1>5, <2>1 DEF ProgressInv, ProgressTypeOK, taskRows, planRows
  <2>3. AskedFits' BY <1>1, <1>4, <2>1 DEF ProgressInv, AskedFits
  <2> QED BY <2>2, <2>3 DEF ProgressInv
<1>7. CASE p.id \in DOMAIN goal
  <2>1. /\ goal' = [goal EXCEPT ![p.id] = p.row]
        /\ asked' = IF p.named THEN [asked EXCEPT ![p.id] = p.row.parent] ELSE asked
    BY <1>7 DEF WriteGoal
  <2>2. /\ DOMAIN goal' = DOMAIN goal /\ goal'[p.id] = p.row
        /\ \A h \in DOMAIN goal \ {p.id} : goal'[h] = goal[h]
        /\ goal' \in [DOMAIN goal -> GoalRow]
    BY <1>3, <1>7, <2>1 DEF ProgressInv, ProgressTypeOK
  <2>3. /\ p.named => asked'[p.id] = p.row.parent
        /\ ~p.named => asked' = asked
        /\ \A h \in Goals \ {p.id} : asked'[h] = asked[h]
        /\ asked' \in [Goals -> Goals \cup {NIL}]
    BY <1>3, <2>1 DEF ProgressInv, ProgressTypeOK
  <2>4. ProgressTypeOK'
    BY <1>1, <1>5, <2>2, <2>3 DEF ProgressInv, ProgressTypeOK, taskRows, planRows
  <2>5. goalRace' = goalRace /\ DOMAIN goal \subseteq Goals
    BY <1>1 DEF ProgressInv, ProgressTypeOK
  <2>6. p.id \notin goalRace /\ ~p.named => p.row.parent = goal[p.id].parent
    BY <1>1, <1>7 DEF ProgressInv, AskedFits
  <2>7. p.id \notin goalRace => asked[p.id] = goal[p.id].parent
    BY <1>7 DEF ProgressInv, AskedFits
  <2>8. ASSUME NEW h \in DOMAIN goal \ goalRace PROVE asked'[h] = goal'[h].parent
    <3>1. CASE h = p.id BY <2>2, <2>3, <2>6, <2>7, <3>1
    <3>2. CASE h # p.id
      <4>1. asked[h] = goal[h].parent BY <2>8 DEF ProgressInv, AskedFits
      <4> QED BY <2>2, <2>3, <2>5, <3>2, <4>1
    <3> QED BY <3>1, <3>2
  <2>9. \A d \in ProgressCalls : Patching(d, "goal")' /\ patching'[d].id \in DOMAIN goal \ goalRace
           => patching'[d].id # p.id
    BY <1>1, <1>4 DEF ProgressInv, AskedFits
  <2>10. ASSUME NEW d \in ProgressCalls, Patching(d, "goal")', patching'[d].id \in DOMAIN goal \ goalRace,
                ~patching'[d].named
         PROVE  patching'[d].row.parent = goal'[patching'[d].id].parent
    <3>1. patching'[d].row.parent = goal[patching'[d].id].parent
      BY <1>4, <2>10 DEF ProgressInv, AskedFits
    <3> QED BY <2>2, <2>9, <2>10, <3>1
  <2>11. ASSUME NEW d \in ProgressCalls, NEW e \in ProgressCalls, Patching(d, "goal")', Patching(e, "goal")',
                patching'[d].id = patching'[e].id, patching'[d].id \in DOMAIN goal \ goalRace
         PROVE  d = e
    BY <1>4, <2>11 DEF ProgressInv, AskedFits
  <2>12. AskedFits' BY <2>2, <2>5, <2>8, <2>10, <2>11 DEF AskedFits
  <2> QED BY <2>4, <2>12 DEF ProgressInv
<1> QED BY <1>6, <1>7

\* The creation and the deletion of goals.
LEMMA GoalRowsKeep ==
  ASSUME ProgressInv, NEW g \in Goals,
         GoalDelete(g) \/ \E p \in Goals \cup {NIL} : GoalCreate(g, p)
  PROVE  ProgressInv'
<1>1. ASSUME NEW p \in Goals \cup {NIL}, GoalCreate(g, p) PROVE ProgressInv'
  <2> PICK r : r = [parent |-> p, archived |-> FALSE] OBVIOUS
  <2>1. r \in GoalRow /\ r.parent = p BY DEF GoalRow
  <2>2. /\ g \notin DOMAIN goal /\ goal' = With(goal, g, r) /\ asked' = [asked EXCEPT ![g] = p]
        /\ \A c \in ProgressCalls : Patching(c, "goal") => patching[c].id # g
        /\ UNCHANGED <<taskRows, goalRace, target, planRows, patching>>
    BY <1>1 DEF GoalCreate
  <2>3. /\ DOMAIN goal' = DOMAIN goal \cup {g} /\ goal'[g] = r
        /\ \A h \in DOMAIN goal : goal'[h] = goal[h]
        /\ goal' \in [DOMAIN goal' -> GoalRow]
    BY <2>1, <2>2 DEF With, ProgressInv, ProgressTypeOK
  <2>4. /\ asked'[g] = p /\ \A h \in DOMAIN goal : asked'[h] = asked[h]
        /\ asked' \in [Goals -> Goals \cup {NIL}]
    BY <2>2 DEF ProgressInv, ProgressTypeOK
  <2>5. ProgressTypeOK'
    BY <2>2, <2>3, <2>4 DEF ProgressInv, ProgressTypeOK, taskRows, planRows
  <2>6. \A c \in ProgressCalls : Patching(c, "goal")' <=> Patching(c, "goal")
    BY <2>2 DEF Patching
  <2>7. patching' = patching /\ goalRace' = goalRace BY <2>2
  <2>8. (\A h \in DOMAIN goal \ goalRace : asked[h] = goal[h].parent)'
    BY <2>1, <2>3, <2>4, <2>7 DEF ProgressInv, AskedFits
  <2>9. ASSUME NEW c \in ProgressCalls, Patching(c, "goal")', patching'[c].id \in DOMAIN goal' \ goalRace'
        PROVE  /\ Patching(c, "goal") /\ patching[c].id \in DOMAIN goal \ goalRace
               /\ goal'[patching[c].id] = goal[patching[c].id]
    BY <2>2, <2>3, <2>6, <2>7, <2>9
  <2>10. AskedFits' BY <2>7, <2>8, <2>9 DEF ProgressInv, AskedFits
  <2> QED BY <2>5, <2>10 DEF ProgressInv
<1>2. ASSUME GoalDelete(g) PROVE ProgressInv'
  <2> PICK gone : gone = Below(g) OBVIOUS
  <2> PICK lost : lost = UNION {TargetsOf(h) : h \in Below(g)} OBVIOUS
  <2>1. /\ goal' = Without(goal, gone) /\ target' = Without(target, lost)
        /\ asked' = [h \in Goals |-> IF h \in gone THEN NIL ELSE asked[h]]
        /\ goalRace' = goalRace \ gone
        /\ UNCHANGED <<taskRows, planRows, patching>>
    BY <1>2 DEF GoalDelete
  <2>2. /\ DOMAIN goal' = DOMAIN goal \ gone
        /\ \A h \in DOMAIN goal' : goal'[h] = goal[h]
        /\ goal' \in [DOMAIN goal' -> GoalRow]
    BY <2>1 DEF Without, ProgressInv, ProgressTypeOK
  <2>3. target' \in [DOMAIN target' -> TargetRow] /\ DOMAIN target' \subseteq Targets
    BY <2>1 DEF Without, ProgressInv, ProgressTypeOK
  <2>4. asked' \in [Goals -> Goals \cup {NIL}] BY <2>1 DEF ProgressInv, ProgressTypeOK
  <2>5. ProgressTypeOK'
    BY <2>1, <2>2, <2>3, <2>4 DEF ProgressInv, ProgressTypeOK, taskRows, planRows
  <2>6. DOMAIN goal' \ goalRace' \subseteq DOMAIN goal \ goalRace BY <2>1, <2>2
  <2>7. \A h \in DOMAIN goal' : asked'[h] = asked[h]
    BY <2>1, <2>2 DEF ProgressInv, ProgressTypeOK
  <2>8. \A c \in ProgressCalls : Patching(c, "goal")' <=> Patching(c, "goal")
    BY <2>1 DEF Patching
  <2>9. patching' = patching BY <2>1
  <2>10. AskedFits' BY <2>2, <2>6, <2>7, <2>8, <2>9 DEF ProgressInv, AskedFits
  <2> QED BY <2>5, <2>10 DEF ProgressInv
<1> QED BY <1>1, <1>2

\* The steps on goals.
LEMMA GoalKeeps == ASSUME ProgressInv, GoalNext \/ TargetNext PROVE ProgressInv'
<1>1. ASSUME NEW x \in Targets, NEW row \in TargetRow, AddTarget(x, row) PROVE ProgressInv'
  <2>1. AskedFits' BY <1>1, AskedUntouched DEF AddTarget, goalRows, ProgressInv
  <2>2. ProgressTypeOK'
    BY <1>1 DEF AddTarget, With, ProgressInv, ProgressTypeOK, taskRows, goalRows, planRows
  <2> QED BY <2>1, <2>2 DEF ProgressInv
<1>2. ASSUME NEW x \in Targets, DeleteTarget(x) PROVE ProgressInv'
  <2>1. AskedFits' BY <1>2, AskedUntouched DEF DeleteTarget, goalRows, ProgressInv
  <2>2. ProgressTypeOK'
    BY <1>2 DEF DeleteTarget, Without, ProgressInv, ProgressTypeOK, taskRows, goalRows, planRows
  <2> QED BY <2>1, <2>2 DEF ProgressInv
<1>3. ASSUME NEW c \in ProgressCalls, NEW x \in Targets, NEW row \in TargetRow, UpdateTarget(c, x, row)
      PROVE  ProgressInv'
  <2> PICK v : v = [on |-> "target", id |-> x, row |-> row] OBVIOUS
  <2>1. v \in TargetPatch BY DEF TargetPatch
  <2>2. patching' = [patching EXCEPT ![c] = v] /\ UNCHANGED <<taskRows, goalRows, target, planRows>>
    BY <1>3 DEF UpdateTarget
  <2>3. AskedFits' BY <2>1, <2>2, AskedReturn DEF goalRows, ProgressInv
  <2>4. ProgressTypeOK'
    BY <2>1, <2>2 DEF ProgressInv, ProgressTypeOK, taskRows, goalRows, planRows
  <2> QED BY <2>3, <2>4 DEF ProgressInv
<1>4. ASSUME NEW c \in ProgressCalls, WriteTarget(c) \/ FailPatch(c) PROVE ProgressInv'
  <2>1. patching' = [patching EXCEPT ![c] = NIL] /\ UNCHANGED <<taskRows, goalRows, planRows>>
    BY <1>4 DEF WriteTarget, FailPatch, Return
  <2>2. AskedFits' BY <2>1, AskedReturn DEF goalRows, ProgressInv
  <2>3. target' \in [DOMAIN target -> TargetRow]
    <3>1. CASE target' = target BY <3>1 DEF ProgressInv, ProgressTypeOK
    <3>2. CASE Patching(c, "target") /\ target' = [target EXCEPT ![patching[c].id] = patching[c].row]
      <4>1. patching[c] \in TargetPatch
        BY <3>2 DEF Patching, ProgressInv, ProgressTypeOK, GoalPatch
      <4> QED BY <3>2, <4>1 DEF TargetPatch, ProgressInv, ProgressTypeOK
    <3> QED BY <1>4, <3>1, <3>2 DEF WriteTarget, FailPatch
  <2>4. ProgressTypeOK'
    BY <2>1, <2>3 DEF ProgressInv, ProgressTypeOK, taskRows, goalRows, planRows
  <2> QED BY <2>2, <2>4 DEF ProgressInv
<1> QED BY <1>1, <1>2, <1>3, <1>4, GoalUpdateKeeps, WriteGoalKeeps, GoalRowsKeep
        DEF GoalNext, TargetNext, PostGoal, PatchGoal, DeleteGoal, PostTarget, PatchTarget, DeleteTargetById

\* The steps on milestones and portfolios.
LEMMA MilestoneKeeps ==
  ASSUME ProgressInv, MilestoneNext \/ PortfolioNext PROVE ProgressInv'
<1>1. UNCHANGED goalSide
  BY DEF MilestoneNext, PostMilestone, PatchMilestone, DeleteMilestone, AttachToMilestone,
         DetachFromMilestone, PortfolioNext, PostPortfolio, DeletePortfolio, AttachToPortfolio,
         DetachFromPortfolio, MilestoneCreate, MilestoneUpdate, MilestoneDelete, AttachTask,
         DetachTask, PortfolioCreate, PortfolioDelete, AttachSpace, DetachSpace
<1>2. AskedFits' BY <1>1, AskedUntouched DEF goalSide, goalRows, ProgressInv
<1> USE DEF ProgressInv, ProgressTypeOK, goalSide, taskRows, goalRows
<1>3. ASSUME NEW m \in Milestones, MilestoneCreate(m) PROVE ProgressTypeOK'
  BY <1>3 DEF MilestoneCreate, With, MilestoneStatuses
<1>4. ASSUME NEW m \in Milestones, NEW st \in MilestoneStatuses, MilestoneUpdate(m, st) PROVE ProgressTypeOK'
  BY <1>4 DEF MilestoneUpdate
<1>5. ASSUME NEW m, MilestoneDelete(m) PROVE ProgressTypeOK'
  BY <1>5 DEF MilestoneDelete, Without
<1>6. ASSUME NEW m \in Milestones, NEW t \in Tasks, AttachTask(m, t) PROVE ProgressTypeOK'
  BY <1>6 DEF AttachTask
<1>7. ASSUME NEW m \in Milestones, NEW t \in Tasks, DetachTask(m, t) PROVE ProgressTypeOK'
  BY <1>7 DEF DetachTask
<1>8. ASSUME NEW p \in Portfolios, PortfolioCreate(p) PROVE ProgressTypeOK'
  BY <1>8 DEF PortfolioCreate, With
<1>9. ASSUME NEW p, PortfolioDelete(p) PROVE ProgressTypeOK'
  BY <1>9 DEF PortfolioDelete, Without
<1>10. ASSUME NEW p \in Portfolios, NEW s \in Spaces, AttachSpace(p, s) PROVE ProgressTypeOK'
  BY <1>10 DEF AttachSpace
<1>11. ASSUME NEW p \in Portfolios, NEW s \in Spaces, DetachSpace(p, s) PROVE ProgressTypeOK'
  BY <1>11 DEF DetachSpace
<1>12. ProgressTypeOK'
  BY ONLY <1>3, <1>4, <1>5, <1>6, <1>7, <1>8, <1>9, <1>10, <1>11, MilestoneNext \/ PortfolioNext
     DEF MilestoneNext, PostMilestone, PatchMilestone, DeleteMilestone, AttachToMilestone,
         DetachFromMilestone, PortfolioNext, PostPortfolio, DeletePortfolio, AttachToPortfolio,
         DetachFromPortfolio
<1> QED BY <1>2, <1>12

\* The steps on spaces, lists and tasks.
LEMMA TasksKeep == ASSUME ProgressInv, TasksNext PROVE ProgressInv'
<1>1. UNCHANGED besideTasks BY DEF TasksNext, AddTask, ChangeTask, TaskDeleted, DropList, DropSpace, Cascade
<1>2. AskedFits' BY <1>1, AskedUntouched DEF besideTasks, goalRows, ProgressInv
<1> USE DEF ProgressInv, ProgressTypeOK, besideTasks, goalRows
<1>3. ASSUME NEW t \in Tasks, NEW l \in Lists, AddTask(t, l) PROVE ProgressTypeOK'
  BY <1>3 DEF AddTask, With, TaskRow
<1>4. ASSUME NEW t \in Tasks, NEW row \in TaskRow, ChangeTask(t, row) PROVE ProgressTypeOK'
  BY <1>4 DEF ChangeTask
<1>5. ASSUME NEW ts, NEW ls, Cascade(ts, ls), spaces' \in SUBSET Spaces,
             DOMAIN spacesOf' \subseteq Portfolios, spacesOf' \in [DOMAIN spacesOf' -> SUBSET Spaces]
      PROVE  ProgressTypeOK'
  <2>1. \A row \in TargetRow : [row EXCEPT !.list = NIL] \in TargetRow BY DEF TargetRow
  <2>2. target' \in [DOMAIN target -> TargetRow] BY <1>5, <2>1 DEF Cascade
  <2>3. lists' \in [DOMAIN lists' -> Spaces] /\ DOMAIN lists' \subseteq Lists
    BY <1>5 DEF Cascade, Without
  <2>4. tasks' \in [DOMAIN tasks' -> TaskRow] /\ DOMAIN tasks' \subseteq Tasks
    BY <1>5 DEF Cascade, Without
  <2>5. attached' \in [Milestones -> SUBSET Tasks] BY <1>5 DEF Cascade
  <2> QED BY <1>1, <1>5, <2>2, <2>3, <2>4, <2>5
<1>6. ASSUME NEW t \in Tasks, TaskDeleted(t) PROVE ProgressTypeOK'
  BY <1>5, <1>6 DEF TaskDeleted
<1>7. ASSUME NEW l \in Lists, DropList(l) PROVE ProgressTypeOK'
  BY <1>5, <1>7 DEF DropList
<1>8. ASSUME NEW s \in Spaces, DropSpace(s) PROVE ProgressTypeOK'
  <2>1. spaces' \in SUBSET Spaces /\ spacesOf' \in [DOMAIN spacesOf -> SUBSET Spaces]
    BY <1>8 DEF DropSpace
  <2> QED BY <1>5, <1>8, <2>1 DEF DropSpace
<1>9. ProgressTypeOK' BY <1>3, <1>4, <1>6, <1>7, <1>8 DEF TasksNext
<1> QED BY <1>2, <1>9

\* The invariant holds at first.
LEMMA ProgressStart == ProgressInit => ProgressInv
BY DEF ProgressInit, ProgressInv, ProgressTypeOK, AskedFits, Patching

\* Types, and what was asked for, always hold.
LEMMA ProgressInvariant == ProgressSpec => []ProgressInv
<1>1. ProgressInv /\ [ProgressNext]_progressVars => ProgressInv'
  <2>1. CASE UNCHANGED progressVars
    BY <2>1 DEF progressVars, ProgressInv, ProgressTypeOK, AskedFits, Patching
  <2> QED BY <2>1, GoalKeeps, MilestoneKeeps, TasksKeep DEF ProgressNext
<1> QED BY <1>1, ProgressStart, PTL DEF ProgressSpec

\* The deletion of a goal takes the goal and the goals below it, and no others: the cascade
\* of the foreign key (repository/goal, Delete) is the least set of goals that holds the goal
\* and whatever hangs on one of its members, circles of goals included.
THEOREM CascadeIsLeast ==
  ASSUME ProgressTypeOK, NEW g \in DOMAIN goal
  PROVE  /\ g \in Below(g) /\ Children(Below(g)) \subseteq Below(g)
         /\ \A G : g \in G /\ Children(G) \subseteq G => Below(g) \subseteq G
<1>1. ASSUME NEW G, g \in G, Children(G) \subseteq G PROVE Below(g) \subseteq G
  <2> DEFINE N == Cardinality(Goals)
  <2>1. N \in Nat BY FS_CardinalityType, ProgressConstants
  <2>2. PICK f : IsDown(f, g, N) /\ Below(g) = f[N] BY BelowUnfolds
  <2> HIDE DEF N
  <2>3. \A n \in 0..N : f[n] = IF n = 0 THEN {g} ELSE f[n - 1] \cup Children(f[n - 1])
    BY <2>2 DEF IsDown
  <2> DEFINE S == {n \in 0..N : f[n] \subseteq G}
  <2>4. 0 \in S
    <3>1. 0 \in 0..N BY <2>1
    <3>2. f[0] = IF 0 = 0 THEN {g} ELSE f[0 - 1] \cup Children(f[0 - 1]) BY <2>3, <3>1, Zenon
    <3> QED BY <1>1, <3>1, <3>2
  <2>5. ASSUME NEW n \in 0..N, n \in S, n < N PROVE n + 1 \in S
    <3>1. n + 1 \in 0..N /\ n + 1 # 0 /\ (n + 1) - 1 = n BY <2>1, <2>5
    <3>2. f[n + 1] = f[n] \cup Children(f[n]) BY <2>3, <3>1
    <3>3. Children(f[n]) \subseteq Children(G) BY <2>5 DEF Children
    <3> QED BY <1>1, <2>5, <3>1, <3>2, <3>3
  <2> HIDE DEF S
  <2>6. N \in S BY <2>1, <2>4, <2>5, UpTo
  <2> QED BY <2>2, <2>6 DEF S
<1> QED BY <1>1, BelowClosed

\* Every goal below another hangs on one that goes with it.
LEMMA BelowHangs ==
  ASSUME ProgressTypeOK, NEW g \in DOMAIN goal
  PROVE  \A h \in Below(g) \ {g} : goal[h].parent \in Below(g)
<1> DEFINE G == {g} \cup {h \in Below(g) : goal[h].parent \in Below(g)}
<1>1. g \in Below(g) /\ Children(Below(g)) \subseteq Below(g) BY BelowClosed
<1>2. G \subseteq Below(g) BY <1>1
<1>3. Children(G) \subseteq G BY <1>1, <1>2 DEF Children
<1>4. g \in G OBVIOUS
<1> HIDE DEF G
<1>5. Below(g) \subseteq G BY <1>3, <1>4, CascadeIsLeast
<1> QED BY <1>5 DEF G

\* No other step deletes goals.
LEMMA OthersKeepGoals ==
  ASSUME ProgressNext, ~DeleteGoal PROVE DOMAIN goal \ DOMAIN goal' = {}
<1>1. ASSUME GoalNext PROVE DOMAIN goal \subseteq DOMAIN goal'
  BY <1>1 DEF GoalNext, PostGoal, PatchGoal, GoalCreate, GoalUpdate, WriteGoal, FailPatch, With, goalRows
<1>2. ASSUME TargetNext PROVE goal' = goal
  BY <1>2 DEF TargetNext, PostTarget, PatchTarget, DeleteTargetById, AddTarget, UpdateTarget,
              DeleteTarget, WriteTarget, goalRows
<1>3. ASSUME MilestoneNext \/ PortfolioNext PROVE goal' = goal
  BY <1>3 DEF MilestoneNext, PostMilestone, PatchMilestone, DeleteMilestone, AttachToMilestone,
         DetachFromMilestone, PortfolioNext, PostPortfolio, DeletePortfolio, AttachToPortfolio,
         DetachFromPortfolio, MilestoneCreate, MilestoneUpdate, MilestoneDelete, AttachTask,
         DetachTask, PortfolioCreate, PortfolioDelete, AttachSpace, DetachSpace, goalSide, goalRows
<1>4. ASSUME TasksNext PROVE goal' = goal
  BY <1>4 DEF TasksNext, AddTask, ChangeTask, TaskDeleted, DropList, DropSpace, Cascade,
              besideTasks, goalRows
<1> QED BY <1>1, <1>2, <1>3, <1>4 DEF ProgressNext

\* The deletion of a goal (repository/goal, Delete) takes along what requests have put below
\* it and nothing else, although updates write whole rows back from copies (service/goal,
\* Update): only goals two of whose updates overlapped may hang elsewhere than was asked.
THEOREM DeletionFollowsRequestsHolds == ProgressSpec => DeletionFollowsRequests
<1> DEFINE gone == DOMAIN goal \ DOMAIN goal'
<1>1. ASSUME ProgressInv, ProgressNext
      PROVE  /\ \A h \in (DOMAIN goal \ gone) \ goalRace : asked[h] \notin gone
             /\ gone # {} => \E g \in gone : \A h \in gone \ (goalRace \cup {g}) : asked[h] \in gone
  <2>1. CASE DeleteGoal
    <3>1. PICK g \in Goals : GoalDelete(g) BY <2>1 DEF DeleteGoal
    <3>2. g \in DOMAIN goal /\ goal' = Without(goal, Below(g)) BY <3>1 DEF GoalDelete
    <3>3. /\ g \in Below(g) /\ Below(g) \subseteq DOMAIN goal
          /\ Children(Below(g)) \subseteq Below(g)
          /\ \A h \in Below(g) \ {g} : goal[h].parent \in Below(g)
      BY <1>1, <3>2, BelowClosed, BelowHangs DEF ProgressInv
    <3>4. DOMAIN goal' = DOMAIN goal \ Below(g) BY <3>2 DEF Without
    <3>5. gone = Below(g) BY <3>3, <3>4
    <3>6. \A h \in DOMAIN goal \ goalRace : asked[h] = goal[h].parent
      BY <1>1 DEF ProgressInv, AskedFits
    <3>7. ASSUME NEW h \in (DOMAIN goal \ gone) \ goalRace PROVE asked[h] \notin gone
      BY <3>3, <3>5, <3>6, <3>7 DEF Children
    <3>8. \A h \in gone \ (goalRace \cup {g}) : asked[h] \in gone
      BY <3>3, <3>5, <3>6
    <3> QED BY <3>3, <3>5, <3>7, <3>8
  <2>2. CASE ~DeleteGoal
    <3>1. gone = {} BY <1>1, <2>2, OthersKeepGoals
    <3> QED BY <3>1
  <2> QED BY <2>1, <2>2
<1>2. ProgressInv /\ [ProgressNext]_progressVars =>
        [/\ \A h \in (DOMAIN goal \ gone) \ goalRace : asked[h] \notin gone
         /\ gone # {} => \E g \in gone : \A h \in gone \ (goalRace \cup {g}) : asked[h] \in gone
        ]_progressVars
  BY <1>1
<1> QED BY <1>2, ProgressInvariant, PTL DEF ProgressSpec, DeletionFollowsRequests

-----------------------------------------------------------------------------
(* The progress of a goal.                                                  *)

\* The parts that stand for the whole.
LEMMA WholeCounts == Whole \in Nat \ {0}
BY ProgressIsExact

\* Scaling keeps the order.
LEMMA Scaled ==
  ASSUME NEW w \in Nat \ {0}, NEW a \in Int, NEW b \in Int
  PROVE  w * a \in Int /\ w * b \in Int /\ (w * a >= w * b <=> a >= b)
<1>1. ASSUME a >= b PROVE w * a >= w * b
  <2>1. PICK d \in Nat : a = b + d
    <3>1. a - b \in Nat /\ a = b + (a - b) BY <1>1
    <3> QED BY <3>1
  <2>2. w * (b + d) = w * b + w * d OBVIOUS
  <2>3. w * d \in Nat OBVIOUS
  <2> QED BY <2>1, <2>2, <2>3
<1>2. ASSUME b > a PROVE w * b > w * a
  <2>1. PICK d \in Nat : b = (a + 1) + d
    <3>1. b - (a + 1) \in Nat /\ b = (a + 1) + (b - (a + 1)) BY <1>2
    <3> QED BY <3>1
  <2>2. w * ((a + 1) + d) = w * a + w + w * d OBVIOUS
  <2>3. w * d \in Nat OBVIOUS
  <2> QED BY <2>1, <2>2, <2>3
<1> QED BY <1>1, <1>2

\* A quotient reaches a number when the dividend reaches so many divisors.
LEMMA DivReaches ==
  ASSUME NEW a \in Int, NEW n \in Nat \ {0}, NEW w \in Nat \ {0}
  PROVE  a \div n \in Int /\ (a \div n >= w <=> a >= w * n) /\ (a >= 0 => a \div n >= 0)
<1>1. a \div n \in Int OBVIOUS
<1>2. PICK q \in Int : q = a \div n BY <1>1
<1>3. n * q <= a /\ a < n * (q + 1) BY <1>2
<1>4. n * q \in Int /\ n * w \in Int /\ n * (q + 1) \in Int /\ w * n = n * w OBVIOUS
<1>5. ASSUME q >= w PROVE a >= w * n
  <2>1. n * q >= n * w BY <1>5, Scaled
  <2> QED BY <1>3, <1>4, <2>1
<1>6. ASSUME a >= w * n PROVE q >= w
  <2>1. SUFFICES ASSUME w >= q + 1 PROVE FALSE BY <1>2
  <2>2. n * w >= n * (q + 1) BY <2>1, Scaled
  <2> QED BY <1>3, <1>4, <1>6, <2>2
<1>7. ASSUME a >= 0 PROVE q >= 0
  <2>1. SUFFICES ASSUME 0 >= q + 1 PROVE FALSE BY <1>2
  <2>2. n * 0 >= n * (q + 1) BY <2>1, Scaled
  <2> QED BY <1>3, <1>4, <1>7, <2>2
<1> QED BY <1>1, <1>2, <1>5, <1>6, <1>7

\* A clamped part: whole exactly when the whole is reached.
LEMMA Percent ==
  ASSUME NEW a \in Int, NEW n \in Nat \ {0}
  PROVE  clamp01(a \div n) \in 0..Whole /\ (clamp01(a \div n) = Whole <=> a >= Whole * n)
<1>1. PICK w \in Nat \ {0} : w = Whole BY WholeCounts
<1>2. a \div n \in Int /\ (a \div n >= w <=> a >= w * n) BY DivReaches
<1>3. PICK q \in Int : q = a \div n BY <1>2
<1>4. clamp01(q) \in 0..w /\ (clamp01(q) = w <=> q >= w) BY <1>1 DEF clamp01
<1> QED BY <1>1, <1>2, <1>3, <1>4

Percents(f, T) == \A x \in T : f[x] \in 0..Whole

\* A sum of parts is full when each of them is.
LEMMA SumIsFull ==
  ASSUME NEW h, NEW S, IsFiniteSet(S), Percents(h, S)
  PROVE  /\ SumOf(h, S) \in Int /\ SumOf(h, S) <= Whole * Cardinality(S)
         /\ SumOf(h, S) >= Whole * Cardinality(S) <=> \A x \in S : h[x] = Whole
<1> DEFINE N == Cardinality(S)
           Full(T) == /\ SumOf(h, T) \in Int /\ SumOf(h, T) <= Whole * Cardinality(T)
                      /\ SumOf(h, T) >= Whole * Cardinality(T) <=> \A x \in T : h[x] = Whole
           M == {m \in 0..N : \A T \in SUBSET S : Cardinality(T) = m => Full(T)}
<1>1. N \in Nat BY FS_CardinalityType
<1>2. \A T \in SUBSET S : IsFiniteSet(T) /\ Cardinality(T) \in 0..N
  BY <1>1, FS_Subset, FS_CardinalityType
<1>3. 0 \in M
  <2>1. ASSUME NEW T \in SUBSET S, Cardinality(T) = 0 PROVE Full(T)
    <3>1. T = {} BY <1>2, <2>1, FS_EmptySet
    <3>2. SumOf(h, T) = 0 BY <3>1, FS_EmptySet, SumRec
    <3>3. Whole * 0 = 0 BY WholeCounts
    <3>4. Whole * Cardinality(T) = 0 BY <2>1, <3>3
    <3> QED BY <3>1, <3>2, <3>4
  <2> QED BY <1>1, <2>1
<1>4. ASSUME NEW m \in 0..N, m \in M, m < N PROVE m + 1 \in M
  <2>1. ASSUME NEW T \in SUBSET S, Cardinality(T) = m + 1 PROVE Full(T)
    <3> DEFINE c == Some(T)
               V == T \ {c}
    <3>1. T # {} /\ IsFiniteSet(T)
      <4>1. Cardinality({}) = 0 BY FS_EmptySet
      <4>2. ~(m + 1 = 0) BY <1>4
      <4> QED BY <1>2, <2>1, <4>1, <4>2
    <3>2. c \in T /\ V \in SUBSET S /\ Cardinality(V) = m
      BY <1>4, <2>1, <3>1, SomeRemoved
    <3>3. SumOf(h, T) = h[c] + SumOf(h, V) BY <3>1, SumRec
    <3>4. h[c] \in 0..Whole BY <3>2 DEF Percents
    <3>5. (\A x \in T : h[x] = Whole) <=> h[c] = Whole /\ \A x \in V : h[x] = Whole BY <3>2
    <3> HIDE DEF c, V
    <3>6. Full(V) BY <1>4, <3>2
    <3>7. /\ SumOf(h, V) \in Int /\ SumOf(h, V) <= Whole * m
          /\ SumOf(h, V) >= Whole * m <=> \A x \in V : h[x] = Whole
      BY <3>2, <3>6
    <3>8. /\ SumOf(h, T) \in Int /\ SumOf(h, T) <= Whole * (m + 1)
          /\ SumOf(h, T) >= Whole * (m + 1) <=> h[c] = Whole /\ SumOf(h, V) >= Whole * m
      <4>1. PICK w \in Nat \ {0} : w = Whole BY WholeCounts
      <4>2. w * (m + 1) = w * m + w /\ w * m \in Int BY <1>4, <4>1
      <4>3. PICK k \in Int : k = w * m BY <4>2
      <4> QED BY <3>3, <3>4, <3>7, <4>1, <4>2, <4>3
    <3> QED BY <2>1, <3>5, <3>7, <3>8
  <2> QED BY <1>1, <1>4, <2>1
<1> HIDE DEF M
<1>5. N \in M BY <1>1, <1>3, <1>4, UpTo
<1> QED BY <1>1, <1>5 DEF M

\* The fold over a goal's targets is a sum.
LEMMA TargetsAdd ==
  ASSUME NEW S, IsFiniteSet(S)
  PROVE  MapThenSumSet(hydrateTarget, S) = SumOf([x \in S |-> hydrateTarget(x)], S)
<1> DEFINE h == [x \in S |-> hydrateTarget(x)]
           Sums(g) == g = [s \in SUBSET S |->
                            IF s = {} THEN 0
                            ELSE hydrateTarget(CHOOSE x \in s : TRUE) + g[s \ {CHOOSE x \in s : TRUE}]]
           iter == CHOOSE g : Sums(g)
           k == CHOOSE g : IsSum(g, h, S)
<1>1. ASSUME NEW g PROVE Sums(g) <=> IsSum(g, h, S)
  <2>1. \A s \in SUBSET S : s # {} => h[Some(s)] = hydrateTarget(CHOOSE x \in s : TRUE)
    BY DEF Some
  <2> HIDE DEF h
  <2>2. [s \in SUBSET S |-> IF s = {} THEN 0
                            ELSE hydrateTarget(CHOOSE x \in s : TRUE) + g[s \ {CHOOSE x \in s : TRUE}]]
        = [s \in SUBSET S |-> IF s = {} THEN 0 ELSE h[Some(s)] + g[s \ {Some(s)}]]
    BY <2>1 DEF Some
  <2> QED BY <2>2 DEF IsSum
<1>2. MapThenSumSet(hydrateTarget, S) = iter[S]
  BY Zenon DEF MapThenSumSet, MapThenFoldSet
<1> HIDE DEF Sums, h
<1>3. \E g : IsSum(g, h, S) BY SumExists
<1>4. Sums(iter) BY <1>1, <1>3
<1>5. IsSum(k, h, S) BY <1>3
<1>6. IsSum(iter, h, S) BY <1>1, <1>4
<1> HIDE DEF iter
<1>7. SumOf(h, S) = k[S] BY DEF SumOf
<1> HIDE DEF k
<1>8. iter[S] = k[S]
  <2>1. SameOn(h, h, S) /\ S \subseteq S BY DEF SameOn
  <2> QED BY <1>5, <1>6, <2>1, SumsAgree
<1>9. MapThenSumSet(hydrateTarget, S) = SumOf(h, S) BY <1>2, <1>7, <1>8
<1> QED BY <1>9 DEF h

\* The progress of a target lies in 0..Whole, and is all of it exactly when it is reached.
LEMMA TargetShows ==
  ASSUME ProgressTypeOK, NEW x \in DOMAIN target
  PROVE  hydrateTarget(x) \in 0..Whole /\ (hydrateTarget(x) = Whole <=> Reached(x))
<1> DEFINE row == target[x]
<1>1. row \in TargetRow BY DEF ProgressTypeOK
<1>2. CASE row.kind = "number"
  <2>1. row.want \in Int \cup {NIL} /\ row.have \in Int /\ row.kind # "boolean" /\ row.kind # "task_completed"
    BY <1>1, <1>2, ProgressConstants DEF TargetRow
  <2>2. CASE row.want # NIL /\ row.want > 0
    <3>1. row.want \in Nat \ {0} /\ Whole * row.have \in Int BY <2>1, <2>2, WholeCounts
    <3>2. hydrateTarget(x) = clamp01((Whole * row.have) \div row.want)
      BY <1>2, <2>2 DEF hydrateTarget
    <3>3. Reached(x) <=> row.have >= row.want BY <1>2, <2>1, <2>2 DEF Reached
    <3>4. Whole * row.have >= Whole * row.want <=> row.have >= row.want
      BY <2>1, <3>1, WholeCounts, Scaled
    <3>5. PICK n \in Nat \ {0} : n = row.want BY <3>1
    <3>6. PICK a \in Int : a = Whole * row.have BY <3>1
    <3>7. clamp01(a \div n) \in 0..Whole /\ (clamp01(a \div n) = Whole <=> a >= Whole * n) BY Percent
    <3>8. hydrateTarget(x) = clamp01(a \div n) BY <3>2, <3>5, <3>6
    <3>9. a >= Whole * n <=> Reached(x) BY <3>3, <3>4, <3>5, <3>6
    <3> QED BY <3>7, <3>8, <3>9
  <2>3. CASE ~(row.want # NIL /\ row.want > 0)
    BY <1>2, <2>1, <2>3, WholeCounts DEF hydrateTarget, Reached
  <2> QED BY <2>2, <2>3
<1>3. CASE row.kind = "boolean"
  BY <1>1, <1>3, WholeCounts DEF hydrateTarget, Reached
<1>4. CASE row.kind = "task_completed"
  <2> DEFINE C == CountedIn(row.list)
             D == {t \in C : tasks[t].done}
  <2>1. IsFiniteSet(C) /\ IsFiniteSet(D) /\ D \subseteq C
    BY ProgressConstants, FS_Subset DEF CountedIn, ProgressTypeOK
  <2>2. /\ Cardinality(D) \in Nat /\ Cardinality(C) \in Nat
        /\ Cardinality(D) <= Cardinality(C)
        /\ Cardinality(D) = Cardinality(C) <=> D = C
        /\ Cardinality(C) = 0 <=> C = {}
    BY <2>1, FS_Subset, FS_CardinalityType, FS_EmptySet
  <2>3. row.list = NIL => C = {}
    <3>1. \A t \in DOMAIN tasks : tasks[t].list # NIL
      BY ProgressConstants DEF ProgressTypeOK, TaskRow
    <3> QED BY <3>1 DEF CountedIn
  <2>4. Reached(x) <=> C # {} /\ D = C BY <1>4 DEF Reached
  <2>5. TaskCompletion(row.list) = [done |-> Cardinality(D), total |-> Cardinality(C)]
    BY DEF TaskCompletion
  <2>6. hydrateTarget(x) =
          IF row.list = NIL THEN 0
          ELSE IF Cardinality(C) > 0 THEN clamp01((Whole * Cardinality(D)) \div Cardinality(C)) ELSE 0
    BY <1>4, <2>5 DEF hydrateTarget
  <2> HIDE DEF C, D, row
  <2>7. CASE C = {} BY <2>2, <2>4, <2>6, <2>7, WholeCounts
  <2>8. CASE C # {}
    <3>1. Cardinality(C) \in Nat \ {0} /\ Whole * Cardinality(D) \in Int BY <2>2, <2>8, WholeCounts
    <3>2. hydrateTarget(x) = clamp01((Whole * Cardinality(D)) \div Cardinality(C))
      BY <2>3, <2>6, <2>8, <3>1
    <3>3. Whole * Cardinality(D) >= Whole * Cardinality(C) <=> D = C
      BY <2>2, WholeCounts, Scaled
    <3> QED BY <2>4, <2>8, <3>1, <3>2, <3>3, Percent
  <2> QED BY <2>7, <2>8
<1>5. row.kind \in {"number", "boolean", "task_completed"} BY <1>1 DEF TargetRow
<1> QED BY <1>2, <1>3, <1>4, <1>5

\* The property, of every state in its types.
LEMMA CompletionShown == ProgressTypeOK => CompleteWhenReached
<1> SUFFICES ASSUME ProgressTypeOK, NEW g
             PROVE  computeGoalProgress(g) = Whole
                      <=> TargetsOf(g) # {} /\ \A x \in TargetsOf(g) : Reached(x)
  BY DEF CompleteWhenReached
<1> DEFINE S == TargetsOf(g)
           h == [x \in S |-> hydrateTarget(x)]
<1>1. S \subseteq DOMAIN target /\ IsFiniteSet(S)
  BY ProgressConstants, FS_Subset DEF TargetsOf, ProgressTypeOK
<1>2. \A x \in S : h[x] \in 0..Whole /\ (h[x] = Whole <=> Reached(x)) BY <1>1, TargetShows
<1>3. CASE S = {} BY <1>3, WholeCounts DEF computeGoalProgress
<1>4. CASE S # {}
  <2>1. computeGoalProgress(g) = clamp01(SumOf(h, S) \div Cardinality(S))
    BY <1>1, <1>4, TargetsAdd DEF computeGoalProgress
  <2>2. Percents(h, S) BY <1>2 DEF Percents
  <2>3. Cardinality(S) \in Nat \ {0} BY <1>1, <1>4, FS_CardinalityType, FS_EmptySet
  <2> HIDE DEF S, h
  <2>4. /\ SumOf(h, S) \in Int
        /\ SumOf(h, S) >= Whole * Cardinality(S) <=> \A x \in S : h[x] = Whole
    BY <1>1, <2>2, SumIsFull
  <2>5. computeGoalProgress(g) = Whole <=> SumOf(h, S) >= Whole * Cardinality(S)
    <3>1. PICK n \in Nat \ {0} : n = Cardinality(S) BY <2>3
    <3>2. PICK a \in Int : a = SumOf(h, S) BY <2>4
    <3>3. clamp01(a \div n) = Whole <=> a >= Whole * n BY Percent
    <3> QED BY <2>1, <3>1, <3>2, <3>3
  <2> QED BY <1>2, <1>4, <2>4, <2>5 DEF S
<1> QED BY <1>3, <1>4

\* The progress answered for a goal is 1 exactly if it has targets and all of them are
\* reached: parts are clamped before they are averaged (service/goal, hydrateTarget,
\* computeGoalProgress). Said of the exact quotients, for every finite set of targets and
\* tasks and all numbers, negative ones too.
THEOREM CompleteWhenReachedHolds == ProgressSpec => []CompleteWhenReached
<1>1. ProgressInv => CompleteWhenReached BY CompletionShown DEF ProgressInv
<1> QED BY <1>1, ProgressInvariant, PTL
=============================================================================
