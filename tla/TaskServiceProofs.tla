-------------------------- MODULE TaskServiceProofs --------------------------
(* Proofs about the task service: its types, and the shape of a recurring      *)
(* series.  The lemmas speak of one step of TaskNext, so that every system     *)
(* that runs the service (AutomationEngine) can use them.                      *)
EXTENDS TaskService, SequenceTheorems, TLAPS

-----------------------------------------------------------------------------
(* What each step of a call relies on *)

KidReady(r) == r.kid \in Task /\ r.born \in Row

\* The plan of an Update or a Reorder: the steps about the next occurrence come
\* together, after the step that inserts it.
EditStep == {"write", "place", "mark", "changed", "completed", "spawn", "inherit", "announce",
             "clear"}

Planned(s) ==
    /\ s \in Seq(EditStep)
    /\ \A i \in 1..Len(s) :
         /\ s[i] = "spawn" => i + 2 <= Len(s) /\ s[i+1] = "inherit" /\ s[i+2] = "announce"
         /\ s[i] \in {"inherit", "announce"} => \E j \in 1..(i-1) : s[j] = "spawn" /\ i <= j + 2

\* A step of a call has what it needs, or an earlier step will provide it.
StepOK(r, i) ==
    /\ r.todo[i] \in {"write", "place", "mark", "changed", "completed", "spawn", "insert"}
         => r.t \in Row
    /\ r.todo[i] \notin {"insert", "enlist", "announce"} => r.id \in Task
    /\ r.todo[i] = "insert" => i = 1 /\ r.id = NULL /\ r.t.root = NULL
    /\ r.todo[i] = "spawn" => /\ i + 2 <= Len(r.todo)
                              /\ r.todo[i+1] = "inherit" /\ r.todo[i+2] = "announce"
    /\ r.todo[i] \in {"inherit", "enlist", "announce"}
         => \/ KidReady(r)
            \/ \E j \in 1..(i-1) : r.todo[j] = "insert" \/ (r.todo[j] = "spawn" /\ i <= j + 2)
    /\ r.todo[i] \in {"assign", "tell"} => r.who \in User
    /\ r.todo[i] = "tell" => r.t \in Row \/ \E j \in 1..(i-1) : r.todo[j] = "reread"

CallOK(r) == r = NoCall \/ (r.todo # <<>> /\ \A i \in 1..Len(r.todo) : StepOK(r, i))

CallsOK == \A c \in Caller : CallOK(call[c])

TaskInv == TaskTypeOK /\ CallsOK

-----------------------------------------------------------------------------
(* Plans *)

\* Plans are closed under concatenation.
LEMMA PlannedConcat == ASSUME NEW s, NEW t, Planned(s), Planned(t) PROVE Planned(s \o t)
<1> DEFINE u == s \o t
<1>1. s \in Seq(EditStep) /\ t \in Seq(EditStep) BY DEF Planned
<1>2. /\ u \in Seq(EditStep)
      /\ Len(u) = Len(s) + Len(t)
      /\ \A i \in 1..(Len(s) + Len(t)) : u[i] = IF i <= Len(s) THEN s[i] ELSE t[i - Len(s)]
  BY <1>1, ConcatProperties
<1>3. Len(s) \in Nat /\ Len(t) \in Nat BY <1>1, LenProperties
<1> HIDE DEF u
<1>4. ASSUME NEW i \in 1..Len(u)
      PROVE /\ u[i] = "spawn" => i + 2 <= Len(u) /\ u[i+1] = "inherit" /\ u[i+2] = "announce"
            /\ u[i] \in {"inherit", "announce"} =>
                 \E j \in 1..(i-1) : u[j] = "spawn" /\ i <= j + 2
  <2>1. CASE i <= Len(s)
    <3>1. u[i] = s[i] /\ i \in 1..Len(s) BY <1>2, <1>3, <2>1
    <3>2. s[i] = "spawn" => i + 2 <= Len(s) /\ s[i+1] = "inherit" /\ s[i+2] = "announce"
      BY <3>1 DEF Planned
    <3>3. s[i] \in {"inherit", "announce"} => \E j \in 1..(i-1) : s[j] = "spawn" /\ i <= j + 2
      BY <3>1 DEF Planned
    <3>4. \A j \in 1..(i-1) : u[j] = s[j] BY <1>2, <1>3, <2>1
    <3> QED BY <1>2, <1>3, <3>1, <3>2, <3>3, <3>4
  <2>2. CASE i > Len(s)
    <3> DEFINE k == i - Len(s)
    <3>1. u[i] = t[k] /\ k \in 1..Len(t) BY <1>2, <1>3, <2>2
    <3> HIDE DEF k
    <3>2. t[k] = "spawn" => k + 2 <= Len(t) /\ t[k+1] = "inherit" /\ t[k+2] = "announce"
      BY <3>1 DEF Planned
    <3>3. t[k] \in {"inherit", "announce"} => \E j \in 1..(k-1) : t[j] = "spawn" /\ k <= j + 2
      BY <3>1 DEF Planned
    <3>4. \A j \in 1..Len(t) : u[j + Len(s)] = t[j] BY <1>2, <1>3
    <3>5. ASSUME u[i] = "spawn"
          PROVE  i + 2 <= Len(u) /\ u[i+1] = "inherit" /\ u[i+2] = "announce"
      <4>1. k + 2 <= Len(t) /\ t[k+1] = "inherit" /\ t[k+2] = "announce" BY <3>1, <3>2, <3>5
      <4>2. u[k + 1 + Len(s)] = t[k+1] /\ u[k + 2 + Len(s)] = t[k+2] BY <1>3, <3>1, <3>4, <4>1
      <4> QED BY <1>2, <1>3, <4>1, <4>2 DEF k
    <3>6. ASSUME u[i] \in {"inherit", "announce"}
          PROVE  \E j \in 1..(i-1) : u[j] = "spawn" /\ i <= j + 2
      <4>1. PICK j \in 1..(k-1) : t[j] = "spawn" /\ k <= j + 2 BY <3>1, <3>3, <3>6
      <4>2. u[j + Len(s)] = "spawn" BY <1>3, <3>1, <3>4, <4>1
      <4>3. j + Len(s) \in 1..(i-1) /\ i <= j + Len(s) + 2 BY <1>3, <3>1, <4>1 DEF k
      <4> QED BY <4>2, <4>3
    <3> QED BY <3>5, <3>6
  <2> QED BY <1>2, <1>3, <2>1, <2>2
<1> QED BY <1>2, <1>4 DEF Planned, u

\* The pieces UpdatePlan and ReorderPlan are put together from are plans.
LEMMA PlannedPieces ==
  /\ \A x \in {"write", "place", "mark", "changed", "completed", "clear"} : Planned(<<x>>)
  /\ Planned(<<"spawn", "inherit", "announce">>)
  /\ Planned(<<>>)
<1>1. ASSUME NEW x \in {"write", "place", "mark", "changed", "completed", "clear"}
      PROVE Planned(<<x>>)
  BY DEF Planned, EditStep
<1>2. Planned(<<"spawn", "inherit", "announce">>)
  <2> DEFINE s == <<"spawn", "inherit", "announce">>
  <2>1. s \in Seq(EditStep) /\ Len(s) = 3 BY DEF EditStep
  <2>2. s[1] = "spawn" /\ s[2] = "inherit" /\ s[3] = "announce" OBVIOUS
  <2> HIDE DEF s
  <2>3. \A i \in 1..3 : i = 1 \/ i = 2 \/ i = 3 OBVIOUS
  <2>4. ASSUME NEW i \in 1..3
        PROVE  /\ s[i] = "spawn" => i + 2 <= 3 /\ s[i+1] = "inherit" /\ s[i+2] = "announce"
               /\ s[i] \in {"inherit", "announce"} =>
                    \E j \in 1..(i-1) : s[j] = "spawn" /\ i <= j + 2
    <3>1. CASE i = 1 BY <2>2, <3>1
    <3>2. CASE i = 2 \/ i = 3
      <4>1. 1 \in 1..(i-1) /\ i <= 1 + 2 BY <3>2
      <4> QED BY <2>2, <3>2, <4>1
    <3> QED BY <2>3, <3>1, <3>2
  <2> QED BY <2>1, <2>4 DEF Planned, s
<1>3. Planned(<<>>) BY DEF Planned
<1> QED BY <1>1, <1>2, <1>3

\* A piece taken on a condition is a plan.
LEMMA WhenPlanned ==
  ASSUME NEW b, NEW s, Planned(s) PROVE Planned(When(b, s))
BY PlannedPieces DEF When

\* Update and Reorder plan in order: whatever the copy, the steps that need the
\* inserted task come after the step that inserts it.
LEMMA PlansPlanned ==
  ASSUME NEW was, NEW t
  PROVE  /\ Planned(UpdatePlan(was, t))  /\ UpdatePlan(was, t) # <<>>
         /\ Planned(ReorderPlan(was, t)) /\ ReorderPlan(was, t) # <<>>
<1> DEFINE a == When(StatusChanged(was, t), <<"changed">>)
           b == When(Completes(was, t), <<"completed">>)
           d == When(Completes(was, t) /\ t.rule, <<"spawn", "inherit", "announce">>)
           e == When(was.due # t.due \/ was.done # t.done, <<"clear">>)
           f == When(Completes(was, t), <<"mark">>)
<1>1. Planned(a) /\ Planned(b) /\ Planned(d) /\ Planned(e) /\ Planned(f)
  BY PlannedPieces, WhenPlanned
<1>2. Planned(<<"write">>) /\ Planned(<<"place">>) BY PlannedPieces
<1>3. \A x, y : Planned(x) /\ Planned(y) => Planned(x \o y) BY PlannedConcat
<1>4. \A x, y : (Planned(x) /\ Planned(y) /\ x # <<>>) => x \o y # <<>>
  BY ConcatEqualIffEmpty, ConcatProperties DEF Planned
<1> HIDE DEF a, b, d, e, f
<1>5. Planned(a \o b \o d) BY <1>1, <1>3
<1>6. Aftermath(was, t) = a \o b \o d BY DEF Aftermath, a, b, d
<1>7. UpdatePlan(was, t) = <<"write">> \o Aftermath(was, t) \o e BY DEF UpdatePlan, e
<1>8. ReorderPlan(was, t) = <<"place">> \o f \o Aftermath(was, t) BY DEF ReorderPlan, f
<1>9. <<"write">> # <<>> /\ <<"place">> # <<>> OBVIOUS
<1>10. Planned(<<"write">> \o Aftermath(was, t)) /\ <<"write">> \o Aftermath(was, t) # <<>>
  BY <1>2, <1>3, <1>4, <1>5, <1>6, <1>9
<1>11. Planned(<<"place">> \o f) /\ <<"place">> \o f # <<>>
  BY <1>1, <1>2, <1>3, <1>4, <1>9
<1> QED BY <1>1, <1>3, <1>4, <1>5, <1>6, <1>7, <1>8, <1>10, <1>11
-----------------------------------------------------------------------------
(* The rest of a call *)

\* A goroutine outside the service satisfies what a call relies on.
LEMMA NoCallOK == NoCall \in Call /\ CallOK(NoCall)
BY DEF NoCall, Call, CallOK

\* After one step, which may have inserted a task or read the row again.
LEMMA AfterOne ==
  ASSUME NEW r \in Call, r.todo # <<>>, \A i \in 1..Len(r.todo) : StepOK(r, i),
         NEW q \in Call, q.todo = r.todo, q.id = r.id, q.who = r.who,
         q.t = r.t \/ q.t \in Row,
         Head(r.todo) = "reread" => q.t \in Row,
         KidReady(r) => KidReady(q),
         Head(r.todo) \in {"insert", "spawn"} => KidReady(q)
  PROVE  After(q, 1) \in Call /\ CallOK(After(q, 1))
<1> DEFINE n == Len(q.todo)
           s == SubSeq(q.todo, 2, n)
           a == [q EXCEPT !.todo = s]
<1>1. q.todo \in Seq(Step) /\ n \in Nat BY LenProperties DEF Call
<1>2. CASE n <= 1 BY <1>2, NoCallOK DEF After
<1>3. CASE n > 1
  <2>1. After(q, 1) = a BY <1>1, <1>3 DEF After
  <2>2. \A i \in 2..n : q.todo[i] \in Step BY <1>1, ElementOfSeq
  <2>3. /\ s \in Seq(Step)
        /\ Len(s) = n - 1
        /\ \A i \in 1..(n - 1) : s[i] = q.todo[i + 1]
    <3> HIDE DEF s
    <3>1. /\ SubSeq(q.todo, 2, n) \in Seq(Step)
          /\ Len(SubSeq(q.todo, 2, n)) = IF 2 <= n THEN n - 2 + 1 ELSE 0
          /\ \A i \in 1..(n - 2 + 1) : SubSeq(q.todo, 2, n)[i] = q.todo[2 + i - 1]
      <4> HIDE DEF n
      <4> QED BY <1>1, <2>2, SubSeqProperties
    <3> QED BY <1>1, <1>3, <3>1 DEF s
  <2> HIDE DEF s
  <2>4. a \in Call /\ a.todo = s /\ a.id = q.id /\ a.t = q.t /\ a.who = q.who
        /\ a.kid = q.kid /\ a.born = q.born
    BY <2>3 DEF Call
  <2> HIDE DEF a
  <2>5. s # <<>> BY <1>1, <1>3, <2>3, EmptySeq
  <2>6. Head(r.todo) = r.todo[1] BY DEF Call
  <2>7. ASSUME NEW i \in 1..Len(s) PROVE StepOK(a, i)
    <3>1. i + 1 \in 1..Len(r.todo) /\ i + 1 \in 2..n /\ s[i] = r.todo[i + 1]
      BY <1>1, <1>3, <2>3
    <3>2. StepOK(r, i + 1) BY <3>1
    <3>3. KidReady(a) <=> KidReady(q) BY <2>4 DEF KidReady
    <3>4. ASSUME s[i] = "spawn"
          PROVE  i + 2 <= Len(s) /\ s[i+1] = "inherit" /\ s[i+2] = "announce"
      <4>1. r.todo[i + 1] = "spawn" BY <3>1, <3>4
      <4>2. /\ (i + 1) + 2 <= Len(r.todo)
            /\ r.todo[(i + 1) + 1] = "inherit" /\ r.todo[(i + 1) + 2] = "announce"
        BY <3>2, <4>1 DEF StepOK
      <4>3. i \in Nat \ {0} /\ i + 2 <= n - 1 BY <1>1, <2>3, <4>2
      <4>4. s[i + 1] = r.todo[(i + 1) + 1] /\ s[i + 2] = r.todo[(i + 2) + 1]
        BY <1>1, <2>3, <4>3
      <4>5. (i + 1) + 1 = (i + 1) + 1 /\ (i + 2) + 1 = (i + 1) + 2 BY <4>3
      <4> QED BY <2>3, <4>2, <4>3, <4>4, <4>5
    <3>5. ASSUME s[i] \in {"inherit", "enlist", "announce"}
          PROVE  KidReady(a) \/ \E j \in 1..(i-1) : s[j] = "insert" \/ (s[j] = "spawn" /\ i <= j + 2)
      <4>1. CASE KidReady(r) BY <3>3, <4>1
      <4>2. CASE ~KidReady(r)
        <5>1. PICK j \in 1..i : r.todo[j] = "insert" \/ (r.todo[j] = "spawn" /\ i + 1 <= j + 2)
          BY <3>1, <3>2, <3>5, <4>2 DEF StepOK
        <5>2. CASE j = 1 BY <2>6, <3>3, <5>1, <5>2
        <5>3. CASE j # 1
          <6>1. j - 1 \in 1..(i - 1) /\ s[j - 1] = r.todo[j] /\ i + 1 <= j + 2 => i <= (j - 1) + 2
            BY <1>1, <2>3, <5>1, <5>3
          <6>2. j - 1 \in 1..(i - 1) /\ s[j - 1] = r.todo[j]
            BY <1>1, <2>3, <5>1, <5>3
          <6> QED BY <5>1, <6>1, <6>2
        <5> QED BY <5>2, <5>3
      <4> QED BY <4>1, <4>2
    <3>6. ASSUME s[i] = "tell" PROVE a.t \in Row \/ \E j \in 1..(i-1) : s[j] = "reread"
      <4>1. CASE r.t \in Row BY <2>4, <4>1
      <4>2. CASE r.t \notin Row
        <5>1. PICK j \in 1..i : r.todo[j] = "reread" BY <3>1, <3>2, <3>6, <4>2 DEF StepOK
        <5>2. CASE j = 1 BY <2>4, <2>6, <5>1, <5>2
        <5>3. CASE j # 1
          <6>1. j - 1 \in 1..(i - 1) /\ s[j - 1] = r.todo[j] BY <1>1, <2>3, <5>1, <5>3
          <6> QED BY <5>1, <6>1
        <5> QED BY <5>2, <5>3
      <4> QED BY <4>1, <4>2
    <3>7. s[i] # "insert" BY <3>1, <3>2 DEF StepOK
    <3>8. /\ s[i] \in {"write", "place", "mark", "changed", "completed", "spawn", "insert"}
               => a.t \in Row
          /\ s[i] \notin {"insert", "enlist", "announce"} => a.id \in Task
          /\ s[i] \in {"assign", "tell"} => a.who \in User
      BY <2>4, <3>1, <3>2 DEF StepOK
    <3> QED BY <2>4, <3>4, <3>5, <3>6, <3>7, <3>8 DEF StepOK
  <2> QED BY <2>1, <2>4, <2>5, <2>7 DEF CallOK
<1> QED BY <1>1, <1>2, <1>3

\* A skipped occurrence skips its assignees and its event.
LEMMA AfterSpawn ==
  ASSUME NEW r \in Call, r.todo # <<>>, \A i \in 1..Len(r.todo) : StepOK(r, i),
         Head(r.todo) = "spawn"
  PROVE  After(r, 3) \in Call /\ CallOK(After(r, 3))
<1> DEFINE n == Len(r.todo)
           s == SubSeq(r.todo, 4, n)
           a == [r EXCEPT !.todo = s]
<1>1. r.todo \in Seq(Step) /\ n \in Nat BY LenProperties DEF Call
<1>2. CASE n <= 3 BY <1>2, NoCallOK DEF After
<1>3. CASE n > 3
  <2>1. After(r, 3) = a BY <1>1, <1>3 DEF After
  <2>2. \A i \in 4..n : r.todo[i] \in Step BY <1>1, ElementOfSeq
  <2>3. /\ s \in Seq(Step)
        /\ Len(s) = n - 3
        /\ \A i \in 1..(n - 3) : s[i] = r.todo[i + 3]
    <3> HIDE DEF s
    <3>1. /\ SubSeq(r.todo, 4, n) \in Seq(Step)
          /\ Len(SubSeq(r.todo, 4, n)) = IF 4 <= n THEN n - 4 + 1 ELSE 0
          /\ \A i \in 1..(n - 4 + 1) : SubSeq(r.todo, 4, n)[i] = r.todo[4 + i - 1]
      <4> HIDE DEF n
      <4> QED BY <1>1, <2>2, SubSeqProperties
    <3> QED BY <1>1, <1>3, <3>1 DEF s
  <2> HIDE DEF s
  <2>4. a \in Call /\ a.todo = s /\ a.id = r.id /\ a.t = r.t /\ a.who = r.who
        /\ a.kid = r.kid /\ a.born = r.born
    BY <2>3 DEF Call
  <2> HIDE DEF a
  <2>5. s # <<>> BY <1>1, <1>3, <2>3, EmptySeq
  <2>6. r.todo[1] = "spawn" /\ r.todo[2] = "inherit" /\ r.todo[3] = "announce"
    <3>1. r.todo[1] = "spawn" /\ 1 \in 1..Len(r.todo) BY <1>1, <1>3 DEF Call
    <3> QED BY <3>1 DEF StepOK
  <2>7. ASSUME NEW i \in 1..Len(s) PROVE StepOK(a, i)
    <3>1. i + 3 \in 1..Len(r.todo) /\ s[i] = r.todo[i + 3] BY <1>1, <1>3, <2>3
    <3>2. StepOK(r, i + 3) BY <3>1
    <3>3. KidReady(a) <=> KidReady(r) BY <2>4 DEF KidReady
    <3>4. ASSUME s[i] = "spawn"
          PROVE  i + 2 <= Len(s) /\ s[i+1] = "inherit" /\ s[i+2] = "announce"
      <4>1. r.todo[i + 3] = "spawn" BY <3>1, <3>4
      <4>2. /\ (i + 3) + 2 <= Len(r.todo)
            /\ r.todo[(i + 3) + 1] = "inherit" /\ r.todo[(i + 3) + 2] = "announce"
        BY <3>2, <4>1 DEF StepOK
      <4>3. i \in Nat \ {0} /\ i + 2 <= n - 3 BY <1>1, <2>3, <4>2
      <4>4. s[i + 1] = r.todo[(i + 1) + 3] /\ s[i + 2] = r.todo[(i + 2) + 3]
        <5>1. i + 1 \in 1..(n - 3) /\ i + 2 \in 1..(n - 3) BY <1>1, <4>3
        <5> QED BY <2>3, <5>1
      <4>5. (i + 1) + 3 = (i + 3) + 1 /\ (i + 2) + 3 = (i + 3) + 2 BY <4>3
      <4> QED BY <2>3, <4>2, <4>3, <4>4, <4>5
    <3>5. ASSUME s[i] \in {"inherit", "enlist", "announce"}
          PROVE  KidReady(a) \/ \E j \in 1..(i-1) : s[j] = "insert" \/ (s[j] = "spawn" /\ i <= j + 2)
      <4>1. CASE KidReady(r) BY <3>3, <4>1
      <4>2. CASE ~KidReady(r)
        <5>1. PICK j \in 1..(i+2) :
                r.todo[j] = "insert" \/ (r.todo[j] = "spawn" /\ i + 3 <= j + 2)
          BY <3>1, <3>2, <3>5, <4>2 DEF StepOK
        <5>2. j \in 1..Len(r.todo) /\ StepOK(r, j) BY <1>1, <3>1
        <5>3. r.todo[j] # "insert" BY <2>6, <5>2 DEF StepOK
        <5>4. j # 1 /\ j # 2 /\ j # 3 BY <2>6, <5>1, <5>3
        <5>5. j - 3 \in 1..(i - 1) /\ s[j - 3] = r.todo[j] BY <1>1, <2>3, <5>1, <5>4
        <5>6. i <= (j - 3) + 2 BY <1>1, <5>1, <5>3
        <5> QED BY <5>1, <5>3, <5>5, <5>6
      <4> QED BY <4>1, <4>2
    <3>6. ASSUME s[i] = "tell" PROVE a.t \in Row \/ \E j \in 1..(i-1) : s[j] = "reread"
      <4>1. 1 \in 1..Len(r.todo) /\ StepOK(r, 1) BY <1>1, <1>3
      <4> QED BY <2>4, <2>6, <4>1 DEF StepOK
    <3>7. s[i] # "insert" BY <3>1, <3>2 DEF StepOK
    <3>8. /\ s[i] \in {"write", "place", "mark", "changed", "completed", "spawn", "insert"}
               => a.t \in Row
          /\ s[i] \notin {"insert", "enlist", "announce"} => a.id \in Task
          /\ s[i] \in {"assign", "tell"} => a.who \in User
      BY <2>4, <3>1, <3>2 DEF StepOK
    <3> QED BY <2>4, <3>4, <3>5, <3>6, <3>7, <3>8 DEF StepOK
  <2> QED BY <2>1, <2>4, <2>5, <2>7 DEF CallOK
<1> QED BY <1>1, <1>2, <1>3

\* A step that changes one call.
LEMMA OneCall ==
  ASSUME call \in [Caller -> Call], CallsOK, NEW c \in Caller, NEW r \in Call, CallOK(r),
         call' = [call EXCEPT ![c] = r]
  PROVE  call' \in [Caller -> Call] /\ CallsOK'
<1>1. \A d \in Caller : CallOK(call'[d])
  BY DEF CallsOK
<1> QED BY <1>1 DEF CallsOK
-----------------------------------------------------------------------------
(* Entering the service *)

\* Update edits a row into a row.
LEMMA EditedRow == ASSUME NEW row \in Row, NEW in \in EditBody PROVE Edited(row, in) \in Row
<1>1. WithText(row, in.txt) \in Row BY DEF WithText, Row, EditBody
<1> DEFINE t == WithStatus(WithText(row, in.txt), in.sid)
<1>2. t \in Row
  <2> DEFINE w == WithText(row, in.txt)
  <2> HIDE DEF w
  <2>1. w \in Row BY <1>1 DEF w
  <2> DEFINE b == in.sid \in DoneStatus
  <2>2. b \in BOOLEAN OBVIOUS
  <2>3. WithStatus(w, in.sid) = IF in.sid = Keep THEN w ELSE [w EXCEPT !.sid = in.sid, !.done = b]
    BY DEF WithStatus
  <2> HIDE DEF b
  <2>4. in.sid # Keep => in.sid \in Status BY DEF EditBody
  <2>5. WithStatus(w, in.sid) \in Row BY <2>1, <2>2, <2>3, <2>4 DEF Row
  <2> QED BY <2>5 DEF w
<1> HIDE DEF t
<1>3. /\ Or(in.due, t.due) \in Due \cup {NULL} /\ Or(in.done, t.done) \in BOOLEAN
      /\ Or(in.arch, t.arch) \in BOOLEAN      /\ Or(in.rule, t.rule) \in BOOLEAN
  BY <1>2 DEF Or, Row, EditBody
<1>4. Edited(row, in) = [t EXCEPT !.due = Or(in.due, t.due), !.done = Or(in.done, t.done),
                                  !.arch = Or(in.arch, t.arch), !.rule = Or(in.rule, t.rule)]
  BY DEF Edited, t
<1> QED BY <1>2, <1>3, <1>4 DEF Row

\* Reorder moves a row into a row.
LEMMA MovedRow == ASSUME NEW row \in Row, NEW in \in MoveBody PROVE Moved(row, in) \in Row
<1> DEFINE sid == Or(in.sid, row.sid)
           txt == IF in.sid # Keep THEN in.sid ELSE Or(in.txt, row.txt)
           t   == [row EXCEPT !.sid = sid, !.txt = txt]
<1>1. sid \in Status \cup {NULL} /\ txt \in Text BY DEF Or, Row, MoveBody, Text
<1> HIDE DEF sid, txt
<1>2. t \in Row BY <1>1 DEF Row
<1>3. Moved(row, in) = [t EXCEPT !.done = t.done \/ (StatusChanged(row, t) /\ t.sid \in DoneStatus)]
  BY DEF Moved, sid, txt
<1> HIDE DEF t
<1>4. (t.done \/ (StatusChanged(row, t) /\ t.sid \in DoneStatus)) \in BOOLEAN
  BY <1>2 DEF Row
<1> QED BY <1>2, <1>3, <1>4 DEF Row

\* A call that has just been planned on a copy has what its steps rely on.
LEMMA EditCallOK ==
  ASSUME NEW k \in Task, NEW t \in Row, NEW plan, Planned(plan), plan # <<>>
  PROVE  LET r == [NoCall EXCEPT !.todo = plan, !.id = k, !.t = t] IN r \in Call /\ CallOK(r)
<1> DEFINE r == [NoCall EXCEPT !.todo = plan, !.id = k, !.t = t]
<1>1. plan \in Seq(Step) BY DEF Planned, EditStep, Step, DbStep
<1>2. r \in Call /\ r.todo = plan /\ r.id = k /\ r.t = t BY <1>1 DEF Call, NoCall
<1>3. ASSUME NEW i \in 1..Len(plan) PROVE StepOK(r, i)
  <2>1. plan[i] \in EditStep BY ElementOfSeq DEF Planned
  <2>2. plan[i] \notin {"insert", "enlist", "assign", "tell"} BY <2>1 DEF EditStep
  <2>3. /\ plan[i] = "spawn" => /\ i + 2 <= Len(plan)
                                /\ plan[i+1] = "inherit" /\ plan[i+2] = "announce"
        /\ plan[i] \in {"inherit", "announce"}
             => \E j \in 1..(i-1) : plan[j] = "spawn" /\ i <= j + 2
    BY DEF Planned
  <2> HIDE DEF r
  <2> QED BY <1>2, <2>2, <2>3 DEF StepOK
<1> HIDE DEF r
<1>4. CallOK(r) BY <1>2, <1>3 DEF CallOK
<1> QED BY <1>2, <1>4 DEF r

\* Entering Update keeps the types and what each call relies on.
LEMMA BeginUpdateKeeps ==
  ASSUME TaskInv, NEW c \in Caller, NEW k \in Task, NEW in \in EditBody, BeginUpdate(c, k, in)
  PROVE  TaskInv'
<1> DEFINE t == Edited(rows[k], in)
           r == [NoCall EXCEPT !.todo = UpdatePlan(rows[k], t), !.id = k, !.t = t]
<1>1. rows[k] \in Row BY DEF TaskInv, TaskTypeOK, BeginUpdate, Exists
<1>2. t \in Row BY <1>1, EditedRow
<1>3. r \in Call /\ CallOK(r) BY <1>2, EditCallOK, PlansPlanned
<1>4. call' = [call EXCEPT ![c] = r] BY DEF BeginUpdate, Edit
<1> HIDE DEF r
<1>5. call' \in [Caller -> Call] /\ CallsOK' BY <1>3, <1>4, OneCall DEF TaskInv, TaskTypeOK
<1>6. UNCHANGED <<rows, assigned, fires, queue, faults>> BY DEF BeginUpdate
<1> QED BY <1>5, <1>6 DEF TaskInv, TaskTypeOK

\* The same for Reorder.
LEMMA BeginReorderKeeps ==
  ASSUME TaskInv, NEW c \in Caller, NEW k \in Task, NEW in \in MoveBody, BeginReorder(c, k, in)
  PROVE  TaskInv'
<1> DEFINE t == Moved(rows[k], in)
           r == [NoCall EXCEPT !.todo = ReorderPlan(rows[k], t), !.id = k, !.t = t]
<1>1. rows[k] \in Row BY DEF TaskInv, TaskTypeOK, BeginReorder, Exists
<1>2. t \in Row BY <1>1, MovedRow
<1>3. r \in Call /\ CallOK(r) BY <1>2, EditCallOK, PlansPlanned
<1>4. call' = [call EXCEPT ![c] = r] BY DEF BeginReorder, Edit
<1> HIDE DEF r
<1>5. call' \in [Caller -> Call] /\ CallsOK' BY <1>3, <1>4, OneCall DEF TaskInv, TaskTypeOK
<1>6. UNCHANGED <<rows, assigned, fires, queue, faults>> BY DEF BeginReorder
<1> QED BY <1>5, <1>6 DEF TaskInv, TaskTypeOK

\* The same for the calls that keep no copy.
LEMMA EnterOK ==
  ASSUME TaskInv, NEW c \in Caller, NEW k \in Task, NEW u \in User \cup {NULL}, NEW plan,
         \/ plan \in {<<"archive">>, <<"unarchive">>, <<"delete">>, <<"unassign">>}
         \/ plan = <<"assign", "reread", "tell">> /\ u \in User,
         Enter(c, k, plan, u),
         UNCHANGED <<rows, assigned, fires, queue, faults>>
  PROVE  TaskInv'
<1> DEFINE r == [NoCall EXCEPT !.todo = plan, !.id = k, !.who = u]
<1>1. plan \in Seq(Step) /\ plan # <<>>
  <2>1. CASE plan = <<"archive">> BY <2>1 DEF Step, DbStep
  <2>2. CASE plan = <<"unarchive">> BY <2>2 DEF Step, DbStep
  <2>3. CASE plan = <<"delete">> BY <2>3 DEF Step, DbStep
  <2>4. CASE plan = <<"unassign">> BY <2>4 DEF Step, DbStep
  <2>5. CASE plan = <<"assign", "reread", "tell">> BY <2>5 DEF Step, DbStep
  <2> QED BY <2>1, <2>2, <2>3, <2>4, <2>5
<1>2. r \in Call /\ r.todo = plan /\ r.id = k /\ r.who = u BY <1>1 DEF Call, NoCall
<1> HIDE DEF r
<1>3. ASSUME NEW i \in 1..Len(plan) PROVE StepOK(r, i)
  <2>1. CASE plan \in {<<"archive">>, <<"unarchive">>, <<"delete">>, <<"unassign">>}
    <3>1. plan[i] \in {"archive", "unarchive", "delete", "unassign"} BY <2>1
    <3> QED BY <1>2, <3>1 DEF StepOK
  <2>2. CASE plan = <<"assign", "reread", "tell">> /\ u \in User
    <3>1. /\ Len(plan) = 3
          /\ plan[1] = "assign" /\ plan[2] = "reread" /\ plan[3] = "tell"
      BY <2>2
    <3>2. i = 1 \/ i = 2 \/ i = 3 BY <3>1
    <3>3. i = 3 => 2 \in 1..(i-1) BY <3>2
    <3> QED BY <1>2, <2>2, <3>1, <3>2, <3>3 DEF StepOK
  <2> QED BY <2>1, <2>2
<1>4. CallOK(r) BY <1>1, <1>2, <1>3 DEF CallOK
<1>5. call' = [call EXCEPT ![c] = r] BY DEF Enter, r
<1>6. call' \in [Caller -> Call] /\ CallsOK' BY <1>2, <1>4, <1>5, OneCall DEF TaskInv, TaskTypeOK
<1> QED BY <1>6 DEF TaskInv, TaskTypeOK

\* The same for Create.
LEMMA BeginCreateKeeps ==
  ASSUME TaskInv, NEW c \in Caller, NEW d \in Drafts, BeginCreate(c, d)
  PROVE  TaskInv'
<1> DEFINE plan == <<"insert", "enlist", "announce">>
           r == [NoCall EXCEPT !.todo = plan, !.t = d]
<1>1. /\ plan \in Seq(Step) /\ plan # <<>> /\ Len(plan) = 3
      /\ plan[1] = "insert" /\ plan[2] = "enlist" /\ plan[3] = "announce"
  BY DEF Step, DbStep
<1>2. d \in Row /\ d.root = NULL BY TaskServiceAssumption
<1> HIDE DEF plan
<1>3. r \in Call /\ r.todo = plan /\ r.t = d /\ r.id = NULL BY <1>1, <1>2 DEF Call, NoCall
<1>4. call' = [call EXCEPT ![c] = r] BY DEF BeginCreate, plan
<1> HIDE DEF r
<1>5. ASSUME NEW i \in 1..Len(plan) PROVE StepOK(r, i)
  <2>1. i = 1 \/ i = 2 \/ i = 3 BY <1>1
  <2>2. i # 1 => 1 \in 1..(i-1) BY <2>1
  <2> QED BY <1>1, <1>2, <1>3, <2>1, <2>2 DEF StepOK
<1>6. CallOK(r) BY <1>1, <1>3, <1>5 DEF CallOK
<1>7. call' \in [Caller -> Call] /\ CallsOK' BY <1>3, <1>4, <1>6, OneCall DEF TaskInv, TaskTypeOK
<1>8. UNCHANGED <<rows, assigned, fires, queue, faults>> BY DEF BeginCreate
<1> QED BY <1>7, <1>8 DEF TaskInv, TaskTypeOK

\* The same for every request a client sends.
LEMMA RequestKeeps == ASSUME TaskInv, NEW c \in Client, Request(c) PROVE TaskInv'
<1>0. c \in Caller BY TaskServiceAssumption
<1>1. ASSUME NEW k \in Task, NEW in \in Edits, BeginUpdate(c, k, in) PROVE TaskInv'
  <2>1. in \in EditBody BY TaskServiceAssumption
  <2> QED BY <1>0, <1>1, <2>1, BeginUpdateKeeps
<1>2. ASSUME NEW k \in Task, NEW in \in Moves, BeginReorder(c, k, in) PROVE TaskInv'
  <2>1. in \in MoveBody BY TaskServiceAssumption
  <2> QED BY <1>0, <1>2, <2>1, BeginReorderKeeps
<1>3. ASSUME NEW k \in Task, BeginArchive(c, k) \/ BeginUnarchive(c, k) \/ BeginDelete(c, k)
      PROVE  TaskInv'
  BY <1>0, <1>3, EnterOK DEF BeginArchive, BeginUnarchive, BeginDelete
<1>4. ASSUME NEW k \in Task, NEW u \in User, BeginAssign(c, k, u) \/ BeginUnassign(c, k, u)
      PROVE  TaskInv'
  BY <1>0, <1>4, EnterOK DEF BeginAssign, BeginUnassign
<1>5. ASSUME NEW d \in Drafts, BeginCreate(c, d) PROVE TaskInv'
  BY <1>0, <1>5, BeginCreateKeeps
<1> QED BY <1>1, <1>2, <1>3, <1>4, <1>5
       DEF Request, create, update, reorder, delete, archive, unarchive, addAssignee,
           removeAssignee
-----------------------------------------------------------------------------
(* The steps of a call *)

\* What is known of a call about to take a step.
LEMMA Running ==
  ASSUME TaskInv, NEW c \in Caller, ~Idle(c)
  PROVE  LET r == call[c] IN
         /\ r \in Call /\ r.todo # <<>>
         /\ \A i \in 1..Len(r.todo) : StepOK(r, i)
         /\ Head(r.todo) = r.todo[1] /\ StepOK(r, 1)
<1> DEFINE r == call[c]
<1>1. r \in Call /\ CallOK(r) /\ r # NoCall BY DEF TaskInv, TaskTypeOK, CallsOK, Idle
<1> HIDE DEF r
<1>2. r.todo # <<>> /\ \A i \in 1..Len(r.todo) : StepOK(r, i) BY <1>1 DEF CallOK
<1>3. r.todo \in Seq(Step) BY <1>1 DEF Call
<1>4. Len(r.todo) \in Nat \ {0} BY <1>2, <1>3, EmptySeq
<1>5. Head(r.todo) = r.todo[1] /\ 1 \in 1..Len(r.todo) BY <1>3, <1>4
<1> QED BY <1>1, <1>2, <1>5 DEF r

\* A call that goes on to its next step still has what its steps rely on.
LEMMA ProceedOK ==
  ASSUME TaskInv, NEW c \in Caller, ~Idle(c),
         Head(call[c].todo) \notin {"insert", "spawn", "reread"}, Proceed(c)
  PROVE  call' \in [Caller -> Call] /\ CallsOK'
<1> DEFINE r == call[c]
<1>1. /\ r \in Call /\ r.todo # <<>> /\ \A i \in 1..Len(r.todo) : StepOK(r, i)
      /\ Head(r.todo) \notin {"insert", "spawn", "reread"}
  BY Running
<1>2. call' = [call EXCEPT ![c] = After(r, 1)] BY DEF Proceed, TaskInv, TaskTypeOK
<1> HIDE DEF r
<1>3. After(r, 1) \in Call /\ CallOK(After(r, 1)) BY <1>1, AfterOne
<1> QED BY <1>2, <1>3, OneCall DEF TaskInv, TaskTypeOK

\* A call that returns relies on nothing.
LEMMA ReturnOK ==
  ASSUME TaskInv, NEW c \in Caller, Return(c)
  PROVE  call' \in [Caller -> Call] /\ CallsOK'
BY NoCallOK, OneCall DEF TaskInv, TaskTypeOK, Return

\* A call that skips the next occurrence skips the steps that would need it.
LEMMA SkipSpawnOK ==
  ASSUME TaskInv, NEW c \in Caller, At(c, "spawn"), call' = [call EXCEPT ![c] = After(@, 3)]
  PROVE  call' \in [Caller -> Call] /\ CallsOK'
<1> DEFINE r == call[c]
<1>1. /\ r \in Call /\ r.todo # <<>> /\ \A i \in 1..Len(r.todo) : StepOK(r, i)
      /\ Head(r.todo) = "spawn"
  BY Running DEF At
<1>2. call' = [call EXCEPT ![c] = After(r, 3)] BY DEF TaskInv, TaskTypeOK
<1> HIDE DEF r
<1>3. After(r, 3) \in Call /\ CallOK(After(r, 3)) BY <1>1, AfterSpawn
<1> QED BY <1>2, <1>3, OneCall DEF TaskInv, TaskTypeOK

\* An INSERT gives the call the task its later steps announce.
LEMMA BornKeeps ==
  ASSUME TaskInv, NEW c \in Caller, At(c, "insert") \/ At(c, "spawn"), NEW t \in Row, Born(c, t)
  PROVE  /\ call' \in [Caller -> Call] /\ CallsOK'
         /\ rows' \in [Task -> Row \cup {Unborn, Deleted}]
<1> DEFINE r == call[c]
<1>1. PICK k \in FreeKeys : /\ rows' = [rows EXCEPT ![k] = t]
                           /\ call' = [call EXCEPT ![c] = After([@ EXCEPT !.kid = k, !.born = t], 1)]
  BY DEF Born
<1>2. k \in Task BY DEF FreeKeys
<1>3. rows' \in [Task -> Row \cup {Unborn, Deleted}] BY <1>1, <1>2 DEF TaskInv, TaskTypeOK
<1> DEFINE q == [r EXCEPT !.kid = k, !.born = t]
<1>4. /\ r \in Call /\ r.todo # <<>> /\ \A i \in 1..Len(r.todo) : StepOK(r, i)
      /\ Head(r.todo) \in {"insert", "spawn"}
  BY Running DEF At
<1>5. call' = [call EXCEPT ![c] = After(q, 1)] BY <1>1 DEF TaskInv, TaskTypeOK
<1> HIDE DEF r
<1>6. q \in Call /\ q.todo = r.todo /\ q.id = r.id /\ q.who = r.who /\ q.t = r.t
      /\ q.kid = k /\ q.born = t
  BY <1>2, <1>4 DEF Call
<1> HIDE DEF q
<1>7. KidReady(q) BY <1>2, <1>6 DEF KidReady
<1>8. After(q, 1) \in Call /\ CallOK(After(q, 1)) BY <1>4, <1>6, <1>7, AfterOne
<1> QED BY <1>3, <1>5, <1>8, OneCall DEF TaskInv, TaskTypeOK

\* The next occurrence is a row.
LEMMA OccurrenceRow ==
  ASSUME NEW id \in Task, NEW t \in Row, NEW date \in Due
  PROVE  Occurrence(id, t, date) \in Row
BY DEF Occurrence, Row, Text

\* The steps that write a row of the task they hold.
LEMMA RowStepKeeps ==
  ASSUME TaskInv, NEW c \in Caller, Write(c) \/ Place(c) \/ Mark(c) \/ SetArchived(c) \/ Delete(c)
  PROVE  TaskInv'
<1> DEFINE r == call[c]
<1>1. ~Idle(c) /\ Head(r.todo) \in {"write", "place", "mark", "archive", "unarchive", "delete"}
  BY DEF Write, Place, Mark, SetArchived, Delete, At
<1>2. r \in Call /\ Head(r.todo) = r.todo[1] /\ StepOK(r, 1) BY <1>1, Running
<1>3. r.id \in Task BY <1>1, <1>2 DEF StepOK
<1>4. Head(r.todo) \in {"write", "place", "mark"} => r.t \in Row BY <1>2 DEF StepOK
<1>5. call' \in [Caller -> Call] /\ CallsOK'
  BY <1>1, ProceedOK, ReturnOK DEF Write, Place, Mark, SetArchived, Delete
<1>6. rows' \in [Task -> Row \cup {Unborn, Deleted}]
  <2>1. CASE Write(c) \/ Mark(c)
    BY <1>3, <1>4, <2>1 DEF Write, Mark, WriteRow, At, TaskInv, TaskTypeOK
  <2>2. CASE Place(c)
    <3>1. r.t.txt \in Text /\ r.t.sid \in Status \cup {NULL} BY <1>4, <2>2 DEF Place, At, Row
    <3>2. Exists(r.id) => rows[r.id] \in Row BY <1>3 DEF Exists, TaskInv, TaskTypeOK
    <3>3. Exists(r.id) => [rows[r.id] EXCEPT !.txt = r.t.txt, !.sid = r.t.sid] \in Row
      BY <3>1, <3>2 DEF Row
    <3>4. rows' = IF Exists(r.id)
                  THEN [rows EXCEPT ![r.id] = [rows[r.id] EXCEPT !.txt = r.t.txt, !.sid = r.t.sid]]
                  ELSE rows
      <4> DEFINE x == r.t.txt
                 y == r.t.sid
      <4>1. rows' = IF Exists(r.id) THEN [rows EXCEPT ![r.id].txt = x, ![r.id].sid = y] ELSE rows
        BY <2>2 DEF Place
      <4> HIDE DEF x, y
      <4> QED BY <1>3, <4>1 DEF x, y, TaskInv, TaskTypeOK
    <3> QED BY <1>3, <3>3, <3>4 DEF TaskInv, TaskTypeOK
  <2>3. CASE SetArchived(c)
    <3> DEFINE b == At(c, "archive")
    <3>1. b \in BOOLEAN BY DEF At
    <3>2. rows' = IF Exists(r.id) THEN [rows EXCEPT ![r.id].arch = b] ELSE rows
      BY <2>3 DEF SetArchived
    <3> HIDE DEF b
    <3>3. Exists(r.id) => rows[r.id] \in Row BY <1>3 DEF Exists, TaskInv, TaskTypeOK
    <3>4. Exists(r.id) => [rows[r.id] EXCEPT !.arch = b] \in Row BY <3>1, <3>3 DEF Row
    <3> QED BY <1>3, <3>2, <3>4 DEF TaskInv, TaskTypeOK
  <2>4. CASE Delete(c)
    <3>1. rows' = [j \in Task |-> IF j = r.id THEN Deleted
                                  ELSE IF Exists(j) /\ rows[j].root = r.id
                                       THEN [rows[j] EXCEPT !.root = NULL] ELSE rows[j]]
      BY <2>4 DEF Delete
    <3>2. \A j \in Task : Exists(j) => [rows[j] EXCEPT !.root = NULL] \in Row
      BY DEF Exists, TaskInv, TaskTypeOK, Row
    <3> QED BY <3>1, <3>2 DEF TaskInv, TaskTypeOK
  <2> QED BY <2>1, <2>2, <2>3, <2>4
<1>7. assigned' \subseteq assigned /\ fires' \subseteq fires /\ UNCHANGED <<queue, faults>>
  BY DEF Write, Place, Mark, SetArchived, Delete
<1> QED BY <1>5, <1>6, <1>7 DEF TaskInv, TaskTypeOK
\* The steps that insert a task.
LEMMA InsertStepKeeps ==
  ASSUME TaskInv, NEW c \in Caller, Insert(c) \/ Spawn(c) PROVE TaskInv'
<1> DEFINE r == call[c]
<1>1. At(c, "insert") \/ At(c, "spawn") BY DEF Insert, Spawn
<1>2. r \in Call /\ Head(r.todo) = r.todo[1] /\ StepOK(r, 1) BY <1>1, Running DEF At
<1>3. r.t \in Row /\ (At(c, "spawn") => r.id \in Task) BY <1>1, <1>2 DEF At, StepOK
<1>4. /\ call' \in [Caller -> Call] /\ CallsOK'
      /\ rows' \in [Task -> Row \cup {Unborn, Deleted}]
  <2>1. CASE Insert(c)
    <3>1. CASE Born(c, r.t) BY <1>1, <1>3, <3>1, BornKeeps
    <3>2. CASE Return(c) /\ UNCHANGED rows BY <3>2, ReturnOK DEF TaskInv, TaskTypeOK
    <3> QED BY <2>1, <3>1, <3>2 DEF Insert
  <2>2. CASE Spawn(c)
    <3>1. ASSUME NEW date \in NextDates(r.t.due), Born(c, Occurrence(r.id, r.t, date))
          PROVE  /\ call' \in [Caller -> Call] /\ CallsOK'
                 /\ rows' \in [Task -> Row \cup {Unborn, Deleted}]
      <4>1. date \in Due BY DEF NextDates
      <4>2. Occurrence(r.id, r.t, date) \in Row
        BY <1>3, <2>2, <4>1, OccurrenceRow DEF Spawn
      <4> QED BY <1>1, <3>1, <4>2, BornKeeps
    <3>2. CASE call' = [call EXCEPT ![c] = After(@, 3)] /\ UNCHANGED rows
      BY <2>2, <3>2, SkipSpawnOK DEF Spawn, TaskInv, TaskTypeOK
    <3> QED BY <2>2, <3>1, <3>2 DEF Spawn
  <2> QED BY <2>1, <2>2 DEF Insert, Spawn
<1>5. UNCHANGED <<assigned, fires, queue, faults>> BY DEF Insert, Spawn
<1> QED BY <1>4, <1>5 DEF TaskInv, TaskTypeOK

\* The steps that touch task_assignees and automation_fires, and the second read.
LEMMA SideStepKeeps ==
  ASSUME TaskInv, NEW c \in Caller,
         \/ Inherit(c) \/ Enlist(c) \/ Assign(c) \/ Unassign(c) \/ Reread(c)
         \/ ClearTaskFires(c)
  PROVE  TaskInv'
<1> DEFINE r == call[c]
<1>1. /\ r \in Call /\ Head(r.todo) = r.todo[1] /\ StepOK(r, 1)
      /\ r.todo # <<>> /\ ~Idle(c)
      /\ \A i \in 1..Len(r.todo) : StepOK(r, i)
  BY Running DEF Inherit, Enlist, Assign, Unassign, Reread, ClearTaskFires, At
<1>2. CASE Inherit(c) \/ Enlist(c) \/ Assign(c) \/ Unassign(c) \/ ClearTaskFires(c)
  <2>1. call' \in [Caller -> Call] /\ CallsOK'
    BY <1>1, <1>2, ProceedOK, ReturnOK DEF Inherit, Enlist, Assign, Unassign, ClearTaskFires, At
  <2>2. (Inherit(c) \/ Enlist(c)) => r.kid \in Task
    BY <1>1 DEF Inherit, Enlist, At, StepOK, KidReady
  <2>3. Assign(c) => r.id \in Task /\ r.who \in User BY <1>1 DEF Assign, At, StepOK
  <2>4. assigned' \subseteq Task \X User
    <3>1. CASE Inherit(c) BY <2>2, <3>1 DEF Inherit, TaskInv, TaskTypeOK
    <3>2. CASE Enlist(c)
      <4>1. PICK team \in SUBSET User :
              assigned' = assigned \cup
                {<<r.kid, u>> : u \in IF Exists(r.kid) THEN team ELSE {}}
        BY <3>2 DEF Enlist
      <4>2. (IF Exists(r.kid) THEN team ELSE {}) \subseteq User OBVIOUS
      <4> QED BY <2>2, <3>2, <4>1, <4>2 DEF TaskInv, TaskTypeOK
    <3>3. CASE Assign(c) BY <2>3, <3>3 DEF Assign, TaskInv, TaskTypeOK
    <3>4. CASE Unassign(c) \/ ClearTaskFires(c)
      BY <3>4 DEF Unassign, ClearTaskFires, TaskInv, TaskTypeOK
    <3> QED BY <1>2, <3>1, <3>2, <3>3, <3>4
  <2>5. fires' \subseteq fires /\ UNCHANGED <<rows, queue, faults>>
    BY <1>2 DEF Inherit, Enlist, Assign, Unassign, ClearTaskFires
  <2> QED BY <2>1, <2>4, <2>5 DEF TaskInv, TaskTypeOK
<1>3. CASE Reread(c)
  <2>1. r.id \in Task BY <1>1, <1>3 DEF Reread, At, StepOK
  <2>2. call' \in [Caller -> Call] /\ CallsOK'
    <3>1. CASE Exists(r.id)
      <4> DEFINE t == rows[r.id]
                 q == [r EXCEPT !.t = t]
      <4>1. t \in Row BY <2>1, <3>1 DEF Exists, TaskInv, TaskTypeOK
      <4>2. call' = [call EXCEPT ![c] = After(q, 1)]
        BY <1>3, <3>1 DEF Reread, TaskInv, TaskTypeOK
      <4>3. Head(r.todo) = "reread" BY <1>3 DEF Reread, At
      <4> HIDE DEF t, r
      <4>4. q \in Call /\ q.todo = r.todo /\ q.id = r.id /\ q.who = r.who /\ q.t = t
            /\ q.kid = r.kid /\ q.born = r.born
        BY <1>1, <4>1 DEF Call
      <4> HIDE DEF q
      <4>5. KidReady(r) => KidReady(q) BY <4>4 DEF KidReady
      <4>6. After(q, 1) \in Call /\ CallOK(After(q, 1))
        <5>1. r \in Call /\ r.todo # <<>> /\ \A i \in 1..Len(r.todo) : StepOK(r, i) BY <1>1
        <5>2. q.t \in Row BY <4>1, <4>4
        <5>3. Head(r.todo) \notin {"insert", "spawn"} BY <4>3
        <5> QED BY <4>4, <4>5, <5>1, <5>2, <5>3, AfterOne
      <4> QED BY <4>2, <4>6, OneCall DEF TaskInv, TaskTypeOK
    <3>2. CASE ~Exists(r.id) BY <1>3, <3>2, ReturnOK DEF Reread
    <3> QED BY <3>1, <3>2
  <2> QED BY <1>3, <2>2 DEF Reread, TaskInv, TaskTypeOK
<1> QED BY <1>2, <1>3

\* What a call dispatches is an event.
LEMMA EventTyped ==
  ASSUME TaskInv, NEW c \in Caller, Emit(c) PROVE EventOf(call[c]) \in Event
<1> DEFINE r == call[c]
<1>1. ~Idle(c) /\ Head(r.todo) \in {"changed", "completed", "announce", "tell"}
  BY DEF Emit, At
<1>2. r \in Call /\ Head(r.todo) = r.todo[1] /\ StepOK(r, 1) BY <1>1, Running
<1>3. CASE Head(r.todo) = "changed" \/ Head(r.todo) = "completed"
  <2>1. r.id \in Task /\ r.t \in Row BY <1>2, <1>3 DEF StepOK
  <2> QED BY <1>3, <2>1 DEF EventOf, Event, Trigger
<1>4. CASE Head(r.todo) = "announce"
  <2>1. r.kid \in Task /\ r.born \in Row BY <1>2, <1>4 DEF StepOK, KidReady
  <2> QED BY <1>4, <2>1 DEF EventOf, Event, Trigger
<1>5. CASE Head(r.todo) = "tell"
  <2>1. r.id \in Task /\ r.t \in Row /\ r.who \in User BY <1>2, <1>5 DEF StepOK
  <2> QED BY <1>5, <2>1 DEF EventOf, Event, Trigger
<1> QED BY <1>1, <1>3, <1>4, <1>5

\* A dispatch keeps the queue typed and within its capacity.
LEMMA EmitKeeps == ASSUME TaskInv, NEW c \in Caller, Emit(c) PROVE TaskInv'
<1> DEFINE e == EventOf(call[c])
<1>1. ~Idle(c) /\ Head(call[c].todo) \in {"changed", "completed", "announce", "tell"}
  BY DEF Emit, At
<1>2. call' \in [Caller -> Call] /\ CallsOK' BY <1>1, ProceedOK DEF Emit
<1>3. e \in Event BY EventTyped
<1>5. queue' = IF Len(queue) < QueueCap THEN Append(queue, e) ELSE queue BY DEF Emit, Dispatch
<1> HIDE DEF e
<1>6. queue \in Seq(Event) /\ Len(queue) <= QueueCap /\ Len(queue) \in Nat
  BY LenProperties DEF TaskInv, TaskTypeOK
<1>7. queue' \in Seq(Event) /\ Len(queue') <= QueueCap
  <2>1. Append(queue, e) \in Seq(Event) /\ Len(Append(queue, e)) = Len(queue) + 1
    BY <1>3, <1>6, AppendProperties
  <2> QED BY <1>5, <1>6, <2>1, TaskServiceAssumption
<1>8. UNCHANGED <<rows, assigned, fires, faults>> BY DEF Emit
<1> QED BY <1>2, <1>7, <1>8 DEF TaskInv, TaskTypeOK

\* A failing statement ends its call or skips the steps that needed it.
LEMMA FailKeeps == ASSUME TaskInv, NEW c \in Caller, Fail(c) PROVE TaskInv'
<1> DEFINE r == call[c]
<1>1. ~Idle(c) /\ r.todo # <<>> BY Running DEF Fail
<1>2. call' \in [Caller -> Call] /\ CallsOK'
  <2>1. CASE At(c, "mark") \/ At(c, "inherit") \/ At(c, "enlist") \/ At(c, "clear")
    <3>0. ~At(c, "spawn") BY <2>1 DEF At
    <3>1. Proceed(c) BY <2>1, <3>0 DEF Fail, Proceed
    <3>2. Head(r.todo) \notin {"insert", "spawn", "reread"} BY <2>1 DEF At
    <3> QED BY <1>1, <3>1, <3>2, ProceedOK
  <2>2. CASE At(c, "spawn")
    <3>1. call' = [call EXCEPT ![c] = After(@, 3)] BY <2>2 DEF Fail, At
    <3> QED BY <2>2, <3>1, SkipSpawnOK
  <2>3. CASE ~(\/ At(c, "mark") \/ At(c, "inherit") \/ At(c, "enlist") \/ At(c, "clear")
               \/ At(c, "spawn"))
    <3>1. Return(c) BY <2>3 DEF Fail, Return
    <3> QED BY <3>1, ReturnOK
  <2> QED BY <2>1, <2>2, <2>3
<1>3. faults' \in 0..MaxFaults
  BY TaskServiceAssumption DEF Fail, TaskInv, TaskTypeOK
<1>4. UNCHANGED <<rows, assigned, fires, queue>> BY DEF Fail
<1> QED BY <1>2, <1>3, <1>4 DEF TaskInv, TaskTypeOK

\* Every step of the service keeps the types and what each call relies on.
LEMMA TaskInvStep == ASSUME TaskInv, TaskNext PROVE TaskInv'
<1>1. ASSUME NEW c \in Client, Request(c) PROVE TaskInv' BY <1>1, RequestKeeps
<1>2. ASSUME NEW c \in Caller, Run(c) PROVE TaskInv'
  BY <1>2, RowStepKeeps, InsertStepKeeps, SideStepKeeps, EmitKeeps DEF Run
<1>3. ASSUME NEW c \in Caller, Fail(c) PROVE TaskInv' BY <1>3, FailKeeps
<1> QED BY <1>1, <1>2, <1>3 DEF TaskNext

\* The types and what each call relies on hold at the start.
LEMMA TaskInvInit == ASSUME TaskInit PROVE TaskInv
<1>1. rows \in [Task -> Row \cup {Unborn, Deleted}] BY TaskServiceAssumption DEF TaskInit
<1>2. queue \in Seq(Event) /\ Len(queue) <= QueueCap
  BY TaskServiceAssumption, EmptySeq DEF TaskInit
<1>3. call \in [Caller -> Call] /\ CallsOK BY NoCallOK DEF TaskInit, CallsOK
<1>4. assigned \subseteq Task \X User /\ fires \subseteq Automation \X Task
      /\ faults \in 0..MaxFaults
  BY TaskServiceAssumption DEF TaskInit
<1> QED BY <1>1, <1>2, <1>3, <1>4 DEF TaskInv, TaskTypeOK

\* Types are kept by every step that leaves the service's variables alone.
LEMMA TaskInvStutters == ASSUME TaskInv, UNCHANGED taskVars PROVE TaskInv'
BY DEF TaskInv, TaskTypeOK, CallsOK, taskVars
-----------------------------------------------------------------------------
(* A recurring series stays flat.                                              *)
(*                                                                             *)
(* SeriesFlat alone is not inductive: a call writes a copy of a row read long  *)
(* ago.  What makes it safe is that such a copy never disagrees with the table *)
(* about the root of its own task: a root changes only when the task it names  *)
(* is deleted, and then the copy can no longer be written (foreign key).       *)

CopyOK(r) ==
    (r.id \in Task /\ r.t \in Row) =>
      /\ rows[r.id] # Unborn
      /\ r.t.root # NULL => /\ rows[r.t.root] # Unborn
                            /\ Exists(r.t.root) => rows[r.t.root].root = NULL
      /\ Exists(r.id) =>
           rows[r.id].root = IF r.t.root # NULL /\ Exists(r.t.root) THEN r.t.root ELSE NULL

SeriesInv == SeriesFlat /\ \A c \in Caller : CopyOK(call[c])

\* Action: each call keeps its copy, drops it, or has just read the row.
CopiesKept ==
    \A c \in Caller :
       \/ call'[c].id \notin Task \/ call'[c].t \notin Row
       \/ call'[c].id = call[c].id /\ call'[c].t = call[c].t
       \/ Exists(call'[c].id) /\ call'[c].t.root = rows[call'[c].id].root

\* Action: no row appears, disappears or changes its root.
RootsKept ==
    \A j \in Task : /\ (rows'[j] = Unborn) <=> (rows[j] = Unborn)
                    /\ Exists(j)' <=> Exists(j)
                    /\ Exists(j) => rows'[j].root = rows[j].root

\* A step after which calls hold the copies they held, or copies of the table's
\* row, and rows have the root they had, keeps every series flat.
LEMMA SeriesKept ==
  ASSUME TaskInv, TaskInv', SeriesInv, CopiesKept, RootsKept PROVE SeriesInv'
<1>1. \A j \in Task : Exists(j) => rows[j] \in Row /\ rows[j].root \in Task \cup {NULL}
  BY DEF TaskInv, TaskTypeOK, Exists, Row
<1>2. SeriesFlat' BY <1>1 DEF SeriesInv, SeriesFlat, RootsKept
<1>3. ASSUME NEW c \in Caller, NEW k \in Task, NEW t \in Row, call'[c].id = k, call'[c].t = t
      PROVE  CopyOK(call[c])'
  <2>1. t.root \in Task \cup {NULL} BY DEF Row
  <2>2. ASSUME rows[k] # Unborn,
               t.root # NULL => /\ rows[t.root] # Unborn
                                /\ Exists(t.root) => rows[t.root].root = NULL,
               Exists(k) =>
                 rows[k].root = IF t.root # NULL /\ Exists(t.root) THEN t.root ELSE NULL
        PROVE  CopyOK(call[c])'
    <3>1. rows'[k] # Unborn /\ (Exists(k)' <=> Exists(k)) BY <2>2 DEF RootsKept
    <3>2. t.root # NULL => /\ rows'[t.root] # Unborn
                           /\ Exists(t.root)' <=> Exists(t.root)
                           /\ Exists(t.root)' => rows'[t.root].root = NULL
      BY <2>1, <2>2 DEF RootsKept
    <3>3. Exists(k)' =>
            rows'[k].root = IF t.root # NULL /\ Exists(t.root)' THEN t.root ELSE NULL
      BY <2>2, <3>1, <3>2 DEF RootsKept
    <3> QED BY <1>3, <3>1, <3>2, <3>3 DEF CopyOK
  <2>3. CASE k = call[c].id /\ t = call[c].t
    <3>1. CopyOK(call[c]) BY DEF SeriesInv
    <3> QED BY <2>2, <2>3, <3>1 DEF CopyOK
  <2>4. CASE Exists(k) /\ t.root = rows[k].root
    <3>1. t.root # NULL => Exists(t.root) /\ rows[t.root].root = NULL
      BY <2>4 DEF SeriesInv, SeriesFlat
    <3> QED BY <2>2, <2>4, <3>1 DEF Exists
  <2> QED BY <1>3, <2>3, <2>4 DEF CopiesKept
<1>4. ASSUME NEW c \in Caller PROVE CopyOK(call[c])' BY <1>3 DEF CopyOK
<1> QED BY <1>2, <1>4 DEF SeriesInv

\* The rest of a call holds the same copy.
LEMMA AfterCopy ==
  ASSUME NEW r \in Call, NEW n \in Nat
  PROVE  After(r, n) = NoCall \/ (After(r, n).id = r.id /\ After(r, n).t = r.t)
BY DEF After, Call

\* A goroutine outside the service holds no copy.
LEMMA NoCallNoCopy == NoCall.id \notin Task
BY TaskServiceAssumption DEF NoCall

\* A step by which one call goes on or ends keeps the copies.
LEMMA ProceedCopies ==
  ASSUME TaskInv, NEW c \in Caller, NEW n \in Nat,
         \/ call' = [call EXCEPT ![c] = After(@, n)]
         \/ call' = [call EXCEPT ![c] = NoCall]
  PROVE  CopiesKept
<1>1. call \in [Caller -> Call] BY DEF TaskInv, TaskTypeOK
<1>2. call'[c] = NoCall \/ (call'[c].id = call[c].id /\ call'[c].t = call[c].t)
  BY <1>1, AfterCopy
<1>3. \A d \in Caller : d # c => call'[d] = call[d] BY <1>1
<1> QED BY <1>2, <1>3, NoCallNoCopy DEF CopiesKept

\* A request never changes the root of the copy it edits.
LEMMA ChosenPlan ==
  ASSUME TaskInv, NEW row \in Row
  PROVE  /\ \A in \in EditBody : Edited(row, in).root = row.root
         /\ \A in \in MoveBody : Moved(row, in).root = row.root
<1>1. ASSUME NEW in \in EditBody PROVE Edited(row, in).root = row.root
  <2>1. WithText(row, in.txt).root = row.root /\ WithText(row, in.txt) \in Row
    BY DEF WithText, Row, EditBody
  <2> DEFINE w == WithText(row, in.txt)
             t == WithStatus(w, in.sid)
  <2> HIDE DEF w
  <2>2. t.root = w.root /\ DOMAIN t = DOMAIN w BY <2>1 DEF WithStatus, Row, w
  <2>3. Edited(row, in) = [t EXCEPT !.due = Or(in.due, t.due), !.done = Or(in.done, t.done),
                                    !.arch = Or(in.arch, t.arch), !.rule = Or(in.rule, t.rule)]
    BY DEF Edited, t, w
  <2> HIDE DEF t
  <2>4. DOMAIN t = DOMAIN row BY <2>1, <2>2 DEF Row, w
  <2> QED BY <2>1, <2>2, <2>3, <2>4 DEF Row, w
<1>2. ASSUME NEW in \in MoveBody PROVE Moved(row, in).root = row.root
  BY DEF Moved, Row
<1> QED BY <1>1, <1>2

\* Entering the service adds a copy whose root is the table's.
LEMMA BeginCopies ==
  ASSUME TaskInv, NEW c \in Caller,
         \/ \E k \in Task, in \in EditBody : BeginUpdate(c, k, in)
         \/ \E k \in Task, in \in MoveBody : BeginReorder(c, k, in)
         \/ \E k \in Task : BeginArchive(c, k) \/ BeginUnarchive(c, k) \/ BeginDelete(c, k)
         \/ \E k \in Task, u \in User : BeginAssign(c, k, u) \/ BeginUnassign(c, k, u)
         \/ \E d \in Drafts : BeginCreate(c, d)
  PROVE  CopiesKept
<1>1. call \in [Caller -> Call] BY DEF TaskInv, TaskTypeOK
<1>2. \A x : call' = [call EXCEPT ![c] = x] =>
        call'[c] = x /\ \A d \in Caller : d # c => call'[d] = call[d]
  BY <1>1
<1>3. \A k \in Task : Exists(k) => rows[k] \in Row BY DEF TaskInv, TaskTypeOK, Exists
<1>4. ASSUME NEW k \in Task, NEW t, NEW plan, Edit(c, k, t, plan), Exists(k), t.root = rows[k].root
      PROVE  CopiesKept
  <2>1. call'[c].id = k /\ call'[c].t = t BY <1>2, <1>4 DEF Edit, NoCall
  <2> QED BY <1>2, <1>4, <2>1 DEF CopiesKept, Edit
<1>5. ASSUME NEW k \in Task, NEW in \in EditBody, BeginUpdate(c, k, in) PROVE CopiesKept
  <2>1. rows[k] \in Row /\ Exists(k) BY <1>3, <1>5 DEF BeginUpdate
  <2>2. Edited(rows[k], in).root = rows[k].root BY <2>1, ChosenPlan
  <2> QED BY <1>4, <1>5, <2>1, <2>2 DEF BeginUpdate
<1>6. ASSUME NEW k \in Task, NEW in \in MoveBody, BeginReorder(c, k, in) PROVE CopiesKept
  <2>1. rows[k] \in Row /\ Exists(k) BY <1>3, <1>6 DEF BeginReorder
  <2>2. Moved(rows[k], in).root = rows[k].root BY <2>1, ChosenPlan
  <2> QED BY <1>4, <1>6, <2>1, <2>2 DEF BeginReorder
<1>7. ASSUME NEW k, NEW plan, NEW u, Enter(c, k, plan, u) PROVE CopiesKept
  <2>0. call'[c] = [NoCall EXCEPT !.todo = plan, !.id = k, !.who = u] BY <1>1, <1>7 DEF Enter
  <2>1. call'[c].t \notin Row BY <2>0, TaskServiceAssumption DEF NoCall
  <2> QED BY <1>2, <1>7, <2>1 DEF CopiesKept, Enter
<1>8. ASSUME NEW d \in Drafts, BeginCreate(c, d) PROVE CopiesKept
  <2>0. call'[c] = [NoCall EXCEPT !.todo = <<"insert", "enlist", "announce">>, !.t = d]
    BY <1>1, <1>8 DEF BeginCreate
  <2>1. call'[c].id \notin Task BY <2>0, TaskServiceAssumption DEF NoCall
  <2> QED BY <1>2, <1>8, <2>1 DEF CopiesKept, BeginCreate
<1> QED BY <1>5, <1>6, <1>7, <1>8 DEF BeginArchive, BeginUnarchive, BeginDelete, BeginAssign,
                                      BeginUnassign
\* Steps that leave the table alone keep the roots.
LEMMA SameRows == ASSUME UNCHANGED rows PROVE RootsKept
BY DEF RootsKept, Exists

\* A late write puts back the root the row has, or one whose row is gone and
\* which the foreign key refuses.
LEMMA WriteSeries ==
  ASSUME TaskInv, TaskInv', SeriesInv, NEW c \in Caller,
         Write(c) \/ Place(c) \/ Mark(c) \/ SetArchived(c)
  PROVE  SeriesInv'
<1> DEFINE r == call[c]
<1>1. ~Idle(c) /\ Head(r.todo) \in {"write", "place", "mark", "archive", "unarchive"}
  BY DEF Write, Place, Mark, SetArchived, At
<1>2. r \in Call /\ Head(r.todo) = r.todo[1] /\ StepOK(r, 1) BY <1>1, Running
<1>3. r.id \in Task BY <1>1, <1>2 DEF StepOK
<1>4. Write(c) \/ Mark(c) => r.t \in Row BY <1>2 DEF StepOK, Write, Mark, At
<1>5. CopiesKept
  BY ProceedCopies DEF Write, Place, Mark, SetArchived, Proceed, Return
<1>6. rows \in [Task -> Row \cup {Unborn, Deleted}] BY DEF TaskInv, TaskTypeOK
<1>7. RootsKept
  <2>1. CASE UNCHANGED rows BY <2>1, SameRows
  <2>2. ASSUME NEW row \in Row, rows' = [rows EXCEPT ![r.id] = row], Exists(r.id),
               row.root = rows[r.id].root
        PROVE  RootsKept
    <3>1. \A j \in Task : rows'[j] = IF j = r.id THEN row ELSE rows[j] BY <1>3, <1>6, <2>2
    <3>2. row # Unborn /\ row # Deleted BY TaskServiceAssumption
    <3> QED BY <1>3, <2>2, <3>1, <3>2 DEF RootsKept, Exists
  <2>3. CASE (Write(c) \/ Mark(c)) /\ Exists(r.id) /\ RootExists(r.t)
    <3>1. CopyOK(r) BY DEF SeriesInv
    <3>2. r.t.root = rows[r.id].root BY <1>3, <1>4, <2>3, <3>1 DEF CopyOK, RootExists
    <3>3. rows' = [rows EXCEPT ![r.id] = r.t] BY <2>3 DEF Write, Mark, WriteRow
    <3> QED BY <1>4, <2>2, <2>3, <3>2, <3>3
  <2>4. CASE Place(c) /\ Exists(r.id)
    <3> DEFINE row == [rows[r.id] EXCEPT !.txt = r.t.txt, !.sid = r.t.sid]
    <3>1. r.t \in Row BY <1>2, <2>4 DEF StepOK, Place, At
    <3>2. rows[r.id] \in Row BY <1>3, <1>6, <2>4 DEF Exists
    <3>3. row \in Row /\ row.root = rows[r.id].root BY <3>1, <3>2 DEF Row
    <3>4. rows' = [rows EXCEPT ![r.id] = row]
      <4> DEFINE x == r.t.txt
                 y == r.t.sid
      <4>1. rows' = [rows EXCEPT ![r.id].txt = x, ![r.id].sid = y] BY <2>4 DEF Place
      <4>2. row = [rows[r.id] EXCEPT !.txt = x, !.sid = y] OBVIOUS
      <4> HIDE DEF x, y, row
      <4> QED BY <1>3, <1>6, <4>1, <4>2
    <3> HIDE DEF row
    <3> QED BY <2>2, <2>4, <3>3, <3>4
  <2>5. CASE SetArchived(c) /\ Exists(r.id)
    <3> DEFINE b   == At(c, "archive")
               row == [rows[r.id] EXCEPT !.arch = b]
    <3>1. b \in BOOLEAN BY DEF At
    <3>2. rows[r.id] \in Row BY <1>3, <1>6, <2>5 DEF Exists
    <3>3. rows' = [rows EXCEPT ![r.id].arch = b] BY <2>5 DEF SetArchived
    <3> HIDE DEF b
    <3>4. row \in Row /\ row.root = rows[r.id].root BY <3>1, <3>2 DEF Row
    <3>5. rows' = [rows EXCEPT ![r.id] = row] BY <3>3
    <3> HIDE DEF row
    <3> QED BY <2>2, <2>5, <3>4, <3>5
  <2>6. CASE Write(c) BY <2>1, <2>3, <2>6 DEF Write, WriteRow
  <2>7. CASE Mark(c) BY <2>1, <2>3, <2>7 DEF Mark, WriteRow
  <2>8. CASE Place(c) BY <2>1, <2>4, <2>8 DEF Place
  <2>9. CASE SetArchived(c) BY <2>1, <2>5, <2>9 DEF SetArchived
  <2> QED BY <2>6, <2>7, <2>8, <2>9
<1> QED BY <1>5, <1>7, SeriesKept

\* Deleting a member takes the root away from all that point at it.
LEMMA DeleteSeries ==
  ASSUME TaskInv, TaskInv', SeriesInv, NEW c \in Caller, Delete(c) PROVE SeriesInv'
<1> DEFINE k == call[c].id
<1>1. \A j \in Task : rows'[j] = IF j = k THEN Deleted
                                ELSE IF Exists(j) /\ rows[j].root = k
                                     THEN [rows[j] EXCEPT !.root = NULL] ELSE rows[j]
  BY DEF Delete
<1> HIDE DEF k
<1>3. \A j \in Task : Exists(j) => rows[j] \in Row /\ [rows[j] EXCEPT !.root = NULL] \in Row
  BY DEF Exists, TaskInv, TaskTypeOK, Row
<1>4. ASSUME NEW j \in Task
      PROVE  /\ Exists(j)' <=> (Exists(j) /\ j # k)
             /\ rows[j] # Unborn => rows'[j] # Unborn
             /\ (Exists(j) /\ j # k) =>
                  rows'[j].root = IF rows[j].root = k THEN NULL ELSE rows[j].root
  <2>1. CASE j = k BY <1>1, <2>1, TaskServiceAssumption DEF Exists
  <2>2. CASE j # k /\ Exists(j) /\ rows[j].root = k
    <3>1. rows'[j] = [rows[j] EXCEPT !.root = NULL] BY <1>1, <2>2
    <3>2. rows'[j] \in Row /\ rows'[j].root = NULL BY <1>3, <2>2, <3>1 DEF Row
    <3> QED BY <2>2, <3>2, TaskServiceAssumption DEF Exists
  <2>3. CASE j # k /\ ~(Exists(j) /\ rows[j].root = k)
    <3>1. rows'[j] = rows[j] BY <1>1, <2>3
    <3> QED BY <2>3, <3>1 DEF Exists
  <2> QED BY <2>1, <2>2, <2>3
<1>5. ASSUME NEW j \in Task, rows'[j] \notin {Unborn, Deleted}, rows'[j].root # NULL
      PROVE  rows'[rows'[j].root] \notin {Unborn, Deleted} /\ rows'[rows'[j].root].root = NULL
  <2>1. Exists(j) /\ j # k /\ rows[j].root # k /\ rows'[j].root = rows[j].root
    BY <1>4, <1>5 DEF Exists
  <2>2. Exists(rows[j].root) /\ rows[rows[j].root].root = NULL
    BY <1>5, <2>1 DEF SeriesInv, SeriesFlat
  <2>3. rows[j].root \in Task BY <1>3, <1>5, <2>1 DEF Row
  <2>4. \A x \in Task : (Exists(x) /\ x # k /\ rows[x].root = NULL) =>
          rows'[x] \notin {Unborn, Deleted} /\ rows'[x].root = NULL
    BY <1>4 DEF Exists
  <2> QED BY <2>1, <2>2, <2>3, <2>4
<1>6. SeriesFlat' BY <1>5 DEF SeriesFlat, Exists
<1>7. ASSUME NEW c1 \in Caller, NEW i \in Task, NEW t \in Row, call'[c1].id = i, call'[c1].t = t
      PROVE  CopyOK(call[c1])'
  <2>1. t.root \in Task \cup {NULL} BY DEF Row
  <2>2. CASE i = call[c1].id /\ t = call[c1].t
    <3>1. CopyOK(call[c1]) BY DEF SeriesInv
    <3>2. /\ rows[i] # Unborn
          /\ t.root # NULL => /\ rows[t.root] # Unborn
                              /\ Exists(t.root) => rows[t.root].root = NULL
          /\ Exists(i) => rows[i].root = IF t.root # NULL /\ Exists(t.root) THEN t.root ELSE NULL
      BY <2>2, <3>1 DEF CopyOK
    <3>3. rows'[i] # Unborn BY <1>4, <3>2
    <3>4. t.root # NULL => /\ rows'[t.root] # Unborn
                           /\ Exists(t.root)' => rows'[t.root].root = NULL
      BY <1>4, <2>1, <3>2
    <3>5. Exists(i)' =>
            rows'[i].root = IF t.root # NULL /\ Exists(t.root)' THEN t.root ELSE NULL
      <4>1. CASE t.root = NULL BY <1>4, <3>2, <4>1
      <4>2. CASE t.root # NULL
        <5>1. Exists(t.root)' <=> (Exists(t.root) /\ t.root # k) BY <1>4, <2>1, <4>2
        <5>2. Exists(i)' => Exists(i) /\ i # k BY <1>4
        <5>3. Exists(i)' => rows'[i].root = IF rows[i].root = k THEN NULL ELSE rows[i].root
          BY <1>4, <5>2
        <5> QED BY <3>2, <4>2, <5>1, <5>2, <5>3
      <4> QED BY <4>1, <4>2
    <3> QED BY <1>7, <3>3, <3>4, <3>5 DEF CopyOK
  <2>3. CASE ~(i = call[c1].id /\ t = call[c1].t)
    <3>1. call'[c1] = NoCall
      BY <1>7, <2>3, AfterCopy DEF Delete, Proceed, TaskInv, TaskTypeOK
    <3> QED BY <1>7, <3>1, NoCallNoCopy
  <2> QED BY <2>2, <2>3
<1>8. ASSUME NEW c1 \in Caller PROVE CopyOK(call[c1])' BY <1>7 DEF CopyOK
<1> QED BY <1>6, <1>8 DEF SeriesInv
\* A new row: a new series, or an occurrence of one whose first task exists.
LEMMA BornSeries ==
  ASSUME TaskInv, TaskInv', SeriesInv, NEW c \in Caller, NEW t \in Row, Born(c, t),
         t.root # NULL => Exists(t.root) /\ rows[t.root].root = NULL
  PROVE  SeriesInv'
<1>1. PICK n \in FreeKeys : /\ rows' = [rows EXCEPT ![n] = t]
                           /\ call' = [call EXCEPT ![c] = After([@ EXCEPT !.kid = n, !.born = t], 1)]
  BY DEF Born
<1>2. n \in Task /\ rows[n] = Unborn BY DEF FreeKeys
<1>3. call \in [Caller -> Call] /\ rows \in [Task -> Row \cup {Unborn, Deleted}]
  BY DEF TaskInv, TaskTypeOK
<1>4. \A j \in Task : rows'[j] = IF j = n THEN t ELSE rows[j] BY <1>1, <1>3
<1>5. t # Unborn /\ t # Deleted BY TaskServiceAssumption
<1>6. \A j \in Task : Exists(j) => rows[j] \in Row /\ j # n BY <1>2, <1>3 DEF Exists
<1>7. t.root \in Task \cup {NULL} BY DEF Row
<1>8. SeriesFlat'
  <2>1. ASSUME NEW j \in Task, rows'[j] \notin {Unborn, Deleted}, rows'[j].root # NULL
        PROVE  rows'[rows'[j].root] \notin {Unborn, Deleted} /\ rows'[rows'[j].root].root = NULL
    <3>1. CASE j = n BY <1>2, <1>4, <1>6, <1>7, <2>1, <3>1 DEF Exists
    <3>2. CASE j # n
      <4>1. Exists(j) /\ rows'[j] = rows[j] BY <1>4, <2>1, <3>2 DEF Exists
      <4>2. Exists(rows[j].root) /\ rows[rows[j].root].root = NULL
        BY <2>1, <4>1 DEF SeriesInv, SeriesFlat
      <4>3. rows[j].root \in Task BY <1>6, <2>1, <4>1 DEF Row
      <4> QED BY <1>4, <1>6, <4>1, <4>2, <4>3 DEF Exists
    <3> QED BY <3>1, <3>2
  <2> QED BY <2>1 DEF SeriesFlat, Exists
<1>9. ASSUME NEW d \in Caller, NEW i \in Task, NEW u \in Row, call'[d].id = i, call'[d].t = u
      PROVE  CopyOK(call[d])'
  <2>1. i = call[d].id /\ u = call[d].t
    <3>1. CASE d # c BY <1>1, <1>3, <1>9, <3>1
    <3>2. CASE d = c
      <4> DEFINE q == [call[c] EXCEPT !.kid = n, !.born = t]
      <4>1. call'[d] = After(q, 1) BY <1>1, <1>3, <3>2
      <4>2. q \in Call /\ q.id = call[c].id /\ q.t = call[c].t BY <1>2, <1>3 DEF Call
      <4> HIDE DEF q
      <4>3. After(q, 1) = NoCall \/ (After(q, 1).id = q.id /\ After(q, 1).t = q.t)
        BY <4>2, AfterCopy
      <4>4. After(q, 1) # NoCall BY <1>9, <4>1, NoCallNoCopy
      <4> QED BY <1>9, <3>2, <4>1, <4>2, <4>3, <4>4
    <3> QED BY <3>1, <3>2
  <2>2. CopyOK(call[d]) BY DEF SeriesInv
  <2>3. u.root \in Task \cup {NULL} BY DEF Row
  <2>4. i # n /\ (u.root # NULL => u.root # n) BY <1>2, <2>1, <2>2 DEF CopyOK
  <2>5. rows'[i] = rows[i] /\ (u.root # NULL => rows'[u.root] = rows[u.root])
    BY <1>4, <2>3, <2>4
  <2>6. (Exists(i)' <=> Exists(i)) /\ (u.root # NULL => (Exists(u.root)' <=> Exists(u.root)))
    BY <2>5 DEF Exists
  <2> QED BY <1>9, <2>1, <2>2, <2>5, <2>6 DEF CopyOK
<1>10. ASSUME NEW d \in Caller PROVE CopyOK(call[d])' BY <1>9 DEF CopyOK
<1> QED BY <1>8, <1>10 DEF SeriesInv

\* The INSERTs of Create and of the next occurrence keep every series flat.
LEMMA InsertSeries ==
  ASSUME TaskInv, TaskInv', SeriesInv, NEW c \in Caller, Insert(c) \/ Spawn(c) PROVE SeriesInv'
<1> DEFINE r == call[c]
<1>1. At(c, "insert") \/ At(c, "spawn") BY DEF Insert, Spawn
<1>2. r \in Call /\ Head(r.todo) = r.todo[1] /\ StepOK(r, 1) BY <1>1, Running DEF At
<1>3. r.t \in Row BY <1>1, <1>2 DEF At, StepOK
<1>4. CASE Insert(c)
  <2>1. r.t.root = NULL BY <1>2, <1>4 DEF Insert, At, StepOK
  <2>2. CASE Born(c, r.t) BY <1>3, <2>1, <2>2, BornSeries
  <2>3. CASE Return(c) /\ UNCHANGED rows
    BY <2>3, ProceedCopies, SameRows, SeriesKept DEF Return
  <2> QED BY <1>4, <2>2, <2>3 DEF Insert
<1>5. CASE Spawn(c)
  <2>1. r.id \in Task BY <1>2, <1>5 DEF Spawn, At, StepOK
  <2>2. ASSUME NEW date \in NextDates(r.t.due), RootExists(Occurrence(r.id, r.t, date)),
               Born(c, Occurrence(r.id, r.t, date))
        PROVE  SeriesInv'
    <3> DEFINE kid == Occurrence(r.id, r.t, date)
    <3>1. date \in Due BY DEF NextDates
    <3>2. kid \in Row BY <1>3, <2>1, <3>1, OccurrenceRow
    <3>3. kid.root = IF r.t.root # NULL THEN r.t.root ELSE r.id BY DEF Occurrence
    <3>4. CopyOK(r) BY DEF SeriesInv
    <3>5. kid.root # NULL => Exists(kid.root) BY <2>2 DEF RootExists
    <3> HIDE DEF kid
    <3>6. kid.root # NULL => rows[kid.root].root = NULL BY <1>3, <2>1, <3>3, <3>4, <3>5 DEF CopyOK
    <3> QED BY <2>2, <3>2, <3>5, <3>6, BornSeries DEF kid
  <2>3. CASE call' = [call EXCEPT ![c] = After(@, 3)] /\ UNCHANGED rows
    BY <2>3, ProceedCopies, SameRows, SeriesKept
  <2> QED BY <1>5, <2>2, <2>3 DEF Spawn
<1> QED BY <1>4, <1>5, <1>1 DEF Insert, Spawn

\* Every step of the service keeps each series flat.
LEMMA SeriesInvStep == ASSUME TaskInv, TaskInv', SeriesInv, TaskNext PROVE SeriesInv'
<1>1. ASSUME NEW c \in Client, Request(c) PROVE SeriesInv'
  <2>1. c \in Caller /\ Edits \subseteq EditBody /\ Moves \subseteq MoveBody
    BY TaskServiceAssumption
  <2>2. CopiesKept BY <1>1, <2>1, BeginCopies
       DEF Request, create, update, reorder, delete, archive, unarchive, addAssignee,
           removeAssignee
  <2>3. UNCHANGED rows
    BY <1>1 DEF Request, create, update, reorder, delete, archive, unarchive, addAssignee,
              removeAssignee, BeginUpdate, BeginReorder, BeginArchive, BeginUnarchive, BeginDelete,
                BeginAssign, BeginUnassign, BeginCreate
  <2> QED BY <2>2, <2>3, SameRows, SeriesKept
<1>2. ASSUME NEW c \in Caller, Run(c) PROVE SeriesInv'
  <2>1. CASE Reread(c)
    <3> DEFINE r == call[c]
    <3>1. UNCHANGED rows BY <2>1 DEF Reread
    <3>2. CASE ~Exists(r.id)
      BY <2>1, <3>1, <3>2, ProceedCopies, SameRows, SeriesKept DEF Reread, Return
    <3>3. CASE Exists(r.id)
      <4> DEFINE t == rows[r.id]
                 q == [r EXCEPT !.t = t]
      <4>1. ~Idle(c) /\ Head(r.todo) = "reread" BY <2>1 DEF Reread, At
      <4>2. r \in Call /\ StepOK(r, 1) /\ Head(r.todo) = r.todo[1] BY <4>1, Running
      <4>3. r.id \in Task BY <4>1, <4>2 DEF StepOK
      <4>4. t \in Row BY <3>3, <4>3 DEF Exists, TaskInv, TaskTypeOK
      <4>5. call' = [call EXCEPT ![c] = After(q, 1)] /\ call \in [Caller -> Call]
        BY <2>1, <3>3 DEF Reread, TaskInv, TaskTypeOK
      <4>6. q \in Call /\ q.id = r.id /\ q.t = t BY <4>2, <4>4 DEF Call
      <4> HIDE DEF q
      <4>7. call'[c] = NoCall \/ (call'[c].id = r.id /\ call'[c].t = t)
        BY <4>5, <4>6, AfterCopy
      <4>8. CopiesKept BY <3>3, <4>5, <4>7, NoCallNoCopy DEF CopiesKept
      <4> QED BY <3>1, <4>8, SameRows, SeriesKept
    <3> QED BY <3>2, <3>3
  <2>2. CASE Inherit(c) \/ Enlist(c) \/ Assign(c) \/ Unassign(c) \/ ClearTaskFires(c) \/ Emit(c)
    <3>1. CopiesKept /\ UNCHANGED rows
      BY <2>2, ProceedCopies DEF Inherit, Enlist, Assign, Unassign, ClearTaskFires, Emit, Proceed,
                                Return
    <3> QED BY <3>1, SameRows, SeriesKept
  <2> QED BY <1>2, <2>1, <2>2, WriteSeries, DeleteSeries, InsertSeries DEF Run
<1>3. ASSUME NEW c \in Caller, Fail(c) PROVE SeriesInv'
  <2>1. \/ call' = [call EXCEPT ![c] = After(@, 1)]
        \/ call' = [call EXCEPT ![c] = After(@, 3)]
        \/ call' = [call EXCEPT ![c] = NoCall]
    <3>1. CASE At(c, "mark") \/ At(c, "inherit") \/ At(c, "enlist") \/ At(c, "clear")
      <4>1. ~At(c, "spawn") BY <3>1 DEF At
      <4> QED BY <1>3, <3>1, <4>1 DEF Fail
    <3>2. CASE At(c, "spawn")
      <4>1. ~(At(c, "mark") \/ At(c, "inherit") \/ At(c, "enlist") \/ At(c, "clear"))
        BY <3>2 DEF At
      <4> QED BY <1>3, <3>2, <4>1 DEF Fail
    <3>3. CASE ~(\/ At(c, "mark") \/ At(c, "inherit") \/ At(c, "enlist") \/ At(c, "clear")
                 \/ At(c, "spawn"))
      BY <1>3, <3>3 DEF Fail
    <3> QED BY <3>1, <3>2, <3>3
  <2>2. CopiesKept /\ UNCHANGED rows BY <1>3, <2>1, ProceedCopies DEF Fail
  <2> QED BY <2>2, SameRows, SeriesKept
<1> QED BY <1>1, <1>2, <1>3 DEF TaskNext

\* Every series is flat at the start, and no call holds a copy.
LEMMA SeriesInvInit == ASSUME TaskInit PROVE SeriesInv
<1>1. \A k \in Task : Exists(k) => rows[k].root = NULL
  BY TaskServiceAssumption DEF TaskInit, Exists
<1>2. \A c \in Caller : call[c].id \notin Task BY NoCallNoCopy DEF TaskInit
<1> QED BY <1>1, <1>2 DEF SeriesInv, SeriesFlat, CopyOK
=============================================================================
