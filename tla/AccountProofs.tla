--------------------------- MODULE AccountProofs ----------------------------
(* Proofs about accounts, their second factor and their logins, and about the *)
(* roles and grants of workspaces.                                          *)
EXTENDS Identity, Access, TLAPS

NoLive(a) == \A b \in Batches : ~(code[b] = "live" /\ codeOf[b] = a)
Mfa(c) == login[c] # NOBODY /\ login[c].step \in MfaSteps

\* A code that has passed is not live any more.
CodeFits(b) == redeemed[b] = 0 \/ (redeemed[b] = 1 /\ code[b] \in {"used", "wiped"})

\* An enrolment that has still to hand out its secret holds it for its account alone.
SecretFits(c) ==
    At(c, "wipeEnroll") =>
        /\ login[c].sec \in Secrets
        /\ \A o \in Accounts :
             secret[o] # NOBODY /\ secret[o].id = login[c].sec => o = login[c].who

\* The account's calls do not overlap; it has no codes when a call is about to insert
\* some, nor while a secret it was shown is not enrolled.
OneAtATime(a) ==
    /\ \A c, d \in LoginCalls :
         Mfa(c) /\ Mfa(d) /\ login[c].who = a /\ login[d].who = a => c = d
    /\ \A c \in LoginCalls :
         (At(c, "mark") \/ At(c, "insert")) /\ login[c].who = a => NoLive(a)
    /\ \A c \in LoginCalls :
         (At(c, "wipeRegenerate") \/ At(c, "insert")) /\ login[c].who = a
           => secret[a] = NOBODY \/ secret[a].enrolled
    /\ secret[a] # NOBODY /\ ~secret[a].enrolled /\ secret[a].id \in shown => NoLive(a)
    /\ \A b, d \in Batches :
         code[b] = "live" /\ code[d] = "live" /\ codeOf[b] = a /\ codeOf[d] = a => b = d

\* No codes outlive the account's secret: a call that is about to delete it has wiped
\* them, and one that is about to insert some has it, or has lost the account too.
CodesFit(a) ==
    /\ secret[a] = NOBODY => NoLive(a)
    /\ \A c \in LoginCalls :
         (At(c, "mark") \/ At(c, "wipeRegenerate") \/ At(c, "insert")) /\ login[c].who = a
           => secret[a] # NOBODY \/ account[a] = "gone"
    /\ \A c \in LoginCalls : At(c, "deleteSecret") /\ login[c].who = a => NoLive(a)

\* What the three properties of the state rest on.
IdentityInv ==
    /\ IdentityTypeOK
    /\ \A b \in Batches : CodeFits(b)
    /\ \A c \in LoginCalls : SecretFits(c)
    /\ \A a \in Accounts \ mfaRaced : OneAtATime(a) /\ CodesFit(a)

-----------------------------------------------------------------------------
(* Types.                                                                      *)

Logins == [LoginCalls -> LoginCall \cup {NOBODY}]

\* The record of a call that starts.
LEMMA RowTyped ==
  ASSUME NEW step \in Steps, NEW a \in Accounts, NEW s \in Subjects \cup {NOBODY},
         NEW x \in Secrets \cup {NOBODY}
  PROVE  /\ Row(step, a, s, x) \in LoginCall /\ Row(step, a, s, x).step = step
         /\ Row(step, a, s, x).who = a /\ Row(step, a, s, x).sec = x
BY DEF Row, LoginCall

\* One call moves on.
LEMMA PutRow ==
  ASSUME login \in Logins, NEW c \in LoginCalls, NEW row \in LoginCall \cup {NOBODY},
         login' = [login EXCEPT ![c] = row]
  PROVE  /\ login' \in Logins /\ login'[c] = row
         /\ \A d \in LoginCalls \ {c} : login'[d] = login[d]
BY DEF Logins

\* What the start of a call changes: its own record only.
LEMMA StartStep ==
  ASSUME login \in Logins, NEW c \in LoginCalls, NEW step \in Steps, NEW a \in Accounts,
         Start(c, step, a)
  PROVE  /\ login' \in Logins /\ login'[c] \in LoginCall
         /\ login'[c].step = step /\ login'[c].who = a
         /\ \A d \in LoginCalls \ {c} : login'[d] = login[d]
<1> DEFINE row == Row(step, a, NOBODY, NOBODY)
<1>1. row \in LoginCall /\ row.step = step /\ row.who = a BY RowTyped
<1>2. login' = [login EXCEPT ![c] = row] BY DEF Start
<1> HIDE DEF row
<1> QED BY <1>1, <1>2, PutRow

\* What going on to the next statement changes.
LEMMA ContinueStep ==
  ASSUME login \in Logins, NEW c \in LoginCalls, login[c] # NOBODY, NEW step \in Steps,
         Continue(c, step)
  PROVE  /\ login' \in Logins /\ login'[c] \in LoginCall
         /\ login'[c].step = step /\ login'[c].who = login[c].who
         /\ \A d \in LoginCalls \ {c} : login'[d] = login[d]
<1> DEFINE row == [login[c] EXCEPT !.step = step]
<1>1. login[c] \in LoginCall BY DEF Logins
<1>2. row \in LoginCall /\ row.step = step /\ row.who = login[c].who BY <1>1 DEF LoginCall
<1>3. login' = [login EXCEPT ![c] = row] BY DEF Continue
<1> HIDE DEF row
<1> QED BY <1>2, <1>3, PutRow

\* What the return of a call changes.
LEMMA ReturnStep ==
  ASSUME login \in Logins, NEW c \in LoginCalls, Return(c)
  PROVE  /\ login' \in Logins /\ login'[c] = NOBODY
         /\ \A d \in LoginCalls \ {c} : login'[d] = login[d]
BY PutRow DEF Return

\* As above, of a call that manages the second factor.
LEMMA StartMfaStep ==
  ASSUME login \in Logins, mfaRaced \in SUBSET Accounts, NEW c \in LoginCalls,
         NEW step \in MfaSteps, NEW a \in Accounts, NEW x \in Secrets \cup {NOBODY},
         StartMfa(c, step, a, x)
  PROVE  /\ login' \in Logins /\ login'[c] \in LoginCall
         /\ login'[c].step = step /\ login'[c].who = a /\ login'[c].sec = x
         /\ \A d \in LoginCalls \ {c} : login'[d] = login[d]
         /\ login[c] = NOBODY
         /\ mfaRaced' \in SUBSET Accounts /\ mfaRaced \subseteq mfaRaced'
         /\ \A o \in Accounts \ {a} : o \in mfaRaced' => o \in mfaRaced
         /\ a \notin mfaRaced' => \A d \in LoginCalls : Mfa(d) => login[d].who # a
<1>1. step \in Steps BY DEF MfaSteps, Steps
<1> DEFINE row == Row(step, a, NOBODY, x)
<1>2. login' = [login EXCEPT ![c] = row] /\ login[c] = NOBODY
  BY DEF StartMfa, Idle
<1>6. row \in LoginCall /\ row.step = step /\ row.who = a /\ row.sec = x BY <1>1, RowTyped
<1>3. mfaRaced' = IF \E d \in LoginCalls : login[d] # NOBODY
                          /\ login[d].who = a /\ login[d].step \in MfaSteps
                  THEN mfaRaced \cup {a} ELSE mfaRaced
  BY DEF StartMfa
<1>4. /\ mfaRaced' \in SUBSET Accounts /\ mfaRaced \subseteq mfaRaced'
      /\ \A o \in Accounts \ {a} : o \in mfaRaced' => o \in mfaRaced
  BY <1>3
<1>5. a \notin mfaRaced' => \A d \in LoginCalls : Mfa(d) => login[d].who # a
  BY <1>3 DEF Mfa
<1> HIDE DEF row
<1>7. /\ login' \in Logins /\ login'[c] = row
      /\ \A d \in LoginCalls \ {c} : login'[d] = login[d]
  BY <1>2, <1>6, PutRow
<1> QED BY <1>2, <1>4, <1>5, <1>6, <1>7

-----------------------------------------------------------------------------
(* Steps that leave the second factor as it is or take it away.                *)

\* A deleted account stays deleted.
GoneStays == \A a \in Accounts : account[a] = "gone" => account'[a] = "gone"

\* A secret goes after the codes, and with the account or by the account's one call.
SecretsLast ==
    \A a \in Accounts \ mfaRaced : secret[a] # NOBODY /\ secret'[a] = NOBODY =>
        /\ NoLive(a)'
        /\ account'[a] = "gone" \/ \A c \in LoginCalls : Mfa(c)' => login'[c].who # a

\* No secret and no code is new, and no call has begun to change the second factor.
Quiet ==
    /\ GoneStays /\ SecretsLast
    /\ \A a \in Accounts : secret'[a] = secret[a] \/ secret'[a] = NOBODY
    /\ \A b \in Batches : code'[b] = "live" => code[b] = "live"
    /\ UNCHANGED <<shown, codeOf, mfaRaced>>
    /\ \A c \in LoginCalls :
         \/ login'[c] = login[c]
         \/ login'[c] = NOBODY
         \/ login'[c].step \notin MfaSteps

\* A step that leaves secrets and the calls' second factors alone keeps the invariant.
LEMMA QuietKeeps ==
  ASSUME IdentityInv, IdentityTypeOK', Quiet, \A b \in Batches : CodeFits(b)'
  PROVE  IdentityInv'
<1>0. login \in Logins BY DEF IdentityInv, IdentityTypeOK, Logins
<1>2. ASSUME NEW c \in LoginCalls, Mfa(c)' PROVE login'[c] = login[c] /\ Mfa(c)
  BY <1>2 DEF Mfa, Quiet
<1>3. ASSUME NEW c \in LoginCalls, NEW step \in MfaSteps, At(c, step)'
      PROVE  login'[c] = login[c] /\ At(c, step)
  BY <1>3 DEF At, Quiet
<1>4. ASSUME NEW c \in LoginCalls PROVE SecretFits(c)'
  <2>1. SecretFits(c) BY DEF IdentityInv
  <2>2. "wipeEnroll" \in MfaSteps BY DEF MfaSteps
  <2>3. ASSUME At(c, "wipeEnroll")' PROVE login'[c] = login[c] /\ At(c, "wipeEnroll")
    BY <1>3, <2>2, <2>3
  <2> QED BY <2>1, <2>3 DEF SecretFits, Quiet
<1>5. ASSUME NEW a \in Accounts \ mfaRaced' PROVE OneAtATime(a)'
  <2>1. OneAtATime(a) BY DEF IdentityInv, Quiet
  <2>2. NoLive(a) => NoLive(a)' BY DEF NoLive, Quiet
  <2>3. /\ "mark" \in MfaSteps /\ "insert" \in MfaSteps /\ "wipeRegenerate" \in MfaSteps
    BY DEF MfaSteps
  <2>4. \A c \in LoginCalls : /\ At(c, "mark")' => login'[c] = login[c] /\ At(c, "mark")
                              /\ At(c, "insert")' => login'[c] = login[c] /\ At(c, "insert")
                              /\ At(c, "wipeRegenerate")' =>
                                   login'[c] = login[c] /\ At(c, "wipeRegenerate")
    BY <1>3, <2>3
  <2>5. \A c, d \in LoginCalls :
          Mfa(c)' /\ Mfa(d)' /\ login'[c].who = a /\ login'[d].who = a => c = d
    BY <1>2, <2>1 DEF OneAtATime
  <2>6. \A c \in LoginCalls :
          (At(c, "mark")' \/ At(c, "insert")') /\ login'[c].who = a => NoLive(a)'
    BY <2>1, <2>2, <2>4 DEF OneAtATime
  <2>7. \A c \in LoginCalls :
          (At(c, "wipeRegenerate")' \/ At(c, "insert")') /\ login'[c].who = a
            => secret'[a] = NOBODY \/ secret'[a].enrolled
    BY <2>1, <2>4 DEF OneAtATime, Quiet
  <2>8. secret'[a] # NOBODY /\ ~secret'[a].enrolled /\ secret'[a].id \in shown' => NoLive(a)'
    BY <2>1, <2>2 DEF OneAtATime, Quiet
  <2>9. \A b, d \in Batches :
          code'[b] = "live" /\ code'[d] = "live" /\ codeOf'[b] = a /\ codeOf'[d] = a => b = d
    BY <2>1 DEF OneAtATime, Quiet
  <2> QED BY <2>5, <2>6, <2>7, <2>8, <2>9 DEF OneAtATime
<1>6. ASSUME NEW a \in Accounts \ mfaRaced' PROVE CodesFit(a)'
  <2>1. CodesFit(a) BY DEF IdentityInv, Quiet
  <2>2. NoLive(a) => NoLive(a)' BY DEF NoLive, Quiet
  <2>3. a \in Accounts \ mfaRaced BY DEF Quiet
  <2>4. secret'[a] = NOBODY => NoLive(a)'
    BY <2>1, <2>2, <2>3 DEF CodesFit, Quiet, SecretsLast
  <2>5. ASSUME NEW c \in LoginCalls, login'[c].who = a,
               At(c, "mark")' \/ At(c, "wipeRegenerate")' \/ At(c, "insert")'
        PROVE  secret'[a] # NOBODY \/ account'[a] = "gone"
    <3>1. /\ "mark" \in MfaSteps /\ "insert" \in MfaSteps /\ "wipeRegenerate" \in MfaSteps
      BY DEF MfaSteps
    <3>2. /\ login'[c] = login[c]
          /\ At(c, "mark") \/ At(c, "wipeRegenerate") \/ At(c, "insert")
      BY <1>3, <2>5, <3>1
    <3>3. Mfa(c)' BY <2>5, <3>1 DEF At, Mfa
    <3>4. secret[a] # NOBODY \/ account[a] = "gone" BY <2>1, <2>5, <3>2 DEF CodesFit
    <3> QED BY <2>3, <2>5, <3>3, <3>4 DEF Quiet, SecretsLast, GoneStays
  <2>6. ASSUME NEW c \in LoginCalls, login'[c].who = a, At(c, "deleteSecret")'
        PROVE  NoLive(a)'
    <3>1. "deleteSecret" \in MfaSteps BY DEF MfaSteps
    <3>2. login'[c] = login[c] /\ At(c, "deleteSecret") BY <1>3, <2>6, <3>1
    <3> QED BY <2>1, <2>2, <2>6, <3>2 DEF CodesFit
  <2> QED BY <2>4, <2>5, <2>6 DEF CodesFit
<1> QED BY <1>4, <1>5, <1>6 DEF IdentityInv

\* The form most steps have: not one row of the second factor changes.
LEMMA RowsUntouched ==
  ASSUME IdentityInv, IdentityTypeOK', UNCHANGED mfaRows, GoneStays,
         \A c \in LoginCalls :
            login'[c] = login[c] \/ login'[c] = NOBODY \/ login'[c].step \notin MfaSteps
  PROVE  IdentityInv'
<1>1. UNCHANGED <<secret, shown, code, codeOf, redeemed, mfaRaced>> BY DEF mfaRows
<1>2. SecretsLast BY <1>1 DEF SecretsLast
<1>3. Quiet BY <1>1, <1>2 DEF Quiet
<1>4. \A b \in Batches : CodeFits(b)' BY <1>1 DEF IdentityInv, CodeFits
<1> QED BY <1>3, <1>4, QuietKeeps

\* The conjuncts of the type invariant, as other proofs use them.
LEMMA Types ==
  ASSUME IdentityInv
  PROVE  /\ account \in [Accounts -> {"none", "sso", "password", "gone"}]
         /\ secret \in [Accounts -> {NOBODY} \cup [id: Secrets, enrolled: BOOLEAN]]
         /\ shown \in SUBSET Secrets
         /\ code \in [Batches -> {"new", "live", "used", "wiped"}]
         /\ codeOf \in [Batches -> Accounts \cup {NOBODY}]
         /\ redeemed \in [Batches -> Nat]
         /\ challenge \in SUBSET Accounts
         /\ token \in [Tokens -> Accounts \cup {NOBODY}]
         /\ session \in SUBSET Tokens
         /\ identity \in [Subjects -> Accounts \cup {NOBODY}]
         /\ login \in Logins
         /\ mfaRaced \in SUBSET Accounts
BY DEF IdentityInv, IdentityTypeOK, Logins

\* The fields of a call in flight.
LEMMA CallTyped ==
  ASSUME IdentityInv, NEW c \in LoginCalls, login[c] # NOBODY
  PROVE  /\ login[c] \in LoginCall /\ login[c].step \in Steps /\ login[c].who \in Accounts
         /\ login[c].sub \in Subjects \cup {NOBODY} /\ login[c].sec \in Secrets \cup {NOBODY}
BY Types DEF Logins, LoginCall

\* Most steps move one call, or none, and change tables of other services.
LEMMA OneCallMoves ==
  ASSUME IdentityInv, UNCHANGED mfaRows, GoneStays, NEW c \in LoginCalls,
         account' \in [Accounts -> {"none", "sso", "password", "gone"}],
         identity' \in [Subjects -> Accounts \cup {NOBODY}],
         token' \in [Tokens -> Accounts \cup {NOBODY}],
         session' \in SUBSET Tokens, challenge' \in SUBSET Accounts,
         login' \in Logins, \A d \in LoginCalls \ {c} : login'[d] = login[d],
         login'[c] = login[c] \/ login'[c] = NOBODY \/ login'[c].step \notin MfaSteps
  PROVE  IdentityInv'
<1>1. UNCHANGED <<secret, shown, code, codeOf, redeemed, mfaRaced>> BY DEF mfaRows
<1>2. IdentityTypeOK' BY <1>1, Types DEF IdentityTypeOK, Logins
<1> QED BY <1>2, RowsUntouched

\* A step on accounts, links, tokens and sessions, while no call moves.
LEMMA NoCallMoves ==
  ASSUME IdentityInv, UNCHANGED <<mfaRows, login>>, GoneStays,
         account' \in [Accounts -> {"none", "sso", "password", "gone"}],
         identity' \in [Subjects -> Accounts \cup {NOBODY}],
         token' \in [Tokens -> Accounts \cup {NOBODY}],
         session' \in SUBSET Tokens, challenge' \in SUBSET Accounts
  PROVE  IdentityInv'
<1>1. UNCHANGED <<secret, shown, code, codeOf, redeemed, mfaRaced>> BY DEF mfaRows
<1>2. IdentityTypeOK' BY <1>1, Types DEF IdentityTypeOK, Logins
<1> QED BY <1>2, RowsUntouched

-----------------------------------------------------------------------------
(* Password logins and sessions.                                               *)

\* The first leg of a login (service/user, LoginWithContext).
LEMMA LoginWithContextKeeps ==
  ASSUME IdentityInv, NEW c \in LoginCalls, NEW a \in Accounts, LoginWithContext(c, a)
  PROVE  IdentityInv'
<1>1. UNCHANGED <<account, identity, token, session, mfaRows>>
  BY DEF LoginWithContext, accountRows
<1>2. CASE IsEnrolled(a)
  <2>1. challenge' = challenge \cup {a} /\ UNCHANGED login BY <1>2 DEF LoginWithContext
  <2> QED BY <1>1, <2>1, Types, NoCallMoves DEF GoneStays
<1>3. CASE ~IsEnrolled(a)
  <2>1. Start(c, "mint", a) /\ UNCHANGED challenge BY <1>3 DEF LoginWithContext
  <2>2. "mint" \in Steps /\ "mint" \notin MfaSteps BY DEF Steps, MfaSteps
  <2>3. /\ login' \in Logins /\ login'[c].step = "mint" /\ login'[c].who = a
        /\ \A d \in LoginCalls \ {c} : login'[d] = login[d]
    BY <2>1, <2>2, Types, StartStep
  <2> QED BY <1>1, <1>3, <2>1, <2>2, <2>3, Types, OneCallMoves DEF GoneStays
<1> QED BY <1>2, <1>3

\* The second leg begins (service/user, VerifyMFAChallenge).
LEMMA VerifyMFAChallengeKeeps ==
  ASSUME IdentityInv, NEW c \in LoginCalls, NEW a \in Accounts, VerifyMFAChallenge(c, a)
  PROVE  IdentityInv'
<1>1. UNCHANGED <<account, identity, token, session, challenge, mfaRows>>
  BY DEF VerifyMFAChallenge, accountRows, sessionRows
<1>2. PICK step \in {"mintVerified", "consume"} : Start(c, step, a)
  BY DEF VerifyMFAChallenge
<1>3. step \in Steps /\ step \notin MfaSteps BY DEF Steps, MfaSteps
<1>4. /\ login' \in Logins /\ login'[c].step = step
      /\ \A d \in LoginCalls \ {c} : login'[d] = login[d]
  BY <1>2, <1>3, Types, StartStep
<1> QED BY <1>1, <1>3, <1>4, Types, OneCallMoves DEF GoneStays

\* A recovery code is presented (service/mfa, ConsumeRecoveryCode).
LEMMA ConsumeKeeps ==
  ASSUME IdentityInv, NEW c \in LoginCalls, ConsumeRecoveryCode(c)
  PROVE  IdentityInv'
<1>1. /\ UNCHANGED <<account, identity, secret, shown, codeOf, mfaRaced, token, session,
                     challenge>>
      /\ At(c, "consume") /\ Continue(c, "mintVerified")
  BY DEF ConsumeRecoveryCode, accountRows, sessionRows
<1>2. PICK b \in Batches : /\ code[b] = "live" /\ code' = [code EXCEPT ![b] = "used"]
                           /\ redeemed' = [redeemed EXCEPT ![b] = @ + 1]
  BY DEF ConsumeRecoveryCode
<1>3. "mintVerified" \in Steps /\ "mintVerified" \notin MfaSteps BY DEF Steps, MfaSteps
<1>4. /\ login' \in Logins /\ login'[c].step = "mintVerified"
      /\ \A d \in LoginCalls \ {c} : login'[d] = login[d]
  BY <1>1, <1>3, Types, ContinueStep DEF At
<1>5. /\ code' \in [Batches -> {"new", "live", "used", "wiped"}]
      /\ redeemed' \in [Batches -> Nat]
  BY <1>2, Types
<1>6. IdentityTypeOK' BY <1>1, <1>4, <1>5, Types DEF IdentityTypeOK, Logins
<1>7. ASSUME NEW d \in Batches PROVE CodeFits(d)'
  <2>1. CodeFits(d) BY DEF IdentityInv
  <2>2. CASE d = b BY <1>2, <2>1, <2>2, Types DEF CodeFits
  <2>3. CASE d # b BY <1>2, <2>1, <2>3, Types DEF CodeFits
  <2> QED BY <2>2, <2>3
<1>8. \A d \in Batches : code'[d] = "live" => code[d] = "live" BY <1>2, Types
<1>9. Quiet BY <1>1, <1>3, <1>4, <1>8 DEF Quiet, GoneStays, SecretsLast
<1> QED BY <1>6, <1>7, <1>9, QuietKeeps

\* The token is minted and its session stored (mintSession).
LEMMA MintSessionKeeps ==
  ASSUME IdentityInv, NEW c \in LoginCalls, mintSession(c)
  PROVE  IdentityInv'
<1>1. /\ UNCHANGED <<account, identity, challenge, mfaRows>> /\ Return(c)
      /\ login[c] # NOBODY
  BY DEF mintSession, accountRows, At
<1>2. PICK j \in Tokens : /\ token' = [token EXCEPT ![j] = login[c].who]
                          /\ session' \in {session, session \cup {j}}
  BY DEF mintSession, Issue
<1>3. token' \in [Tokens -> Accounts \cup {NOBODY}] /\ session' \in SUBSET Tokens
  BY <1>1, <1>2, Types, CallTyped
<1>4. login' \in Logins /\ login'[c] = NOBODY /\ \A d \in LoginCalls \ {c} : login'[d] = login[d]
  BY <1>1, Types, ReturnStep
<1> QED BY <1>1, <1>3, <1>4, Types, OneCallMoves DEF GoneStays

\* A call is cut off.
LEMMA FailLoginKeeps ==
  ASSUME IdentityInv, NEW c \in LoginCalls, FailLogin(c)
  PROVE  IdentityInv'
<1>1. UNCHANGED <<account, identity, challenge, token, session, mfaRows>> /\ Return(c)
  BY DEF FailLogin, accountRows, sessionRows
<1>2. login' \in Logins /\ login'[c] = NOBODY /\ \A d \in LoginCalls \ {c} : login'[d] = login[d]
  BY <1>1, Types, ReturnStep
<1> QED BY <1>1, <1>2, Types, OneCallMoves DEF GoneStays

\* An administrator makes an account or sets its password.
LEMMA AccountKeeps ==
  ASSUME IdentityInv, NEW a \in Accounts, AdminCreate(a) \/ ResetPassword(a)
  PROVE  IdentityInv'
<1>1. /\ UNCHANGED <<identity, challenge, token, session, mfaRows, login>>
      /\ account' = [account EXCEPT ![a] = "password"] /\ account[a] # "gone"
  BY DEF AdminCreate, ResetPassword, sessionRows, Exists
<1>2. GoneStays BY <1>1, Types DEF GoneStays
<1> QED BY <1>1, <1>2, Types, NoCallMoves

\* Sessions are revoked, expire and are collected.
LEMMA SessionKeeps == ASSUME IdentityInv, SessionNext PROVE IdentityInv'
<1>1. ASSUME NEW j \in Tokens, Revoke(j) \/ RevokeOthers(j) PROVE IdentityInv'
  <2>1. /\ UNCHANGED <<account, identity, challenge, token, mfaRows, login>>
        /\ session' \subseteq session
    BY <1>1 DEF Revoke, RevokeOthers, accountRows
  <2> QED BY <2>1, Types, NoCallMoves DEF GoneStays
<1>2. ASSUME NEW j \in Tokens, DeleteExpired(j) PROVE IdentityInv'
  <2>1. UNCHANGED <<account, identity, challenge, mfaRows, login>>
    BY <1>2 DEF DeleteExpired, accountRows
  <2>2. PICK old \in SUBSET session :
          /\ session' = session \ old
          /\ token' = [k \in Tokens |-> IF k \in old THEN NOBODY ELSE token[k]]
    BY <1>2 DEF DeleteExpired
  <2>3. session' \in SUBSET Tokens /\ token' \in [Tokens -> Accounts \cup {NOBODY}]
    BY <2>2, Types
  <2> QED BY <2>1, <2>3, Types, NoCallMoves DEF GoneStays
<1> QED BY <1>1, <1>2 DEF SessionNext, revoke, revokeOthers

\* The codes of a wiped account.
LEMMA WipedFits ==
  ASSUME IdentityInv, NEW a \in Accounts, code' = wiped(a), UNCHANGED <<codeOf, redeemed>>
  PROVE  /\ code' \in [Batches -> {"new", "live", "used", "wiped"}]
         /\ \A b \in Batches : CodeFits(b)'
         /\ \A b \in Batches : code'[b] = "live" => code[b] = "live"
         /\ NoLive(a)'
<1>1. code' = [b \in Batches |-> IF codeOf[b] = a THEN "wiped" ELSE code[b]] BY DEF wiped
<1>2. code' \in [Batches -> {"new", "live", "used", "wiped"}] BY <1>1, Types
<1>3. ASSUME NEW b \in Batches PROVE CodeFits(b)'
  <2>1. CodeFits(b) BY DEF IdentityInv
  <2> QED BY <1>1, <2>1 DEF CodeFits
<1> QED BY <1>1, <1>2, <1>3 DEF NoLive

\* An account is deleted with all that refers to it.
LEMMA DeleteAccountKeeps ==
  ASSUME IdentityInv, NEW a \in Accounts, DeleteAccount(a)
  PROVE  IdentityInv'
<1>1. /\ UNCHANGED <<shown, codeOf, redeemed, mfaRaced, token, challenge, login>>
      /\ account' = [account EXCEPT ![a] = "gone"]
      /\ identity' = [s \in Subjects |-> IF identity[s] = a THEN NOBODY ELSE identity[s]]
      /\ secret' = [secret EXCEPT ![a] = NOBODY]
      /\ session' \subseteq session
      /\ code' = wiped(a)
  BY DEF DeleteAccount, wiped
<1>2. /\ account' \in [Accounts -> {"none", "sso", "password", "gone"}]
      /\ identity' \in [Subjects -> Accounts \cup {NOBODY}]
      /\ secret' \in [Accounts -> {NOBODY} \cup [id: Secrets, enrolled: BOOLEAN]]
      /\ \A o \in Accounts : secret'[o] = secret[o] \/ secret'[o] = NOBODY
  BY <1>1, Types
<1>3. IdentityTypeOK' BY <1>1, <1>2, Types, WipedFits DEF IdentityTypeOK, Logins
<1>4. GoneStays BY <1>1, Types DEF GoneStays
<1>5. SecretsLast
  <2>1. NoLive(a)' BY <1>1, WipedFits
  <2> QED BY <1>1, <2>1, Types DEF SecretsLast
<1>6. Quiet BY <1>1, <1>2, <1>4, <1>5, WipedFits DEF Quiet
<1> QED BY <1>1, <1>3, <1>6, WipedFits, QuietKeeps

-----------------------------------------------------------------------------
(* Callbacks of the identity provider.                                         *)

\* The callbacks of the identity provider.
LEMMA OidcKeeps == ASSUME IdentityInv, OidcNext PROVE IdentityInv'
<1>1. ASSUME NEW c \in LoginCalls, NEW a \in Accounts, NEW s \in Subjects, Callback(c, s, a)
      PROVE  IdentityInv'
  <2> DEFINE row == IF identity[s] # NOBODY THEN Row("link", identity[s], s, NOBODY)
                    ELSE Row("find", a, s, NOBODY)
  <2>1. /\ UNCHANGED <<account, identity, challenge, token, session, mfaRows>>
        /\ login' = [login EXCEPT ![c] = row]
    BY <1>1 DEF Callback, accountRows, sessionRows
  <2>2. "link" \in Steps /\ "find" \in Steps /\ {"link", "find"} \cap MfaSteps = {}
    BY DEF Steps, MfaSteps
  <2>3. row \in LoginCall /\ row.step \in {"link", "find"}
    <3>1. CASE identity[s] # NOBODY
      <4>1. identity[s] \in Accounts BY <3>1, Types
      <4> QED BY <2>2, <3>1, <4>1, RowTyped
    <3>2. CASE identity[s] = NOBODY BY <2>2, <3>2, RowTyped
    <3> QED BY <3>1, <3>2
  <2> HIDE DEF row
  <2>4. /\ login' \in Logins /\ login'[c] = row
        /\ \A d \in LoginCalls \ {c} : login'[d] = login[d]
    BY <2>1, <2>3, Types, PutRow
  <2> QED BY <2>1, <2>2, <2>3, <2>4, Types, OneCallMoves DEF GoneStays
<1>2. ASSUME NEW c \in LoginCalls, FindByEmail(c) PROVE IdentityInv'
  <2>1. /\ UNCHANGED <<account, identity, challenge, token, session, mfaRows>>
        /\ login[c] # NOBODY
    BY <1>2 DEF FindByEmail, accountRows, sessionRows, At
  <2>2. PICK step \in {"link", "create"} : Continue(c, step) BY <1>2 DEF FindByEmail
  <2>3. step \in Steps /\ step \notin MfaSteps BY DEF Steps, MfaSteps
  <2>4. /\ login' \in Logins /\ login'[c].step = step
        /\ \A d \in LoginCalls \ {c} : login'[d] = login[d]
    BY <2>1, <2>2, <2>3, Types, ContinueStep
  <2> QED BY <2>1, <2>3, <2>4, Types, OneCallMoves DEF GoneStays
<1>3. ASSUME NEW c \in LoginCalls, CreateForSubject(c) \/ Upsert(c) PROVE IdentityInv'
  <2>1. /\ UNCHANGED <<challenge, token, session, mfaRows>> /\ login[c] # NOBODY
        /\ login[c].step = "link" \/ UNCHANGED identity
    BY <1>3 DEF CreateForSubject, Upsert, sessionRows, At
  <2>2. PICK step \in {"link", "mintVerified"} : Continue(c, step)
    BY <1>3 DEF CreateForSubject, Upsert
  <2>3. step \in Steps /\ step \notin MfaSteps BY DEF Steps, MfaSteps
  <2>4. /\ login' \in Logins /\ login'[c].step = step
        /\ \A d \in LoginCalls \ {c} : login'[d] = login[d]
    BY <2>1, <2>2, <2>3, Types, ContinueStep
  <2>5. account' \in [Accounts -> {"none", "sso", "password", "gone"}]
    BY <1>3, Types DEF CreateForSubject, Upsert
  <2>6. identity' \in [Subjects -> Accounts \cup {NOBODY}]
    <3>1. CASE CreateForSubject(c) BY <3>1, Types DEF CreateForSubject
    <3>2. CASE Upsert(c)
      <4>1. identity' = [identity EXCEPT ![login[c].sub] = IF @ = NOBODY THEN login[c].who ELSE @]
        BY <3>2 DEF Upsert
      <4> QED BY <2>1, <4>1, Types, CallTyped
    <3> QED BY <1>3, <3>1, <3>2
  <2>7. GoneStays BY <1>3, Types DEF CreateForSubject, Upsert, GoneStays
  <2> QED BY <2>1, <2>3, <2>4, <2>5, <2>6, <2>7, Types, OneCallMoves
<1> QED BY <1>1, <1>2, <1>3 DEF OidcNext

-----------------------------------------------------------------------------
(* The second factor.                                                          *)

\* A call that is not at the step tested for, or another call.
LEMMA AtOther ==
  ASSUME NEW c \in LoginCalls, NEW d \in LoginCalls, login'[d] = login[d], NEW step
  PROVE  (At(d, step)' <=> At(d, step)) /\ (Mfa(d)' <=> Mfa(d))
BY DEF At, Mfa

\* A step of this kind begins, without any rows changed yet.
LEMMA BeginKeeps ==
  ASSUME IdentityInv, NEW c \in LoginCalls, NEW a \in Accounts,
         NEW step \in {"mark", "wipeDisable", "wipeRegenerate"},
         StartMfa(c, step, a, NOBODY),
         UNCHANGED <<account, identity, secret, shown, code, codeOf, redeemed, token, session,
                     challenge>>,
         step = "mark" /\ a \notin mfaRaced => NoLive(a),
         step = "wipeRegenerate" => IsEnrolled(a), secret[a] # NOBODY
  PROVE  IdentityInv'
<1>0. step \in MfaSteps /\ step \notin {"deleteSecret", "wipeEnroll", "insert"} BY DEF MfaSteps
<1>1. /\ login' \in Logins /\ login'[c] \in LoginCall
      /\ login'[c].step = step /\ login'[c].who = a
      /\ \A d \in LoginCalls \ {c} : login'[d] = login[d]
      /\ mfaRaced' \in SUBSET Accounts /\ mfaRaced \subseteq mfaRaced'
      /\ \A o \in Accounts \ {a} : o \in mfaRaced' => o \in mfaRaced
      /\ a \notin mfaRaced' => \A d \in LoginCalls : Mfa(d) => login[d].who # a
  BY <1>0, Types, StartMfaStep
<1>2. IdentityTypeOK' BY <1>1, Types DEF IdentityTypeOK, Logins
<1>3. ASSUME NEW b \in Batches PROVE CodeFits(b)' BY DEF IdentityInv, CodeFits
<1>4. ASSUME NEW o \in Accounts \ mfaRaced' PROVE CodesFit(o)'
  <2>1. CodesFit(o) BY <1>1 DEF IdentityInv
  <2>2. NoLive(o)' <=> NoLive(o) BY DEF NoLive
  <2>3. CASE o # a
    <3>1. \A d \in LoginCalls : login'[d] # NOBODY /\ login'[d].who = o => login'[d] = login[d]
      BY <1>1, <2>3
    <3> QED BY <2>1, <2>2, <3>1 DEF CodesFit, At
  <2>4. CASE o = a
    <3>1. \A d \in LoginCalls : At(d, "deleteSecret")' => login'[d].who # a
      BY <1>0, <1>1, <2>4 DEF Mfa, At, MfaSteps
    <3> QED BY <2>1, <2>2, <2>4, <3>1 DEF CodesFit
  <2> QED BY <2>3, <2>4
<1>5. ASSUME NEW d \in LoginCalls PROVE SecretFits(d)'
  <2>1. CASE d = c BY <1>0, <1>1, <2>1 DEF SecretFits, At
  <2>2. CASE d # c BY <1>1, <2>2 DEF IdentityInv, SecretFits, At
  <2> QED BY <2>1, <2>2
<1>6. ASSUME NEW o \in Accounts \ mfaRaced' PROVE OneAtATime(o)'
  <2>1. OneAtATime(o) BY <1>1 DEF IdentityInv
  <2>2. NoLive(o)' <=> NoLive(o) BY DEF NoLive
  <2>3. CASE o # a
    <3>1. \A d \in LoginCalls : login'[d] # NOBODY /\ login'[d].who = o => login'[d] = login[d]
      BY <1>1, <2>3
    <3> QED BY <2>1, <2>2, <3>1 DEF OneAtATime, At, Mfa
  <2>4. CASE o = a
    <3>1. \A d \in LoginCalls \ {c} : Mfa(d)' => login'[d].who # a
      BY <1>1, <2>4 DEF Mfa
    <3>2. /\ "mark" \in MfaSteps /\ "insert" \in MfaSteps /\ "wipeRegenerate" \in MfaSteps
      BY DEF MfaSteps
    <3>3. \A d \in LoginCalls, st \in MfaSteps : At(d, st)' /\ login'[d].who = a => d = c
      BY <3>1 DEF At, Mfa
    <3>4. \A d, e \in LoginCalls :
            Mfa(d)' /\ Mfa(e)' /\ login'[d].who = a /\ login'[e].who = a => d = e
      BY <3>1
    <3>5. \A d \in LoginCalls :
            (At(d, "mark")' \/ At(d, "insert")') /\ login'[d].who = a => NoLive(a)'
      BY <1>0, <1>1, <2>2, <2>4, <3>2, <3>3 DEF At
    <3>6. \A d \in LoginCalls :
            (At(d, "wipeRegenerate")' \/ At(d, "insert")') /\ login'[d].who = a
              => secret'[a] = NOBODY \/ secret'[a].enrolled
      BY <1>0, <1>1, <3>2, <3>3 DEF At, IsEnrolled
    <3>7. secret'[a] # NOBODY /\ ~secret'[a].enrolled /\ secret'[a].id \in shown' => NoLive(a)'
      BY <2>1, <2>2, <2>4 DEF OneAtATime
    <3>8. \A b, d \in Batches :
            code'[b] = "live" /\ code'[d] = "live" /\ codeOf'[b] = a /\ codeOf'[d] = a => b = d
      BY <2>1, <2>4 DEF OneAtATime
    <3> QED BY <2>4, <3>4, <3>5, <3>6, <3>7, <3>8 DEF OneAtATime
  <2> QED BY <2>3, <2>4
<1> QED BY <1>2, <1>3, <1>4, <1>5, <1>6 DEF IdentityInv

\* The calls that begin on a secret that is there.
LEMMA VerifyDisableRegenerateKeep ==
  ASSUME IdentityInv, NEW c \in LoginCalls, NEW a \in Accounts,
         VerifyEnrollment(c, a) \/ Disable(c, a) \/ RegenerateRecoveryCodes(c, a)
  PROVE  IdentityInv'
<1>1. UNCHANGED <<account, identity, secret, shown, code, codeOf, redeemed, token, session,
                  challenge>>
  BY DEF VerifyEnrollment, Disable, RegenerateRecoveryCodes, accountRows, sessionRows
<1>2. CASE VerifyEnrollment(c, a)
  <2>1. /\ secret[a] # NOBODY /\ ~secret[a].enrolled /\ secret[a].id \in shown
        /\ StartMfa(c, "mark", a, NOBODY)
    BY <1>2 DEF VerifyEnrollment
  <2>2. a \notin mfaRaced => NoLive(a) BY <2>1 DEF IdentityInv, OneAtATime
  <2> QED BY <1>1, <2>1, <2>2, BeginKeeps
<1>3. CASE Disable(c, a)
  <2>1. secret[a] # NOBODY /\ StartMfa(c, "wipeDisable", a, NOBODY) BY <1>3 DEF Disable
  <2> QED BY <1>1, <2>1, BeginKeeps
<1>4. CASE RegenerateRecoveryCodes(c, a)
  <2>1. IsEnrolled(a) /\ StartMfa(c, "wipeRegenerate", a, NOBODY)
    BY <1>4 DEF RegenerateRecoveryCodes
  <2>2. secret[a] # NOBODY BY <2>1 DEF IsEnrolled
  <2> QED BY <1>1, <2>1, <2>2, BeginKeeps
<1> QED BY <1>2, <1>3, <1>4

\* A new secret replaces the old one (service/mfa, Enroll).
LEMMA EnrollKeeps ==
  ASSUME IdentityInv, NEW c \in LoginCalls, NEW a \in Accounts, Enroll(c, a)
  PROVE  IdentityInv'
<1>1. UNCHANGED <<account, identity, shown, code, codeOf, redeemed, token, session, challenge>>
  BY DEF Enroll, accountRows, sessionRows
<1>2. PICK x \in Secrets : /\ Fresh(x) /\ StartMfa(c, "wipeEnroll", a, x)
                           /\ secret' = [secret EXCEPT ![a] = [id |-> x, enrolled |-> FALSE]]
  BY DEF Enroll
<1> DEFINE new == [id |-> x, enrolled |-> FALSE]
<1>3. new \in [id: Secrets, enrolled: BOOLEAN] /\ new.id = x /\ ~new.enrolled OBVIOUS
<1>4. secret' = [secret EXCEPT ![a] = new] BY <1>2
<1> HIDE DEF new
<1>5. /\ secret' \in [Accounts -> {NOBODY} \cup [id: Secrets, enrolled: BOOLEAN]]
      /\ secret'[a] = new /\ \A o \in Accounts \ {a} : secret'[o] = secret[o]
  BY <1>3, <1>4, Types
<1>6. /\ x \notin shown /\ \A o \in Accounts : secret[o] # NOBODY => secret[o].id # x
      /\ \A d \in LoginCalls : login[d] # NOBODY => login[d].sec # x
  BY <1>2 DEF Fresh
<1>7. "wipeEnroll" \in MfaSteps BY DEF MfaSteps
<1>8. /\ login' \in Logins /\ login'[c] \in LoginCall
      /\ login'[c].step = "wipeEnroll" /\ login'[c].who = a /\ login'[c].sec = x
      /\ \A d \in LoginCalls \ {c} : login'[d] = login[d]
      /\ mfaRaced' \in SUBSET Accounts /\ mfaRaced \subseteq mfaRaced'
      /\ \A o \in Accounts \ {a} : o \in mfaRaced' => o \in mfaRaced
      /\ a \notin mfaRaced' => \A d \in LoginCalls : Mfa(d) => login[d].who # a
  BY <1>2, <1>7, Types, StartMfaStep
<1>9. IdentityTypeOK' BY <1>1, <1>5, <1>8, Types DEF IdentityTypeOK, Logins
<1>10. ASSUME NEW b \in Batches PROVE CodeFits(b)' BY <1>1 DEF IdentityInv, CodeFits
<1>11. ASSUME NEW o \in Accounts \ mfaRaced' PROVE CodesFit(o)'
  <2>1. CodesFit(o) BY <1>8 DEF IdentityInv
  <2>2. NoLive(o)' <=> NoLive(o) BY <1>1 DEF NoLive
  <2>3. CASE o # a
    <3>1. \A d \in LoginCalls : login'[d] # NOBODY /\ login'[d].who = o => login'[d] = login[d]
      BY <1>8, <2>3
    <3>2. secret'[o] = secret[o] BY <1>5, <2>3
    <3> QED BY <1>1, <2>1, <2>2, <3>1, <3>2 DEF CodesFit, At
  <2>4. CASE o = a
    <3>1. \A d \in LoginCalls : At(d, "deleteSecret")' => login'[d].who # a
      BY <1>8, <2>4 DEF Mfa, At, MfaSteps
    <3>2. secret'[a] # NOBODY BY <1>3, <1>5, IdentityMarker
    <3> QED BY <2>4, <3>1, <3>2 DEF CodesFit
  <2> QED BY <2>3, <2>4
<1>12. ASSUME NEW d \in LoginCalls PROVE SecretFits(d)'
  <2>1. CASE d = c BY <1>5, <1>6, <1>8, <2>1 DEF SecretFits
  <2>2. CASE d # c
    <3>1. login'[d] = login[d] /\ SecretFits(d) BY <1>8, <2>2 DEF IdentityInv
    <3> QED BY <1>3, <1>5, <1>6, <3>1 DEF SecretFits, At
  <2> QED BY <2>1, <2>2
<1>13. ASSUME NEW o \in Accounts \ mfaRaced' PROVE OneAtATime(o)'
  <2>1. OneAtATime(o) BY <1>8 DEF IdentityInv
  <2>2. NoLive(o)' <=> NoLive(o) BY <1>1 DEF NoLive
  <2>3. CASE o # a
    <3>1. \A d \in LoginCalls : login'[d] # NOBODY /\ login'[d].who = o => login'[d] = login[d]
      BY <1>8, <2>3
    <3>2. secret'[o] = secret[o] BY <1>5, <2>3
    <3> QED BY <1>1, <2>1, <2>2, <3>1, <3>2 DEF OneAtATime, At, Mfa
  <2>4. CASE o = a
    <3>1. \A d \in LoginCalls \ {c} : Mfa(d)' => login'[d].who # a
      BY <1>8, <2>4 DEF Mfa
    <3>2. /\ "mark" \in MfaSteps /\ "insert" \in MfaSteps /\ "wipeRegenerate" \in MfaSteps
      BY DEF MfaSteps
    <3>3. \A d \in LoginCalls, st \in MfaSteps :
            At(d, st)' /\ login'[d].who = a => st = "wipeEnroll"
      BY <1>8, <3>1 DEF At, Mfa
    <3>4. \A d \in LoginCalls : login'[d].who = a =>
            ~At(d, "mark")' /\ ~At(d, "insert")' /\ ~At(d, "wipeRegenerate")'
      BY <3>2, <3>3
    <3>5. \A d, e \in LoginCalls :
            Mfa(d)' /\ Mfa(e)' /\ login'[d].who = a /\ login'[e].who = a => d = e
      BY <3>1
    <3>6. secret'[a].id \notin shown' BY <1>1, <1>3, <1>5, <1>6
    <3>7. \A b, d \in Batches :
            code'[b] = "live" /\ code'[d] = "live" /\ codeOf'[b] = a /\ codeOf'[d] = a => b = d
      BY <1>1, <2>1, <2>4 DEF OneAtATime
    <3> QED BY <2>4, <3>4, <3>5, <3>6, <3>7 DEF OneAtATime
  <2> QED BY <2>3, <2>4
<1> QED BY <1>9, <1>10, <1>11, <1>12, <1>13 DEF IdentityInv

\* The statement that wipes an account's codes.
LEMMA DeleteRecoveryCodesKeeps ==
  ASSUME IdentityInv, NEW c \in LoginCalls, DeleteRecoveryCodes(c)
  PROVE  IdentityInv'
<1>0. login[c] # NOBODY BY DEF DeleteRecoveryCodes, At
<1>3. PICK a \in Accounts : a = login[c].who BY <1>0, CallTyped
<1>1. /\ UNCHANGED <<account, identity, secret, codeOf, redeemed, mfaRaced, token, session,
                     challenge>>
      /\ login[c] # NOBODY /\ code' = wiped(a)
      /\ login[c].step \in {"wipeEnroll", "wipeDisable", "wipeRegenerate"}
  BY <1>3 DEF DeleteRecoveryCodes, accountRows, sessionRows, At
<1>2. /\ login[c].step = "wipeEnroll" => Return(c) /\ shown' = shown \cup {login[c].sec}
      /\ login[c].step = "wipeDisable" => Continue(c, "deleteSecret") /\ UNCHANGED shown
      /\ login[c].step = "wipeRegenerate" => Continue(c, "insert") /\ UNCHANGED shown
  BY <1>1 DEF DeleteRecoveryCodes, At
<1>4. /\ code' \in [Batches -> {"new", "live", "used", "wiped"}]
      /\ \A b \in Batches : CodeFits(b)'
      /\ \A b \in Batches : code'[b] = "live" => code[b] = "live"
      /\ NoLive(a)'
  BY <1>1, WipedFits
<1>5. /\ login' \in Logins /\ \A d \in LoginCalls \ {c} : login'[d] = login[d]
      /\ login[c].step = "wipeEnroll" => login'[c] = NOBODY
      /\ login[c].step # "wipeEnroll" =>
           /\ login'[c].who = a /\ login'[c].step \in {"deleteSecret", "insert"}
           /\ login'[c].step = "insert" => login[c].step = "wipeRegenerate"
  <2>1. CASE login[c].step = "wipeEnroll" BY <1>2, <2>1, Types, ReturnStep
  <2>2. "deleteSecret" \in Steps /\ "insert" \in Steps BY DEF Steps
  <2>3. CASE login[c].step = "wipeDisable" BY <1>1, <1>2, <2>2, <2>3, <1>3, Types, ContinueStep
  <2>4. CASE login[c].step = "wipeRegenerate" BY <1>1, <1>2, <2>2, <2>4, <1>3, Types, ContinueStep
  <2> QED BY <1>1, <2>1, <2>3, <2>4
<1>6. login[c].step = "wipeEnroll" =>
        /\ login[c].sec \in Secrets
        /\ \A o \in Accounts : secret[o] # NOBODY /\ secret[o].id = login[c].sec => o = a
  BY <1>1, <1>3 DEF IdentityInv, SecretFits, At
<1>7. shown' \in SUBSET Secrets BY <1>1, <1>2, <1>6, Types
<1>8. IdentityTypeOK' BY <1>1, <1>4, <1>5, <1>7, Types DEF IdentityTypeOK, Logins
<1>9. \A d \in LoginCalls : Mfa(d)' => Mfa(d) /\ login'[d].who = login[d].who
  BY <1>1, <1>3, <1>5 DEF Mfa, MfaSteps
<1>10. ASSUME NEW o \in Accounts \ mfaRaced' PROVE CodesFit(o)'
  <2>1. CodesFit(o) BY <1>1 DEF IdentityInv
  <2>2. NoLive(o) => NoLive(o)' BY <1>1, <1>4 DEF NoLive
  <2>3. ASSUME NEW d \in LoginCalls, login'[d].who = o,
               At(d, "mark")' \/ At(d, "wipeRegenerate")' \/ At(d, "insert")'
        PROVE  secret[o] # NOBODY \/ account[o] = "gone"
    <3>1. At(d, "mark") \/ At(d, "wipeRegenerate") \/ At(d, "insert")
      BY <1>1, <1>5, <2>3 DEF At
    <3>2. login[d].who = o BY <1>1, <1>3, <1>5, <2>3 DEF At
    <3> QED BY <2>1, <3>1, <3>2 DEF CodesFit
  <2>4. ASSUME NEW d \in LoginCalls, login'[d].who = o, At(d, "deleteSecret")'
        PROVE  NoLive(o)'
    <3>1. CASE o = a BY <1>4, <3>1
    <3>2. CASE o # a
      <4>1. login'[d] = login[d] BY <1>1, <1>5, <2>4, <3>2 DEF At
      <4> QED BY <2>1, <2>2, <2>4, <4>1 DEF CodesFit, At
    <3> QED BY <3>1, <3>2
  <2> QED BY <1>1, <2>1, <2>2, <2>3, <2>4 DEF CodesFit
<1>11. ASSUME NEW d \in LoginCalls PROVE SecretFits(d)'
  <2>1. CASE d = c BY <1>1, <1>5, <2>1 DEF SecretFits, At
  <2>2. CASE d # c BY <1>1, <1>5, <2>2 DEF IdentityInv, SecretFits, At
  <2> QED BY <2>1, <2>2
<1>12. ASSUME NEW o \in Accounts \ mfaRaced' PROVE OneAtATime(o)'
  <2>1. OneAtATime(o) BY <1>1 DEF IdentityInv
  <2>2. NoLive(o) => NoLive(o)' BY <1>1, <1>4 DEF NoLive
  <2>3. \A d, e \in LoginCalls :
          Mfa(d)' /\ Mfa(e)' /\ login'[d].who = o /\ login'[e].who = o => d = e
    BY <1>9, <2>1 DEF OneAtATime
  <2>4. \A d \in LoginCalls :
          (At(d, "mark")' \/ At(d, "insert")') /\ login'[d].who = o => NoLive(o)'
    <3>1. CASE o = a BY <1>4, <3>1
    <3>2. CASE o # a
      <4>1. \A d \in LoginCalls : login'[d] # NOBODY /\ login'[d].who = o => login'[d] = login[d]
        BY <1>1, <1>3, <1>5, <3>2
      <4> QED BY <2>1, <2>2, <4>1 DEF OneAtATime, At
    <3> QED BY <3>1, <3>2
  <2>5. \A d \in LoginCalls :
          (At(d, "wipeRegenerate")' \/ At(d, "insert")') /\ login'[d].who = o
            => secret'[o] = NOBODY \/ secret'[o].enrolled
    <3> SUFFICES ASSUME NEW d \in LoginCalls, login'[d].who = o,
                        At(d, "wipeRegenerate")' \/ At(d, "insert")'
                 PROVE  secret[o] = NOBODY \/ secret[o].enrolled
      BY <1>1
    <3>1. At(d, "wipeRegenerate") \/ At(d, "insert") BY <1>1, <1>5 DEF At
    <3>2. login[d].who = o BY <1>1, <1>3, <1>5 DEF At
    <3> QED BY <2>1, <3>1, <3>2 DEF OneAtATime
  <2>6. secret'[o] # NOBODY /\ ~secret'[o].enrolled /\ secret'[o].id \in shown' => NoLive(o)'
    <3>1. CASE o = a BY <1>4, <3>1
    <3>2. CASE o # a
      <4>1. secret[o] # NOBODY /\ secret[o].id \in shown' => secret[o].id \in shown
        BY <1>1, <1>2, <1>6, <3>2
      <4> QED BY <1>1, <2>1, <2>2, <4>1 DEF OneAtATime
    <3> QED BY <3>1, <3>2
  <2>7. \A b, d \in Batches :
          code'[b] = "live" /\ code'[d] = "live" /\ codeOf'[b] = o /\ codeOf'[d] = o => b = d
    BY <1>1, <1>4, <2>1 DEF OneAtATime
  <2> QED BY <2>3, <2>4, <2>5, <2>6, <2>7 DEF OneAtATime
<1> QED BY <1>4, <1>8, <1>10, <1>11, <1>12 DEF IdentityInv

\* The statement that marks a secret enrolled.
LEMMA MarkEnrolledKeeps ==
  ASSUME IdentityInv, NEW c \in LoginCalls, MarkEnrolled(c)
  PROVE  IdentityInv'
<1> DEFINE a == login[c].who
           marked == [secret[a] EXCEPT !.enrolled = TRUE]
<1>1. /\ UNCHANGED <<account, identity, shown, code, codeOf, redeemed, mfaRaced, token,
                     session, challenge>>
      /\ login[c] # NOBODY /\ login[c].step = "mark" /\ Continue(c, "insert")
      /\ secret' = IF secret[a] = NOBODY THEN secret ELSE [secret EXCEPT ![a] = marked]
  BY DEF MarkEnrolled, accountRows, sessionRows, At
<1>2. a \in Accounts /\ login[c] \in LoginCall BY <1>1, CallTyped
<1>3. secret[a] # NOBODY => /\ marked \in [id: Secrets, enrolled: BOOLEAN]
                            /\ marked.id = secret[a].id /\ marked.enrolled
  <2>1. secret[a] \in {NOBODY} \cup [id: Secrets, enrolled: BOOLEAN] BY <1>2, Types
  <2> QED BY <2>1
<1> HIDE DEF marked
<1>5. /\ login' \in Logins /\ login'[c].step = "insert" /\ login'[c].who = a
      /\ \A d \in LoginCalls \ {c} : login'[d] = login[d]
  BY <1>1, Types, ContinueStep DEF Steps
<1>7. /\ secret' \in [Accounts -> {NOBODY} \cup [id: Secrets, enrolled: BOOLEAN]]
      /\ \A o \in Accounts \ {a} : secret'[o] = secret[o]
      /\ secret'[a] = NOBODY \/ secret'[a].enrolled
      /\ secret[a] # NOBODY => secret'[a].id = secret[a].id
      /\ secret[a] = NOBODY => secret'[a] = NOBODY
  BY <1>1, <1>2, <1>3, Types
<1>9. IdentityTypeOK' BY <1>1, <1>5, <1>7, Types DEF IdentityTypeOK, Logins
<1>10. ASSUME NEW b \in Batches PROVE CodeFits(b)' BY <1>1 DEF IdentityInv, CodeFits
<1>12. \A d \in LoginCalls, st \in MfaSteps : At(d, st)' =>
         (d = c /\ st = "insert") \/ (d # c /\ At(d, st))
  BY <1>5 DEF At
<1>13. \A d \in LoginCalls : Mfa(d)' => Mfa(d) /\ login'[d].who = login[d].who
  BY <1>1, <1>5 DEF Mfa, MfaSteps
<1>14. ASSUME NEW d \in LoginCalls, NEW st \in MfaSteps, st # "insert", At(d, st)'
       PROVE  d # c /\ login'[d] = login[d]
  BY <1>5, <1>14 DEF At
<1>15. ASSUME NEW d \in LoginCalls PROVE SecretFits(d)'
  <2>1. "wipeEnroll" \in MfaSteps /\ "wipeEnroll" # "insert" BY DEF MfaSteps
  <2>2. SecretFits(d) BY DEF IdentityInv
  <2>3. At(d, "wipeEnroll")' => d # c /\ login'[d] = login[d] BY <1>14, <2>1
  <2>4. \A o \in Accounts : secret'[o] # NOBODY => secret[o] # NOBODY /\ secret[o].id = secret'[o].id
    BY <1>7
  <2> QED BY <2>2, <2>3, <2>4 DEF SecretFits, At
<1>16. ASSUME NEW o \in Accounts \ mfaRaced' PROVE OneAtATime(o)'
  <2>1. OneAtATime(o) BY <1>1 DEF IdentityInv
  <2>2. NoLive(o)' <=> NoLive(o) BY <1>1 DEF NoLive
  <2>3. \A d, e \in LoginCalls :
          Mfa(d)' /\ Mfa(e)' /\ login'[d].who = o /\ login'[e].who = o => d = e
    BY <1>13, <2>1 DEF OneAtATime
  <2>4. ASSUME NEW d \in LoginCalls, At(d, "mark")' \/ At(d, "insert")', login'[d].who = o
        PROVE  NoLive(o)'
    <3>1. CASE d = c
      <4>1. o = a BY <1>5, <2>4, <3>1
      <4> QED BY <1>1, <2>1, <2>2, <4>1 DEF OneAtATime, At
    <3>2. CASE d # c
      <4>1. "mark" \in MfaSteps /\ "insert" \in MfaSteps BY DEF MfaSteps
      <4>2. At(d, "mark") \/ At(d, "insert") BY <1>12, <2>4, <3>2, <4>1
      <4>3. login[d].who = o BY <1>13, <2>4, <4>1 DEF At, Mfa
      <4> QED BY <2>1, <2>2, <4>2, <4>3 DEF OneAtATime
    <3> QED BY <3>1, <3>2
  <2>5. ASSUME NEW d \in LoginCalls, At(d, "wipeRegenerate")' \/ At(d, "insert")',
               login'[d].who = o
        PROVE  secret'[o] = NOBODY \/ secret'[o].enrolled
    <3>1. CASE o = a BY <1>7, <3>1
    <3>2. CASE o # a
      <4>1. d # c BY <1>5, <2>5, <3>2
      <4>2. "wipeRegenerate" \in MfaSteps /\ "insert" \in MfaSteps BY DEF MfaSteps
      <4>3. At(d, "wipeRegenerate") \/ At(d, "insert") BY <1>12, <2>5, <4>1, <4>2
      <4>4. login[d].who = o BY <1>13, <2>5, <4>2 DEF At, Mfa
      <4> QED BY <1>7, <2>1, <3>2, <4>3, <4>4 DEF OneAtATime
    <3> QED BY <3>1, <3>2
  <2>6. secret'[o] # NOBODY /\ ~secret'[o].enrolled /\ secret'[o].id \in shown' => NoLive(o)'
    BY <1>1, <1>7, <2>1, <2>2 DEF OneAtATime
  <2>7. \A b, d \in Batches :
          code'[b] = "live" /\ code'[d] = "live" /\ codeOf'[b] = o /\ codeOf'[d] = o => b = d
    BY <1>1, <2>1 DEF OneAtATime
  <2> HIDE DEF a
  <2> QED BY <2>3, <2>4, <2>5, <2>6, <2>7 DEF OneAtATime
<1>17. ASSUME NEW o \in Accounts \ mfaRaced' PROVE CodesFit(o)'
  <2>1. CodesFit(o) BY <1>1 DEF IdentityInv
  <2>2. NoLive(o)' <=> NoLive(o) BY <1>1 DEF NoLive
  <2>3. secret'[o] = NOBODY => secret[o] = NOBODY
    <3>1. CASE o = a BY <1>1, <1>2, <1>3, <3>1, IdentityMarker, Types
    <3> QED BY <1>7, <3>1
  <2>4. ASSUME NEW d \in LoginCalls, login'[d].who = o,
               At(d, "mark")' \/ At(d, "wipeRegenerate")' \/ At(d, "insert")'
        PROVE  secret'[o] # NOBODY \/ account[o] = "gone"
    <3>1. At(d, "mark") \/ At(d, "wipeRegenerate") \/ At(d, "insert")
      BY <1>1, <1>5, <2>4 DEF At
    <3>2. login[d].who = o BY <1>5, <2>4
    <3> QED BY <2>1, <2>3, <3>1, <3>2 DEF CodesFit
  <2>5. ASSUME NEW d \in LoginCalls, login'[d].who = o, At(d, "deleteSecret")'
        PROVE  NoLive(o)'
    <3>1. At(d, "deleteSecret") /\ login[d].who = o BY <1>5, <2>5 DEF At
    <3> QED BY <2>1, <2>2, <3>1 DEF CodesFit
  <2> HIDE DEF a
  <2> QED BY <1>1, <2>1, <2>2, <2>3, <2>4, <2>5 DEF CodesFit
<1> QED BY <1>9, <1>10, <1>15, <1>16, <1>17 DEF IdentityInv

\* The statement that inserts a new batch.
LEMMA InsertRecoveryCodesKeeps ==
  ASSUME IdentityInv, NEW c \in LoginCalls, InsertRecoveryCodes(c)
  PROVE  IdentityInv'
<1>1. /\ UNCHANGED <<account, identity, secret, shown, redeemed, mfaRaced, token, session,
                     challenge>>
      /\ login[c] # NOBODY /\ login[c].step = "insert" /\ Return(c)
  BY DEF InsertRecoveryCodes, accountRows, sessionRows, At
<1>2. PICK a \in Accounts : a = login[c].who BY <1>1, CallTyped
<1>3. PICK b \in Batches : /\ code[b] = "new" /\ code' = [code EXCEPT ![b] = "live"]
                           /\ codeOf' = [codeOf EXCEPT ![b] = a]
  BY <1>2 DEF InsertRecoveryCodes
<1>4. /\ code' \in [Batches -> {"new", "live", "used", "wiped"}] /\ code'[b] = "live"
      /\ codeOf' \in [Batches -> Accounts \cup {NOBODY}] /\ codeOf'[b] = a
      /\ \A d \in Batches \ {b} : code'[d] = code[d] /\ codeOf'[d] = codeOf[d]
  BY <1>3, Types
<1>5. login' \in Logins /\ login'[c] = NOBODY /\ \A d \in LoginCalls \ {c} : login'[d] = login[d]
  BY <1>1, Types, ReturnStep
<1>6. IdentityTypeOK' BY <1>1, <1>4, <1>5, Types DEF IdentityTypeOK, Logins
<1>7. ASSUME NEW d \in Batches PROVE CodeFits(d)'
  <2>1. CodeFits(d) BY DEF IdentityInv
  <2> QED BY <1>1, <1>3, <1>4, <2>1 DEF CodeFits
<1>8. ASSUME NEW d \in LoginCalls PROVE SecretFits(d)'
  <2>1. CASE d = c BY <1>5, <2>1 DEF SecretFits, At
  <2>2. CASE d # c
    <3>1. SecretFits(d) /\ login'[d] = login[d] BY <1>5, <2>2 DEF IdentityInv
    <3> QED BY <1>1, <3>1 DEF SecretFits, At
  <2> QED BY <2>1, <2>2
<1>9. ASSUME NEW o \in Accounts \ mfaRaced' PROVE OneAtATime(o)'
  <2>1. OneAtATime(o) BY <1>1 DEF IdentityInv
  <2>2. \A d \in LoginCalls : login'[d] # NOBODY => d # c /\ login'[d] = login[d] BY <1>5
  <2>3. \A d, e \in LoginCalls :
          Mfa(d)' /\ Mfa(e)' /\ login'[d].who = o /\ login'[e].who = o => d = e
    BY <2>1, <2>2 DEF OneAtATime, Mfa
  <2>4. \A d \in LoginCalls :
          (At(d, "wipeRegenerate")' \/ At(d, "insert")') /\ login'[d].who = o
            => secret'[o] = NOBODY \/ secret'[o].enrolled
    BY <1>1, <2>1, <2>2 DEF OneAtATime, At
  <2>5. CASE o # a
    <3>1. NoLive(o) => NoLive(o)' BY <1>4, <2>5 DEF NoLive
    <3>2. \A d \in LoginCalls :
            (At(d, "mark")' \/ At(d, "insert")') /\ login'[d].who = o => NoLive(o)'
      BY <2>1, <2>2, <3>1 DEF OneAtATime, At
    <3>3. secret'[o] # NOBODY /\ ~secret'[o].enrolled /\ secret'[o].id \in shown' => NoLive(o)'
      BY <1>1, <2>1, <3>1 DEF OneAtATime
    <3>4. \A d, e \in Batches :
            code'[d] = "live" /\ code'[e] = "live" /\ codeOf'[d] = o /\ codeOf'[e] = o => d = e
      BY <1>4, <2>1, <2>5 DEF OneAtATime
    <3> QED BY <2>3, <2>4, <3>2, <3>3, <3>4 DEF OneAtATime
  <2>6. CASE o = a
    <3>1. NoLive(a) /\ (secret[a] = NOBODY \/ secret[a].enrolled)
      BY <1>1, <1>2, <2>1, <2>6 DEF OneAtATime, At
    <3>2. Mfa(c) BY <1>1 DEF Mfa, MfaSteps
    <3>3. \A d \in LoginCalls : Mfa(d)' => login'[d].who # a
      BY <1>2, <2>1, <2>2, <2>6, <3>2 DEF OneAtATime, Mfa
    <3>4. \A d \in LoginCalls : At(d, "mark")' \/ At(d, "insert")' => login'[d].who # a
      BY <3>3 DEF At, Mfa, MfaSteps
    <3>5. \A d, e \in Batches :
            code'[d] = "live" /\ code'[e] = "live" /\ codeOf'[d] = a /\ codeOf'[e] = a => d = e
      BY <1>4, <3>1 DEF NoLive
    <3> QED BY <1>1, <2>3, <2>4, <2>6, <3>1, <3>4, <3>5 DEF OneAtATime
  <2> QED BY <2>5, <2>6
<1>10. ASSUME NEW o \in Accounts \ mfaRaced' PROVE CodesFit(o)'
  <2>1. CodesFit(o) /\ OneAtATime(o) BY <1>1 DEF IdentityInv
  <2>2. \A d \in LoginCalls : login'[d] # NOBODY => d # c /\ login'[d] = login[d] BY <1>5
  <2>3. CASE o # a
    <3>1. NoLive(o) => NoLive(o)' BY <1>4, <2>3 DEF NoLive
    <3> QED BY <1>1, <2>1, <2>2, <3>1 DEF CodesFit, At
  <2>4. CASE o = a
    <3>1. Mfa(c) BY <1>1 DEF Mfa, MfaSteps
    <3>2. \A d \in LoginCalls : Mfa(d)' => login'[d].who # a
      BY <1>2, <2>1, <2>2, <2>4, <3>1 DEF OneAtATime, Mfa
    <3>3. \A d \in LoginCalls :
            At(d, "mark")' \/ At(d, "wipeRegenerate")' \/ At(d, "insert")'
              \/ At(d, "deleteSecret")' => login'[d].who # a
      BY <3>2 DEF At, Mfa, MfaSteps
    <3>4. secret[a] # NOBODY
      BY <1>1, <1>2, <2>1, <2>4 DEF CodesFit, At, InsertRecoveryCodes, Exists
    <3> QED BY <1>1, <2>4, <3>3, <3>4 DEF CodesFit
  <2> QED BY <2>3, <2>4
<1> QED BY <1>6, <1>7, <1>8, <1>9, <1>10 DEF IdentityInv

\* The statement that deletes a secret.
LEMMA DeleteSecretKeeps ==
  ASSUME IdentityInv, NEW c \in LoginCalls, DeleteSecret(c)
  PROVE  IdentityInv'
<1>1. /\ UNCHANGED <<account, identity, shown, code, codeOf, redeemed, mfaRaced, token,
                     session, challenge>>
      /\ login[c] # NOBODY /\ Return(c) /\ secret' = [secret EXCEPT ![login[c].who] = NOBODY]
  BY DEF DeleteSecret, accountRows, sessionRows, At
<1>2. /\ secret' \in [Accounts -> {NOBODY} \cup [id: Secrets, enrolled: BOOLEAN]]
      /\ \A o \in Accounts : secret'[o] = secret[o] \/ secret'[o] = NOBODY
  BY <1>1, Types, CallTyped
<1>3. login' \in Logins /\ login'[c] = NOBODY /\ \A d \in LoginCalls \ {c} : login'[d] = login[d]
  BY <1>1, Types, ReturnStep
<1>4. IdentityTypeOK' BY <1>1, <1>2, <1>3, Types DEF IdentityTypeOK, Logins
<1>7. SecretsLast
  <2> SUFFICES ASSUME NEW a \in Accounts \ mfaRaced, secret[a] # NOBODY, secret'[a] = NOBODY
               PROVE  NoLive(a)' /\ \A d \in LoginCalls : Mfa(d)' => login'[d].who # a
    BY DEF SecretsLast
  <2>1. a = login[c].who /\ At(c, "deleteSecret") /\ Mfa(c)
    BY <1>1, Types DEF DeleteSecret, At, Mfa, MfaSteps
  <2>2. CodesFit(a) /\ OneAtATime(a) BY DEF IdentityInv
  <2>3. NoLive(a)' BY <1>1, <2>1, <2>2 DEF CodesFit, NoLive
  <2>4. \A d \in LoginCalls : Mfa(d)' => d # c /\ Mfa(d) /\ login'[d] = login[d]
    BY <1>3 DEF Mfa
  <2> QED BY <2>1, <2>2, <2>3, <2>4 DEF OneAtATime
<1>5. Quiet BY <1>1, <1>2, <1>3, <1>7 DEF Quiet, GoneStays
<1>6. \A b \in Batches : CodeFits(b)' BY <1>1 DEF IdentityInv, CodeFits
<1> QED BY <1>4, <1>5, <1>6, QuietKeeps

-----------------------------------------------------------------------------
(* The theorems.                                                               *)

\* The invariant holds at first.
LEMMA IdentityStart == IdentityInit => IdentityInv
<1> SUFFICES ASSUME IdentityInit PROVE IdentityInv
  OBVIOUS
<1>1. account \in [Accounts -> {"none", "sso", "password", "gone"}] BY DEF IdentityInit
<1>2. IdentityTypeOK BY <1>1 DEF IdentityInit, IdentityTypeOK
<1>3. \A b \in Batches : CodeFits(b) BY DEF IdentityInit, CodeFits
<1>4. \A c \in LoginCalls : login[c] = NOBODY BY DEF IdentityInit
<1>5. \A c \in LoginCalls : SecretFits(c) BY <1>4 DEF SecretFits, At
<1>6. ASSUME NEW a \in Accounts PROVE OneAtATime(a) /\ CodesFit(a)
  <2>1. NoLive(a) BY DEF IdentityInit, NoLive
  <2> QED BY <1>4, <2>1 DEF OneAtATime, CodesFit, At, Mfa, NoLive
<1> QED BY <1>2, <1>3, <1>5, <1>6 DEF IdentityInv

\* Every step keeps the invariant.
LEMMA IdentityStep == ASSUME IdentityInv, [IdentityNext]_identityVars PROVE IdentityInv'
<1>1. CASE PasswordNext(Accounts)
  BY <1>1, LoginWithContextKeeps, VerifyMFAChallengeKeeps, ConsumeKeeps, MintSessionKeeps,
     FailLoginKeeps, AccountKeeps, DeleteAccountKeeps
  DEF PasswordNext, adminResetPassword
<1>2. CASE MfaNext
  BY <1>2, EnrollKeeps, VerifyDisableRegenerateKeep, DeleteRecoveryCodesKeeps,
     MarkEnrolledKeeps, InsertRecoveryCodesKeeps, DeleteSecretKeeps
  DEF MfaNext, enroll, verifyEnroll, disable, regenerateRecovery
<1>3. CASE UNCHANGED identityVars
  <2>1. UNCHANGED <<account, identity, token, session, challenge, mfaRows, login>>
    BY <1>3 DEF identityVars, mfaRows
  <2> QED BY <2>1, Types, NoCallMoves DEF GoneStays
<1> QED BY <1>1, <1>2, <1>3, OidcKeeps, SessionKeeps DEF IdentityNext

\* The inductive invariant of accounts and logins always holds.
LEMMA IdentityInvariant == IdentitySpec => []IdentityInv
<1>1. IdentityInv /\ [IdentityNext]_identityVars => IdentityInv' BY IdentityStep
<1> QED BY <1>1, IdentityStart, PTL DEF IdentitySpec

\* A recovery code passes once, for any number of accounts, calls and batches.
THEOREM CodeUsedOnceHolds == IdentitySpec => []CodeUsedOnce
<1>1. IdentityInv => CodeUsedOnce
  <2>1. ASSUME IdentityInv, NEW b \in Batches PROVE redeemed[b] <= 1
    BY <2>1 DEF IdentityInv, CodeFits
  <2> QED BY <2>1 DEF CodeUsedOnce
<1> QED BY <1>1, IdentityInvariant, PTL

\* An account whose MFA calls do not overlap has codes of one batch, wherever one of them
\* stopped.
THEOREM LastBatchOnlyHolds == IdentitySpec => []LastBatchOnly
<1>1. IdentityInv => LastBatchOnly BY DEF IdentityInv, OneAtATime, LastBatchOnly
<1> QED BY <1>1, IdentityInvariant, PTL

\* The codes of an account whose MFA calls do not overlap stand beside an enrolled
\* secret, or one nobody has been handed, wherever one of the calls stopped.
THEOREM CodesNeedSecretHolds == IdentitySpec => []CodesNeedSecret
<1>1. ASSUME IdentityInv, NEW a \in Accounts \ mfaRaced, NEW b \in Batches,
             code[b] = "live", codeOf[b] = a
      PROVE  secret[a] # NOBODY /\ (secret[a].enrolled \/ secret[a].id \notin shown)
  <2>1. ~NoLive(a) BY <1>1 DEF NoLive
  <2>2. OneAtATime(a) /\ CodesFit(a) BY <1>1 DEF IdentityInv
  <2> QED BY <2>1, <2>2 DEF OneAtATime, CodesFit
<1>2. IdentityInv => CodesNeedSecret BY <1>1 DEF CodesNeedSecret
<1> QED BY <1>2, IdentityInvariant, PTL

\* A linked subject stays linked to its account.
THEOREM SubjectKeepsUserHolds == IdentitySpec => SubjectKeepsUser
<1>1. ASSUME IdentityInv, [IdentityNext]_identityVars,
             NEW s \in Subjects, identity[s] # NOBODY, account'[identity[s]] # "gone"
      PROVE  identity'[s] = identity[s]
  <2>1. CASE identity' = identity BY <2>1
  <2>2. ASSUME NEW a \in Accounts, DeleteAccount(a) PROVE identity'[s] = identity[s]
    <3>1. account' = [account EXCEPT ![a] = "gone"] BY <2>2 DEF DeleteAccount
    <3>2. account'[a] = "gone" BY <1>1, <3>1, Types
    <3> QED BY <1>1, <2>2, <3>2 DEF DeleteAccount
  <2>3. ASSUME NEW c \in LoginCalls, Upsert(c) PROVE identity'[s] = identity[s]
    BY <1>1, <2>3, Types DEF Upsert
  <2>4. ASSUME NEW a \in Accounts, AdminCreate(a) \/ ResetPassword(a)
        PROVE  identity' = identity
    BY <2>4 DEF AdminCreate, ResetPassword
  <2>5. ASSUME NEW c \in LoginCalls, NEW a \in Accounts,
               LoginWithContext(c, a) \/ VerifyMFAChallenge(c, a)
        PROVE  identity' = identity
    BY <2>5 DEF LoginWithContext, VerifyMFAChallenge, accountRows
  <2>6. ASSUME NEW c \in LoginCalls,
               ConsumeRecoveryCode(c) \/ mintSession(c) \/ FailLogin(c)
        PROVE  identity' = identity
    BY <2>6 DEF ConsumeRecoveryCode, mintSession, FailLogin, accountRows
  <2>7. CASE PasswordNext(Accounts)
    BY <2>1, <2>2, <2>4, <2>5, <2>6, <2>7 DEF PasswordNext, adminResetPassword
  <2>8. CASE MfaNext
    <3>1. ASSUME NEW c \in LoginCalls, NEW a \in Accounts,
                 \/ enroll(c, a) \/ verifyEnroll(c, a) \/ disable(c, a)
                 \/ regenerateRecovery(c, a)
          PROVE  identity' = identity
      BY <3>1 DEF enroll, verifyEnroll, disable, regenerateRecovery, Enroll,
                  VerifyEnrollment, Disable, RegenerateRecoveryCodes, accountRows
    <3>2. ASSUME NEW c \in LoginCalls,
                 \/ DeleteRecoveryCodes(c) \/ MarkEnrolled(c)
                 \/ InsertRecoveryCodes(c) \/ DeleteSecret(c)
          PROVE  identity' = identity
      BY <3>2 DEF DeleteRecoveryCodes, MarkEnrolled, InsertRecoveryCodes, DeleteSecret,
                  accountRows
    <3> QED BY <2>1, <2>8, <3>1, <3>2 DEF MfaNext
  <2>9. CASE OidcNext
    <3>1. ASSUME NEW c \in LoginCalls, NEW a \in Accounts, NEW r \in Subjects,
                 Callback(c, r, a)
          PROVE  identity' = identity
      BY <3>1 DEF Callback, accountRows
    <3>2. ASSUME NEW c \in LoginCalls, FindByEmail(c) \/ CreateForSubject(c)
          PROVE  identity' = identity
      BY <3>2 DEF FindByEmail, CreateForSubject, accountRows
    <3> QED BY <2>1, <2>3, <2>9, <3>1, <3>2 DEF OidcNext
  <2>10. CASE SessionNext
    BY <2>1, <2>10 DEF SessionNext, revoke, revokeOthers, Revoke, RevokeOthers, DeleteExpired,
                        accountRows
  <2>11. CASE UNCHANGED identityVars BY <2>1, <2>11 DEF identityVars
  <2> QED BY <1>1, <2>7, <2>8, <2>9, <2>10, <2>11 DEF IdentityNext
<1>2. IdentityInv /\ [IdentityNext]_identityVars =>
        [\A s \in Subjects : identity[s] # NOBODY /\ account'[identity[s]] # "gone"
           => identity'[s] = identity[s]]_identityVars
  BY <1>1
<1> QED BY <1>2, IdentityInvariant, PTL DEF IdentitySpec, SubjectKeepsUser

-----------------------------------------------------------------------------
(* Roles, grants and members.                                               *)

RequestOps == {"none", "SetRolePermissions", "SetPermissions", "UpdateRole", "AddMember",
               "AddWorkspaceMember", "AssignToMember", "AssignMemberRole"}
Granted == UNION GrantSets
RoleRow == [ws: Workspaces, name: Names, rank: Ranks]
MemberRow == [text: Texts \cup {NULL} \cup Builtin \cup Names, role: {NULL} \cup Builtin \cup CustomRoles]
RequestRow == [do: RequestOps, ws: Workspaces \cup {NULL}, user: Users \cup {NULL},
               text: Texts \cup {NULL}, role: Builtin \cup CustomRoles \cup {NULL},
               row: RoleRow \cup {NULL}, keys: SUBSET Granted, seen: SUBSET Granted,
               alone: BOOLEAN, behind: SUBSET Requests]

\* The rows of the tables, beside what AccessTypeOK says of their keys.
AccessRows ==
    /\ owner = [w \in DOMAIN owner |-> owner[w]]
    /\ spaceHome = [s \in DOMAIN spaceHome |-> spaceHome[s]]
    /\ roles \in [DOMAIN roles -> RoleRow]
    /\ grants \in [DOMAIN roles -> SUBSET Granted]
    /\ asked \in [DOMAIN roles -> SUBSET Granted]
    /\ member \in [DOMAIN member -> MemberRow]
    /\ request \in [Requests -> RequestRow]

\* A copy of a role's row that is to be written is of the workspace the row is of.
CopyFits(q) ==
    Doing(q, "UpdateRole") =>
        /\ request[q].row \in RoleRow
        /\ request[q].role \in DOMAIN roles => request[q].row.ws = roles[request[q].role].ws

\* A role that was looked at to be assigned is, as long as it exists, of that workspace.
LookFits(q) ==
    Doing(q, "AssignMemberRole") /\ request[q].role \in DOMAIN roles =>
        roles[request[q].role].ws = request[q].ws

\* A call that replaces the grants of a role alone has seen them all.
AloneFits(q) ==
    Doing(q, "SetRolePermissions") /\ request[q].alone =>
        /\ \A o \in Others(q) : ~Replacing(o, request[q].role)
        /\ request[q].role \in DOMAIN roles => grants[request[q].role] = request[q].seen

\* What the properties of the policy rest on.
AccessInv ==
    /\ AccessTypeOK /\ AccessRows
    /\ RoleFitsWorkspace /\ GrantsOfOneCall
    /\ \A q \in Requests : CopyFits(q) /\ LookFits(q) /\ AloneFits(q)

-----------------------------------------------------------------------------
\* A row that is put or dropped keeps a table in its type.
LEMMA PutDropTyped ==
  ASSUME NEW Cells, NEW table, table \in [DOMAIN table -> Cells], NEW id, NEW row \in Cells, NEW ids
  PROVE  /\ Put(table, id, row) \in [DOMAIN table \cup {id} -> Cells]
         /\ Drop(table, ids) \in [DOMAIN table \ ids -> Cells]
BY DEF Put, Drop, Restrict

\* A request is admitted, or ends.
LEMMA RequestMoves ==
  ASSUME request \in [Requests -> RequestRow], NEW q \in Requests, NEW row \in RequestRow,
         request' = [request EXCEPT ![q] = row]
  PROVE  /\ request' \in [Requests -> RequestRow] /\ request'[q] = row
         /\ \A p \in Others(q) : request'[p] = request[p]
BY DEF Others

\* A request that has ended.
LEMMA BlankTyped == Blank \in RequestRow /\ Blank.do = "none"
BY DEF Blank, RequestRow, RequestOps

\* A request that neither replaces grants nor has a row to write asks nothing of the rows.
LEMMA PlainRequest ==
  ASSUME AccessInv, NEW q \in Requests, NEW row \in RequestRow,
         row.do \notin {"UpdateRole", "SetRolePermissions", "AssignMemberRole"},
         request' = [request EXCEPT ![q] = row],
         UNCHANGED <<roles, grants>>
  PROVE  /\ request' \in [Requests -> RequestRow]
         /\ \A p \in Requests : (CopyFits(p) /\ LookFits(p) /\ AloneFits(p))'
<1>1. request \in [Requests -> RequestRow] BY DEF AccessInv, AccessRows
<1>2. /\ request' \in [Requests -> RequestRow] /\ request'[q] = row
      /\ \A p \in Others(q) : request'[p] = request[p]
  BY <1>1, RequestMoves
<1>3. ASSUME NEW p \in Requests PROVE CopyFits(p)'
  BY <1>2 DEF AccessInv, CopyFits, Doing, Others
<1>4. ASSUME NEW p \in Requests PROVE AloneFits(p)'
  BY <1>2 DEF AccessInv, AloneFits, Doing, Others, Replacing
<1>5. ASSUME NEW p \in Requests PROVE LookFits(p)'
  BY <1>2 DEF AccessInv, LookFits, Doing, Others
<1> QED BY <1>2, <1>3, <1>4, <1>5

\* What was looked at stays as it was looked at.
LEMMA LookKeeps ==
  ASSUME AccessInv,
         \A p \in Requests : request'[p].do = "AssignMemberRole" =>
            /\ request[p].do = "AssignMemberRole"
            /\ request'[p].role = request[p].role /\ request'[p].ws = request[p].ws,
         \A x \in DOMAIN roles' : \/ x \in DOMAIN roles /\ roles'[x].ws = roles[x].ws
                                  \/ \A p \in Requests : request[p].role # x
  PROVE  \A p \in Requests : LookFits(p)'
BY DEF AccessInv, LookFits, Doing

\* Nothing changes but the memberships.
LEMMA MembersOnly ==
  ASSUME AccessInv, UNCHANGED <<users, owner, spaceHome, roles, grants, spaceMember, asked, mixed>>,
         request' \in [Requests -> RequestRow],
         \A p \in Requests : (CopyFits(p) /\ LookFits(p) /\ AloneFits(p))',
         member' \in [DOMAIN member' -> MemberRow],
         DOMAIN member' \subseteq (DOMAIN owner) \X users,
         RoleFitsWorkspace'
  PROVE  AccessInv'
<1>1. AccessTypeOK' BY DEF AccessInv, AccessTypeOK
<1>2. AccessRows' BY DEF AccessInv, AccessRows
<1>3. GrantsOfOneCall' BY DEF AccessInv, GrantsOfOneCall
<1> QED BY <1>1, <1>2, <1>3 DEF AccessInv

\* A role's name resolves to a role of the workspace asked about, or to none.
LEMMA ResolveFits ==
  ASSUME NEW w, NEW text
  PROVE  Resolve(w, text) \in {NULL} \cup Builtin \cup {r \in DOMAIN roles : roles[r].ws = w}
<1> DEFINE own == {r \in DOMAIN roles : roles[r].ws = w /\ roles[r].name = text}
<1>1. own # {} => (CHOOSE r \in own : TRUE) \in own OBVIOUS
<1> QED BY <1>1 DEF Resolve

\* One membership is entered or changed.
LEMMA MemberPut ==
  ASSUME AccessInv, NEW w \in DOMAIN owner, NEW u \in users, NEW row \in MemberRow,
         row.role \in {NULL} \cup Builtin \cup {r \in DOMAIN roles : roles[r].ws = w},
         member' = Put(member, <<w, u>>, row),
         UNCHANGED roles
  PROVE  /\ member' \in [DOMAIN member' -> MemberRow]
         /\ DOMAIN member' \subseteq (DOMAIN owner) \X users
         /\ RoleFitsWorkspace'
<1>1. /\ DOMAIN member' = DOMAIN member \cup {<<w, u>>} /\ member'[<<w, u>>] = row
      /\ \A p \in DOMAIN member \ {<<w, u>>} : member'[p] = member[p]
  BY DEF Put
<1>2. member' \in [DOMAIN member' -> MemberRow]
  BY <1>1, PutDropTyped DEF AccessInv, AccessRows
<1>3. DOMAIN member' \subseteq (DOMAIN owner) \X users BY <1>1 DEF AccessInv, AccessTypeOK
<1>4. RoleFitsWorkspace' BY <1>1 DEF AccessInv, RoleFitsWorkspace
<1> QED BY <1>2, <1>3, <1>4

\* The insertion of a member, or the update of its text and role.
LEMMA UpsertKeeps ==
  ASSUME AccessInv, NEW w, NEW u, NEW text \in Texts \cup {NULL}, UpsertMember(w, u, text), UNCHANGED roles
  PROVE  /\ member' \in [DOMAIN member' -> MemberRow]
         /\ DOMAIN member' \subseteq (DOMAIN owner) \X users
         /\ RoleFitsWorkspace'
<1> DEFINE row == [text |-> text, role |-> Resolve(w, text)]
<1>1. row.role \in {NULL} \cup Builtin \cup {r \in DOMAIN roles : roles[r].ws = w}
  BY ResolveFits
<1>2. row \in MemberRow BY <1>1 DEF MemberRow, AccessInv, AccessTypeOK
<1>3. w \in DOMAIN owner /\ u \in users /\ member' = Put(member, <<w, u>>, row)
  BY DEF UpsertMember
<1> HIDE DEF row
<1> QED BY <1>1, <1>2, <1>3, MemberPut

\* The policy lets a request pass, or its look at the role does.
LEMMA AskAssignKeeps ==
  ASSUME AccessInv, NEW q \in Requests, NEW w \in Workspaces, NEW u \in Users,
         NEW r \in CustomRoles \cup {"guest"}, assignToMember(q, w, u, r)
  PROVE  AccessInv'
<1> DEFINE call == [Blank EXCEPT !.do = "AssignToMember", !.ws = w, !.user = u, !.role = r]
<1>1. call \in RequestRow /\ call.do = "AssignToMember"
  BY DEF Blank, RequestRow, RequestOps, Builtin
<1>2. request' = [request EXCEPT ![q] = call] BY DEF assignToMember, Admit
<1> HIDE DEF call
<1>3. UNCHANGED <<users, owner, spaceHome, spaceMember, roles, grants, member, asked, mixed>>
  BY DEF assignToMember, rowsFixed
<1>4. /\ request' \in [Requests -> RequestRow]
      /\ \A p \in Requests : (CopyFits(p) /\ LookFits(p) /\ AloneFits(p))'
  BY <1>1, <1>2, <1>3, PlainRequest
<1> QED BY <1>3, <1>4 DEF AccessInv, AccessTypeOK, AccessRows, GrantsOfOneCall, RoleFitsWorkspace

\* The look finds a role of the workspace asked for.
LEMMA LookAssignKeeps ==
  ASSUME AccessInv, NEW q \in Requests, AssignToMember(q) PROVE AccessInv'
<1> DEFINE call == [request[q] EXCEPT !.do = "AssignMemberRole"]
<1>1. request[q] \in RequestRow BY DEF AccessInv, AccessRows
<1>2. /\ call \in RequestRow /\ call.do = "AssignMemberRole"
      /\ call.role \in DOMAIN roles => roles[call.role].ws = call.ws
  BY <1>1 DEF AssignToMember, RequestRow, RequestOps
<1>3. request' = [request EXCEPT ![q] = call] BY <1>1 DEF AssignToMember, AccessInv, AccessRows
<1> HIDE DEF call
<1>4. /\ request' \in [Requests -> RequestRow] /\ request'[q] = call
      /\ \A p \in Others(q) : request'[p] = request[p]
  BY <1>2, <1>3, RequestMoves DEF AccessInv, AccessRows
<1>5. UNCHANGED <<users, owner, spaceHome, spaceMember, roles, grants, member, asked, mixed>>
  BY DEF AssignToMember, rowsFixed
<1>6. AccessTypeOK' /\ AccessRows' BY <1>4, <1>5 DEF AccessInv, AccessTypeOK, AccessRows
<1>7. GrantsOfOneCall' /\ RoleFitsWorkspace'
  BY <1>5 DEF AccessInv, GrantsOfOneCall, RoleFitsWorkspace
<1>8. ASSUME NEW p \in Requests PROVE CopyFits(p)'
  BY <1>2, <1>4, <1>5 DEF AccessInv, CopyFits, Doing, Others
<1>9. ASSUME NEW p \in Requests PROVE LookFits(p)'
  BY <1>2, <1>4, <1>5 DEF AccessInv, LookFits, Doing, Others
<1>10. ASSUME NEW p \in Requests PROVE AloneFits(p)'
  BY <1>2, <1>4, <1>5 DEF AccessInv, AloneFits, Doing, Replacing, Others
<1> QED BY <1>6, <1>7, <1>8, <1>9, <1>10 DEF AccessInv

\* A role is assigned by the statement that ends the request.
LEMMA AssignKeeps ==
  ASSUME AccessInv, NEW q \in Requests, AssignChecked(q)
  PROVE  AccessInv'
<1> DEFINE w == request[q].ws  u == request[q].user  r == request[q].role
<1>0. /\ AssignMemberRole(w, u, r) /\ request' = [request EXCEPT ![q] = Blank]
      /\ UNCHANGED <<users, owner, spaceHome, spaceMember, roles, grants, asked, mixed>>
      /\ r \in DOMAIN roles => roles[r].ws = w
  BY DEF AssignChecked, Done, rowsFixed, AccessInv, LookFits
<1> HIDE DEF w, u, r
<1>1. /\ request' \in [Requests -> RequestRow]
      /\ \A p \in Requests : (CopyFits(p) /\ LookFits(p) /\ AloneFits(p))'
  BY <1>0, BlankTyped, PlainRequest
<1>3. /\ member' \in [DOMAIN member' -> MemberRow]
      /\ DOMAIN member' = DOMAIN member
      /\ RoleFitsWorkspace'
  <2>1. CASE ~Member(w, u)
    BY <1>0, <2>1 DEF AssignMemberRole, AccessInv, AccessRows, RoleFitsWorkspace
  <2>2. CASE Member(w, u)
    <3> DEFINE row == [text |-> NameOf(r), role |-> r]
    <3>1. r \in Builtin \cup DOMAIN roles BY <1>0, <2>2 DEF AssignMemberRole
    <3>2. row.role \in {NULL} \cup Builtin \cup {x \in DOMAIN roles : roles[x].ws = w}
      BY <1>0, <3>1
    <3>3. NameOf(r) \in Builtin \cup Names
      BY <3>1 DEF NameOf, AccessInv, AccessRows, RoleRow
    <3>4. row \in MemberRow BY <3>1, <3>3 DEF MemberRow, AccessInv, AccessTypeOK
    <3> HIDE DEF row
    <3>5. member' = [member EXCEPT ![<<w, u>>] = row]
      BY <1>0, <2>2 DEF AssignMemberRole, row
    <3>6. DOMAIN member' = DOMAIN member /\ member'[<<w, u>>] = row
          /\ \A p \in DOMAIN member \ {<<w, u>>} : member'[p] = member[p]
      BY <2>2, <3>5 DEF Member
    <3>7. member' \in [DOMAIN member' -> MemberRow]
      BY <3>4, <3>5 DEF AccessInv, AccessRows
    <3>8. roles' = roles BY <1>0
    <3>9. RoleFitsWorkspace' BY <3>2, <3>6, <3>8 DEF AccessInv, RoleFitsWorkspace
    <3> QED BY <3>6, <3>7, <3>9
  <2> QED BY <2>1, <2>2
<1>4. DOMAIN member' \subseteq (DOMAIN owner) \X users BY <1>3 DEF AccessInv, AccessTypeOK
<1> QED BY <1>0, <1>1, <1>3, <1>4, MembersOnly

\* Memberships go.
LEMMA FewerMembers ==
  ASSUME AccessInv, NEW ids, member' = Drop(member, ids), UNCHANGED roles
  PROVE  /\ member' \in [DOMAIN member' -> MemberRow]
         /\ DOMAIN member' = DOMAIN member \ ids
         /\ RoleFitsWorkspace'
BY DEF Drop, Restrict, AccessInv, AccessRows, RoleFitsWorkspace

\* A member is removed.
LEMMA RemoveWSKeeps ==
  ASSUME AccessInv, NEW w, NEW u, RemoveWorkspaceMember(w, u) PROVE AccessInv'
<1>1. \A p \in Requests : (CopyFits(p) /\ LookFits(p) /\ AloneFits(p))'
  BY DEF AccessInv, CopyFits, LookFits, AloneFits, RemoveWorkspaceMember, membersFixed, Doing, Replacing
<1>2. request' \in [Requests -> RequestRow] BY DEF AccessInv, AccessRows, RemoveWorkspaceMember
<1>3. DOMAIN member \subseteq (DOMAIN owner) \X users BY DEF AccessInv, AccessTypeOK
<1> QED BY <1>1, <1>2, <1>3, FewerMembers, MembersOnly DEF RemoveWorkspaceMember, membersFixed

\* A member is invited, by the text of a role.
LEMMA AddWSKeeps ==
  ASSUME AccessInv, NEW w \in Workspaces, NEW u \in Users, NEW t \in Texts, addWS(w, u, t)
  PROVE  AccessInv'
<1>1. \A p \in Requests : (CopyFits(p) /\ LookFits(p) /\ AloneFits(p))'
  BY DEF AccessInv, CopyFits, LookFits, AloneFits, addWS, AddWorkspaceMember, membersFixed, Doing, Replacing
<1>2. request' \in [Requests -> RequestRow] BY DEF AccessInv, AccessRows, addWS
<1> QED BY <1>1, <1>2, UpsertKeeps, MembersOnly DEF addWS, AddWorkspaceMember, membersFixed

\* The two calls that enter a member last.
LEMMA JoinKeeps ==
  ASSUME AccessInv, NEW q \in Requests, JoinOwnWorkspace(q) \/ JoinCreated(q)
  PROVE  AccessInv'
<1>1. /\ request' \in [Requests -> RequestRow]
      /\ \A p \in Requests : (CopyFits(p) /\ LookFits(p) /\ AloneFits(p))'
  BY BlankTyped, PlainRequest
     DEF JoinOwnWorkspace, JoinCreated, AddWorkspaceMember, Done, membersFixed
<1>2. CASE JoinOwnWorkspace(q)
  <2> DEFINE w == request[q].ws  u == request[q].user
             row == [text |-> "owner", role |-> NULL]
  <2>1. w \in DOMAIN owner /\ u \in users BY <1>2 DEF JoinOwnWorkspace, AddMember
  <2>2. row \in MemberRow BY DEF MemberRow, Builtin
  <2>3. /\ member' \in [DOMAIN member' -> MemberRow]
        /\ DOMAIN member' \subseteq (DOMAIN owner) \X users
        /\ RoleFitsWorkspace'
    <3>1. CASE Member(w, u)
      BY <1>2, <3>1 DEF JoinOwnWorkspace, AddMember, membersFixed, AccessInv, AccessRows,
                        AccessTypeOK, RoleFitsWorkspace
    <3>2. CASE ~Member(w, u)
      <4>1. member' = Put(member, <<w, u>>, row)
        BY <1>2, <3>2 DEF JoinOwnWorkspace, AddMember
      <4>2. row.role = NULL /\ roles' = roles
        BY <1>2 DEF JoinOwnWorkspace, membersFixed
      <4> HIDE DEF row, w, u
      <4> QED BY <2>1, <2>2, <4>1, <4>2, MemberPut
    <3> QED BY <3>1, <3>2
  <2> QED BY <1>1, <1>2, <2>3, MembersOnly DEF JoinOwnWorkspace, membersFixed
<1>3. CASE JoinCreated(q)
  <2>1. UpsertMember(request[q].ws, request[q].user, request[q].text)
    BY <1>3 DEF JoinCreated, AddWorkspaceMember
  <2>2. request[q].text \in Texts \cup {NULL} BY DEF AccessInv, AccessRows, RequestRow
  <2> QED BY <1>1, <1>3, <2>1, <2>2, UpsertKeeps, MembersOnly
          DEF JoinCreated, AddWorkspaceMember, membersFixed
<1> QED BY <1>2, <1>3

-----------------------------------------------------------------------------
(* The rows of roles and their grants.                                         *)

\* A role is created, its grants asked for.
LEMMA CreateRoleKeeps ==
  ASSUME AccessInv, NEW q \in Requests, NEW w \in Workspaces, NEW r \in CustomRoles,
         NEW n \in Names, NEW k \in Ranks, NEW g \in GrantSets, createRole(q, w, r, n, k, g)
  PROVE  AccessInv'
<1> DEFINE row == [ws |-> w, name |-> n, rank |-> k]
<1>1. /\ r \notin DOMAIN roles /\ \A p \in Requests : request[p].role # r
      /\ roles' = Put(roles, r, row) /\ grants' = Put(grants, r, {}) /\ asked' = Put(asked, r, {})
      /\ UNCHANGED <<users, owner, spaceHome, spaceMember, member, mixed>>
  BY DEF createRole, CreateRole, rowsFixed
<1>2. row \in RoleRow BY DEF RoleRow
<1> HIDE DEF row
<1>3. /\ roles' \in [DOMAIN roles \cup {r} -> RoleRow]
      /\ grants' \in [DOMAIN roles \cup {r} -> SUBSET Granted]
      /\ asked' \in [DOMAIN roles \cup {r} -> SUBSET Granted]
      /\ DOMAIN roles' = DOMAIN roles \cup {r}
  BY <1>1, <1>2 DEF Put, AccessInv, AccessRows
<1>4. /\ \A x \in DOMAIN roles : /\ roles'[x] = roles[x] /\ grants'[x] = grants[x]
                                 /\ asked'[x] = asked[x]
      /\ grants'[r] = {} /\ asked'[r] = {}
  BY <1>1 DEF Put, AccessInv, AccessRows
<1>5. AccessTypeOK'
  BY <1>1, <1>3 DEF AccessInv, AccessTypeOK
<1>6. GrantsOfOneCall' BY <1>1, <1>3, <1>4 DEF AccessInv, GrantsOfOneCall
<1>7. RoleFitsWorkspace' BY <1>1, <1>3, <1>4 DEF AccessInv, RoleFitsWorkspace
<1>8. PICK call \in RequestRow :
        /\ call.do \in {"none", "SetPermissions"}
        /\ request' = request \/ request' = [request EXCEPT ![q] = call]
  <2>1. CASE g = {} BY <2>1, BlankTyped DEF createRole
  <2>2. CASE g # {}
    <3> DEFINE call == [Blank EXCEPT !.do = "SetPermissions", !.role = r, !.keys = g]
    <3>1. request' = [request EXCEPT ![q] = call] BY <2>2 DEF createRole, Admit
    <3>2. call \in RequestRow /\ call.do = "SetPermissions"
      BY DEF Blank, RequestRow, RequestOps, Granted
    <3> QED BY <3>1, <3>2
  <2> QED BY <2>1, <2>2
<1>9. /\ request' \in [Requests -> RequestRow]
      /\ \A p \in Requests : request'[p] = request[p] \/ request'[p].do \in {"none", "SetPermissions"}
  BY <1>8 DEF AccessInv, AccessRows
<1>10. AccessRows' BY <1>1, <1>3, <1>9 DEF AccessInv, AccessRows
<1>11. ASSUME NEW p \in Requests PROVE CopyFits(p)'
  BY <1>1, <1>3, <1>4, <1>9 DEF AccessInv, CopyFits, Doing
<1>12. ASSUME NEW p \in Requests PROVE AloneFits(p)'
  BY <1>1, <1>3, <1>4, <1>9 DEF AccessInv, AloneFits, Doing, Replacing, Others
<1>13. \A p \in Requests : LookFits(p)'
  BY <1>1, <1>3, <1>4, <1>9, LookKeeps
<1> QED BY <1>5, <1>6, <1>7, <1>10, <1>11, <1>12, <1>13 DEF AccessInv

\* A role is deleted: references to it become null, its grants go.
LEMMA DeleteRoleKeeps ==
  ASSUME AccessInv, NEW r \in CustomRoles, deleteRole(r) PROVE AccessInv'
<1>1. /\ roles' = Drop(roles, {r}) /\ grants' = Drop(grants, {r}) /\ asked' = Drop(asked, {r})
      /\ mixed' = mixed \ {r} /\ \A o \in Requests : ~Replacing(o, r)
      /\ UNCHANGED <<users, owner, spaceHome, spaceMember, request>>
  BY DEF deleteRole, DeleteRole, rowsFixed
<1>2. /\ roles' \in [DOMAIN roles \ {r} -> RoleRow]
      /\ grants' \in [DOMAIN roles \ {r} -> SUBSET Granted]
      /\ asked' \in [DOMAIN roles \ {r} -> SUBSET Granted]
      /\ DOMAIN roles' = DOMAIN roles \ {r}
  BY <1>1 DEF Drop, Restrict, AccessInv, AccessRows
<1>3. \A x \in DOMAIN roles \ {r} : /\ roles'[x] = roles[x] /\ grants'[x] = grants[x]
                                    /\ asked'[x] = asked[x]
  BY <1>1 DEF Drop, Restrict, AccessInv, AccessRows
<1>4. /\ member' \in [DOMAIN member -> MemberRow]
      /\ \A p \in DOMAIN member : member'[p].role = IF member[p].role = r THEN NULL ELSE member[p].role
  BY DEF deleteRole, DeleteRole, AccessInv, AccessRows, MemberRow
<1>5. AccessTypeOK' BY <1>1, <1>2, <1>4 DEF AccessInv, AccessTypeOK
<1>6. AccessRows' BY <1>1, <1>2, <1>4 DEF AccessInv, AccessRows
<1>7. GrantsOfOneCall' BY <1>1, <1>2, <1>3 DEF AccessInv, GrantsOfOneCall
<1>8. RoleFitsWorkspace' BY <1>2, <1>3, <1>4 DEF AccessInv, RoleFitsWorkspace
<1>9. ASSUME NEW p \in Requests PROVE CopyFits(p)'
  BY <1>1, <1>2, <1>3 DEF AccessInv, CopyFits, Doing
<1>10. ASSUME NEW p \in Requests PROVE AloneFits(p)'
  BY <1>1, <1>2, <1>3 DEF AccessInv, AloneFits, Doing, Replacing, Others
<1>11. \A p \in Requests : LookFits(p)'
  BY <1>1, <1>2, <1>3, LookKeeps
<1> QED BY <1>5, <1>6, <1>7, <1>8, <1>9, <1>10, <1>11 DEF AccessInv

\* The row of a role is read and changed in the copy.
LEMMA ReadRoleKeeps ==
  ASSUME AccessInv, NEW q \in Requests, NEW r \in CustomRoles, NEW n \in Names \cup {NULL},
         NEW k \in Ranks \cup {NULL}, updateRole(q, r, n, k)
  PROVE  AccessInv'
<1> DEFINE row == [roles[r] EXCEPT !.name = IF n = NULL THEN @ ELSE n,
                                   !.rank = IF k = NULL THEN @ ELSE k]
           call == [Blank EXCEPT !.do = "UpdateRole", !.role = r, !.row = row]
<1>1. r \in DOMAIN roles /\ request' = [request EXCEPT ![q] = call]
  BY DEF updateRole, Admit
<1>2. roles[r] \in RoleRow BY <1>1 DEF AccessInv, AccessRows
<1>3. row \in RoleRow /\ row.ws = roles[r].ws BY <1>2 DEF RoleRow
<1> HIDE DEF row
<1>4. call \in RequestRow /\ call.do = "UpdateRole" /\ call.role = r /\ call.row = row
  BY <1>3 DEF Blank, RequestRow, RequestOps
<1> HIDE DEF call
<1>5. /\ request' \in [Requests -> RequestRow] /\ request'[q] = call
      /\ \A p \in Others(q) : request'[p] = request[p]
  BY <1>1, <1>4, RequestMoves DEF AccessInv, AccessRows
<1>6. UNCHANGED <<users, owner, spaceHome, spaceMember, roles, grants, member, asked, mixed>>
  BY DEF updateRole, rowsFixed
<1>7. AccessTypeOK' /\ AccessRows' BY <1>5, <1>6 DEF AccessInv, AccessTypeOK, AccessRows
<1>8. GrantsOfOneCall' /\ RoleFitsWorkspace'
  BY <1>6 DEF AccessInv, GrantsOfOneCall, RoleFitsWorkspace
<1>9. ASSUME NEW p \in Requests PROVE CopyFits(p)'
  BY <1>3, <1>4, <1>5, <1>6 DEF AccessInv, CopyFits, Doing, Others
<1>10. ASSUME NEW p \in Requests PROVE AloneFits(p)'
  BY <1>4, <1>5, <1>6 DEF AccessInv, AloneFits, Doing, Replacing, Others
<1>11. \A p \in Requests : LookFits(p)'
  BY <1>4, <1>5, <1>6, LookKeeps DEF Others
<1> QED BY <1>7, <1>8, <1>9, <1>10, <1>11 DEF AccessInv

\* A role's row is written back.
LEMMA WriteRoleKeeps ==
  ASSUME AccessInv, NEW q \in Requests, UpdateRole(q) PROVE AccessInv'
<1> DEFINE r == request[q].role  row == request[q].row
<1>1. /\ roles' = IF r \in DOMAIN roles THEN [roles EXCEPT ![r] = row] ELSE roles
      /\ request' = [request EXCEPT ![q] = Blank]
      /\ UNCHANGED <<users, owner, spaceHome, spaceMember, grants, member, asked, mixed>>
  BY DEF UpdateRole, Done, rowsFixed
<1>2. row \in RoleRow /\ (r \in DOMAIN roles => row.ws = roles[r].ws)
  BY DEF AccessInv, CopyFits, UpdateRole
<1> HIDE DEF r, row
<1>3. /\ roles' \in [DOMAIN roles -> RoleRow]
      /\ \A x \in DOMAIN roles : roles'[x].ws = roles[x].ws
  BY <1>1, <1>2 DEF AccessInv, AccessRows
<1>4. /\ request' \in [Requests -> RequestRow] /\ request'[q] = Blank
      /\ \A p \in Others(q) : request'[p] = request[p]
  BY <1>1, BlankTyped, RequestMoves DEF AccessInv, AccessRows
<1>5. AccessTypeOK' BY <1>1, <1>3 DEF AccessInv, AccessTypeOK
<1>6. AccessRows' BY <1>1, <1>3, <1>4 DEF AccessInv, AccessRows
<1>7. GrantsOfOneCall' /\ RoleFitsWorkspace'
  BY <1>1, <1>3 DEF AccessInv, GrantsOfOneCall, RoleFitsWorkspace
<1>8. ASSUME NEW p \in Requests PROVE CopyFits(p)'
  BY <1>3, <1>4, BlankTyped DEF AccessInv, CopyFits, Doing, Others
<1>9. ASSUME NEW p \in Requests PROVE AloneFits(p)'
  BY <1>1, <1>3, <1>4, BlankTyped DEF AccessInv, AloneFits, Doing, Replacing, Others
<1>10. \A p \in Requests : LookFits(p)'
  BY <1>3, <1>4, BlankTyped, LookKeeps DEF Others
<1> QED BY <1>5, <1>6, <1>7, <1>8, <1>9, <1>10 DEF AccessInv

\* A replacement of grants is asked for.
LEMMA AskPermissionsKeeps ==
  ASSUME AccessInv, NEW q \in Requests, NEW r \in CustomRoles, NEW g \in GrantSets,
         setRolePermissions(q, r, g)
  PROVE  AccessInv'
<1> DEFINE call == [Blank EXCEPT !.do = "SetPermissions", !.role = r, !.keys = g]
<1>1. call \in RequestRow /\ call.do = "SetPermissions"
  BY DEF Blank, RequestRow, RequestOps, Granted
<1>2. request' = [request EXCEPT ![q] = call] BY DEF setRolePermissions, Admit
<1> HIDE DEF call
<1>3. /\ request' \in [Requests -> RequestRow]
      /\ \A p \in Requests : (CopyFits(p) /\ LookFits(p) /\ AloneFits(p))'
  BY <1>1, <1>2, PlainRequest DEF setRolePermissions
<1>4. UNCHANGED <<users, owner, spaceHome, spaceMember, roles, grants, member, asked, mixed>>
  BY DEF setRolePermissions, rowsFixed
<1> QED BY <1>3, <1>4 DEF AccessInv, AccessTypeOK, AccessRows, GrantsOfOneCall, RoleFitsWorkspace

\* The transaction begins: who else replaces the same grants is not alone any more.
LEMMA BeginReplaceKeeps ==
  ASSUME AccessInv, NEW q \in Requests, SetPermissions(q) PROVE AccessInv'
<1> DEFINE r == request[q].role
           row(p) == IF p = q
                     THEN [Blank EXCEPT !.do = "SetRolePermissions", !.role = r,
                             !.keys = request[q].keys, !.seen = grants[r],
                             !.alone = ~\E o \in Others(q) : Replacing(o, r),
                             !.behind = {o \in Others(q) :
                                           Replacing(o, r) /\ request[o].seen \cap grants[r] # {}}]
                     ELSE IF Replacing(p, r) THEN [request[p] EXCEPT !.alone = FALSE]
                     ELSE request[p]
<1>1. /\ r \in DOMAIN roles /\ request' = [p \in Requests |-> row(p)]
      /\ UNCHANGED <<users, owner, spaceHome, spaceMember, roles, grants, member, asked, mixed>>
  BY DEF SetPermissions, BeginReplace, rowsFixed
<1>2. /\ request[q] \in RequestRow /\ grants[r] \in SUBSET Granted
      /\ r \in Builtin \cup CustomRoles \cup {NULL}
  BY <1>1 DEF AccessInv, AccessRows, RequestRow
<1>3. /\ row(q) \in RequestRow /\ row(q).do = "SetRolePermissions" /\ row(q).role = r
      /\ row(q).seen = grants[r]
      /\ row(q).alone => \A o \in Others(q) : ~Replacing(o, r)
  BY <1>2 DEF Blank, RequestRow, RequestOps, Others
<1>4. ASSUME NEW p \in Others(q)
      PROVE  /\ row(p) \in RequestRow /\ row(p).do = request[p].do /\ row(p).role = request[p].role
             /\ row(p).row = request[p].row /\ row(p).seen = request[p].seen
             /\ row(p).ws = request[p].ws
             /\ row(p).alone => request[p].alone /\ ~Replacing(p, r)
  <2>1. p # q /\ request[p] \in RequestRow BY DEF AccessInv, AccessRows, Others
  <2> QED BY <2>1 DEF RequestRow
<1>5. \A p \in Requests : request'[p] = row(p) BY <1>1
<1> HIDE DEF row, r
<1>6. request' \in [Requests -> RequestRow] BY <1>1, <1>3, <1>4 DEF Others
<1>7. AccessTypeOK' /\ AccessRows' BY <1>1, <1>6 DEF AccessInv, AccessTypeOK, AccessRows
<1>8. GrantsOfOneCall' /\ RoleFitsWorkspace'
  BY <1>1 DEF AccessInv, GrantsOfOneCall, RoleFitsWorkspace
<1>9. ASSUME NEW p \in Requests PROVE CopyFits(p)'
  BY <1>1, <1>3, <1>4, <1>5 DEF AccessInv, CopyFits, Doing, Others
<1>10. ASSUME NEW p \in Requests, Doing(p, "SetRolePermissions")', request'[p].alone
       PROVE  /\ \A o \in Others(p) : ~Replacing(o, request[p].role)'
              /\ request'[p].role \in DOMAIN roles => grants[request'[p].role] = request'[p].seen
  <2>1. CASE p = q
    BY <1>3, <1>4, <1>5, <1>10, <2>1 DEF Replacing, Doing, Others
  <2>2. CASE p # q
    <3>1. p \in Others(q) /\ Doing(p, "SetRolePermissions") /\ request[p].alone /\ request[p].role # r
      BY <1>4, <1>5, <1>10, <2>2 DEF Replacing, Doing, Others
    <3>2. AloneFits(p) BY DEF AccessInv
    <3> QED BY <1>3, <1>4, <1>5, <1>10, <3>1, <3>2 DEF AloneFits, Replacing, Doing, Others
  <2> QED BY <2>1, <2>2
<1>11. ASSUME NEW p \in Requests PROVE AloneFits(p)'
  BY <1>1, <1>10 DEF AloneFits
<1>12. \A p \in Requests : LookFits(p)'
  BY <1>1, <1>3, <1>4, <1>5, LookKeeps DEF Others
<1> QED BY <1>7, <1>8, <1>9, <1>11, <1>12 DEF AccessInv

\* It commits, and is not waited for any longer.
LEMMA CommitReplaceKeeps ==
  ASSUME AccessInv, NEW q \in Requests, CommitReplace(q) PROVE AccessInv'
<1> DEFINE t == request[q]
           row(p) == IF p = q THEN Blank
                     ELSE IF Replacing(p, t.role)
                     THEN [request[p] EXCEPT !.seen = @ \ t.seen, !.behind = @ \ {q}]
                     ELSE request[p]
<1>1. /\ Doing(q, "SetRolePermissions") /\ t.role \in DOMAIN roles
      /\ grants' = [grants EXCEPT ![t.role] = (@ \ t.seen) \cup t.keys]
      /\ asked' = [asked EXCEPT ![t.role] = t.keys]
      /\ mixed' = IF t.alone THEN mixed \ {t.role} ELSE mixed \cup {t.role}
      /\ request' = [p \in Requests |-> row(p)]
      /\ UNCHANGED <<users, owner, spaceHome, roles, member, spaceMember>>
  BY DEF CommitReplace
<1>2. t \in RequestRow /\ t.keys \in SUBSET Granted BY DEF AccessInv, AccessRows, RequestRow
<1>3. ASSUME NEW p \in Others(q)
      PROVE  /\ row(p) \in RequestRow /\ row(p).do = request[p].do /\ row(p).role = request[p].role
             /\ row(p).row = request[p].row /\ row(p).alone = request[p].alone
             /\ row(p).ws = request[p].ws
             /\ ~Replacing(p, t.role) => row(p) = request[p]
  <2>1. p # q /\ request[p] \in RequestRow BY DEF AccessInv, AccessRows, Others
  <2> QED BY <2>1 DEF RequestRow
<1>4. row(q) = Blank OBVIOUS
<1>5. \A p \in Requests : request'[p] = row(p) BY <1>1
<1>6. AloneFits(q) BY DEF AccessInv
<1> HIDE DEF row, t
<1>7. request' \in [Requests -> RequestRow] BY <1>1, <1>3, <1>4, BlankTyped DEF Others
<1>8. /\ grants' \in [DOMAIN roles -> SUBSET Granted]
      /\ asked' \in [DOMAIN roles -> SUBSET Granted]
      /\ grants'[t.role] = (grants[t.role] \ t.seen) \cup t.keys /\ asked'[t.role] = t.keys
      /\ \A x \in DOMAIN roles \ {t.role} : grants'[x] = grants[x] /\ asked'[x] = asked[x]
  BY <1>1, <1>2 DEF AccessInv, AccessRows
<1>9. AccessTypeOK' BY <1>1, <1>8 DEF AccessInv, AccessTypeOK
<1>10. AccessRows' BY <1>1, <1>7, <1>8 DEF AccessInv, AccessRows
<1>11. RoleFitsWorkspace' BY <1>1 DEF AccessInv, RoleFitsWorkspace
<1>12. GrantsOfOneCall'
  <2>1. t.alone => grants[t.role] = t.seen BY <1>1, <1>6 DEF AloneFits, t
  <2> QED BY <1>1, <1>8, <2>1 DEF AccessInv, GrantsOfOneCall
<1>13. ASSUME NEW p \in Requests PROVE CopyFits(p)'
  BY <1>1, <1>3, <1>4, <1>5, BlankTyped DEF AccessInv, CopyFits, Doing, Others
<1>14. ASSUME NEW p \in Requests PROVE AloneFits(p)'
  <2>1. CASE p = q BY <1>4, <1>5, <2>1, BlankTyped DEF AloneFits, Doing
  <2>2. CASE p # q
    <3>1. AloneFits(p) /\ q \in Others(p) /\ p \in Others(q) BY <2>2 DEF AccessInv, Others
    <3>2. ASSUME Doing(p, "SetRolePermissions"), request[p].alone
          PROVE  ~Replacing(q, request[p].role) /\ request[p].role # t.role
      BY <1>1, <3>1, <3>2 DEF AloneFits, Replacing, t
    <3>3. ASSUME NEW o \in Others(p), NEW x, Replacing(o, x)' PROVE Replacing(o, x)
      BY <1>3, <1>4, <1>5, <3>3, BlankTyped DEF Replacing, Doing, Others
    <3> QED BY <1>1, <1>3, <1>5, <1>8, <3>1, <3>2, <3>3 DEF AloneFits, Doing, Replacing
  <2> QED BY <2>1, <2>2
<1>15. \A p \in Requests : LookFits(p)'
  BY <1>1, <1>3, <1>4, <1>5, BlankTyped, LookKeeps DEF Others
<1> QED BY <1>9, <1>10, <1>11, <1>12, <1>13, <1>14, <1>15 DEF AccessInv

\* A request is cut off.
LEMMA FailRequestKeeps ==
  ASSUME AccessInv, NEW q \in Requests, FailRequest(q) PROVE AccessInv'
<1> DEFINE row(p) == IF p = q THEN Blank
                     ELSE IF Doing(p, "SetRolePermissions")
                     THEN [request[p] EXCEPT !.behind = @ \ {q}] ELSE request[p]
<1>1. /\ request' = [p \in Requests |-> row(p)]
      /\ UNCHANGED <<users, owner, spaceHome, roles, grants, member, spaceMember, asked, mixed>>
  BY DEF FailRequest
<1>2. ASSUME NEW p \in Others(q)
      PROVE  /\ row(p) \in RequestRow /\ row(p).do = request[p].do /\ row(p).role = request[p].role
             /\ row(p).row = request[p].row /\ row(p).alone = request[p].alone
             /\ row(p).ws = request[p].ws
             /\ row(p).seen = request[p].seen
  <2>1. p # q /\ request[p] \in RequestRow BY DEF AccessInv, AccessRows, Others
  <2> QED BY <2>1 DEF RequestRow
<1>3. row(q) = Blank OBVIOUS
<1>4. \A p \in Requests : request'[p] = row(p) BY <1>1
<1> HIDE DEF row
<1>5. request' \in [Requests -> RequestRow] BY <1>1, <1>2, <1>3, BlankTyped DEF Others
<1>6. AccessTypeOK' /\ AccessRows' BY <1>1, <1>5 DEF AccessInv, AccessTypeOK, AccessRows
<1>7. GrantsOfOneCall' /\ RoleFitsWorkspace'
  BY <1>1 DEF AccessInv, GrantsOfOneCall, RoleFitsWorkspace
<1>8. ASSUME NEW p \in Requests PROVE CopyFits(p)'
  BY <1>1, <1>2, <1>3, <1>4, BlankTyped DEF AccessInv, CopyFits, Doing, Others
<1>9. ASSUME NEW p \in Requests PROVE AloneFits(p)'
  <2>1. CASE p = q BY <1>3, <1>4, <2>1, BlankTyped DEF AloneFits, Doing
  <2>2. CASE p # q
    <3>1. AloneFits(p) /\ p \in Others(q) BY <2>2 DEF AccessInv, Others
    <3>2. ASSUME NEW o \in Others(p), NEW x, Replacing(o, x)' PROVE Replacing(o, x)
      BY <1>2, <1>3, <1>4, <3>2, BlankTyped DEF Replacing, Doing, Others
    <3> QED BY <1>1, <1>2, <1>4, <3>1, <3>2 DEF AloneFits, Doing
  <2> QED BY <2>1, <2>2
<1>10. \A p \in Requests : LookFits(p)'
  BY <1>1, <1>2, <1>3, <1>4, BlankTyped, LookKeeps DEF Others
<1> QED BY <1>6, <1>7, <1>8, <1>9, <1>10 DEF AccessInv

-----------------------------------------------------------------------------
(* Workspaces, spaces and accounts.                                            *)

\* The roles, their grants and the requests stay.
RolesFixed == UNCHANGED <<roles, grants, request, asked, mixed>>

\* A step that leaves roles, grants and requests alone.
LEMMA RolesFixedKeeps ==
  ASSUME AccessInv, RolesFixed, RoleFitsWorkspace', AccessTypeOK',
         owner' = [w \in DOMAIN owner' |-> owner'[w]],
         spaceHome' = [s \in DOMAIN spaceHome' |-> spaceHome'[s]],
         member' \in [DOMAIN member' -> MemberRow]
  PROVE  AccessInv'
<1>1. AccessRows' /\ GrantsOfOneCall' BY DEF RolesFixed, AccessInv, AccessRows, GrantsOfOneCall
<1>2. \A q \in Requests : (CopyFits(q) /\ LookFits(q) /\ AloneFits(q))'
  BY DEF RolesFixed, AccessInv, CopyFits, LookFits, AloneFits, Doing, Replacing
<1> QED BY <1>1, <1>2 DEF AccessInv

\* Spaces are made and deleted.
LEMMA SpaceKeeps == ASSUME AccessInv, SpaceNext PROVE AccessInv'
<1> USE DEF RolesFixed, Put, Drop, Restrict, Range
<1>1. PICK s \in Spaces :
        \/ deleteSpace(s) \/ \E w \in Workspaces : createSpace(w, s)
        \/ \E u \in Users : \/ RemoveSpaceMember(s, u)
                            \/ \E t \in Texts : AddSpaceMember(s, u, t)
  BY DEF SpaceNext
<1>2. CASE deleteSpace(s)
  <2>1. AccessTypeOK' BY <1>2 DEF deleteSpace, AccessInv, AccessTypeOK
  <2> QED BY <1>2, <2>1, RolesFixedKeeps
          DEF deleteSpace, AccessInv, AccessRows, RoleFitsWorkspace
<1>3. ASSUME NEW w \in Workspaces, createSpace(w, s) PROVE AccessInv'
  <2>1. w \in DOMAIN owner
    BY <1>3 DEF createSpace, RequireWorkspaceMember, Member, AccessInv, AccessTypeOK
  <2>2. AccessTypeOK' BY <1>3, <2>1 DEF createSpace, AccessInv, AccessTypeOK
  <2> QED BY <1>3, <2>2, RolesFixedKeeps
          DEF createSpace, AccessInv, AccessRows, RoleFitsWorkspace
<1>4. ASSUME NEW u \in Users, RemoveSpaceMember(s, u) PROVE AccessInv'
  <2>1. AccessTypeOK' BY <1>4 DEF RemoveSpaceMember, membersFixed, AccessInv, AccessTypeOK
  <2> QED BY <1>4, <2>1, RolesFixedKeeps
          DEF RemoveSpaceMember, membersFixed, AccessInv, AccessRows, RoleFitsWorkspace
<1>5. ASSUME NEW u \in Users, NEW t \in Texts, AddSpaceMember(s, u, t) PROVE AccessInv'
  <2>1. AccessTypeOK' BY <1>5 DEF AddSpaceMember, membersFixed, AccessInv, AccessTypeOK
  <2> QED BY <1>5, <2>1, RolesFixedKeeps
          DEF AddSpaceMember, membersFixed, AccessInv, AccessRows, RoleFitsWorkspace
<1> QED BY <1>1, <1>2, <1>3, <1>4, <1>5

\* A user is deleted with the workspaces it owns.
LEMMA DeleteUserKeeps == ASSUME AccessInv, NEW u \in Users, DeleteUser(u) PROVE AccessInv'
<1>1. /\ users' = users \ {u}
      /\ owner' = [w \in DOMAIN owner |-> IF owner[w] = u THEN NULL ELSE owner[w]]
      /\ member' = Drop(member, Workspaces \X {u})
      /\ spaceMember' = Drop(spaceMember, Spaces \X {u})
      /\ UNCHANGED spaceHome /\ RolesFixed
  BY DEF DeleteUser, RolesFixed
<1>2. /\ member' \in [DOMAIN member' -> MemberRow]
      /\ DOMAIN member' = DOMAIN member \ (Workspaces \X {u})
      /\ RoleFitsWorkspace'
  BY <1>1, FewerMembers DEF RolesFixed
<1>3. DOMAIN spaceMember' = DOMAIN spaceMember \ (Spaces \X {u})
  BY <1>1 DEF Drop, Restrict
<1>4. DOMAIN member' \subseteq (DOMAIN owner') \X users'
  BY <1>1, <1>2 DEF AccessInv, AccessTypeOK
<1>5. DOMAIN spaceMember' \subseteq (DOMAIN spaceHome') \X users'
  BY <1>1, <1>3 DEF AccessInv, AccessTypeOK
<1>6. AccessTypeOK'
  BY <1>1, <1>4, <1>5 DEF AccessInv, AccessTypeOK, RolesFixed, Range
<1> QED BY <1>1, <1>2, <1>6, RolesFixedKeeps DEF AccessInv, AccessRows

\* A user or a workspace appears, and a request may go on with it.
LEMMA NewRowsKeep ==
  ASSUME AccessInv, UNCHANGED <<spaceHome, roles, grants, member, spaceMember, asked, mixed>>,
         users \subseteq users', users' \subseteq Users,
         DOMAIN owner \subseteq DOMAIN owner', DOMAIN owner' \subseteq Workspaces,
         \A w \in DOMAIN owner' : owner'[w] \in users' \cup {NULL},
         owner' = [w \in DOMAIN owner' |-> owner'[w]],
         request' \in [Requests -> RequestRow],
         \A p \in Requests : (CopyFits(p) /\ LookFits(p) /\ AloneFits(p))'
  PROVE  AccessInv'
<1>1. AccessTypeOK' BY DEF AccessInv, AccessTypeOK, Range
<1>2. AccessRows' BY DEF AccessInv, AccessRows
<1> QED BY <1>1, <1>2 DEF AccessInv, GrantsOfOneCall, RoleFitsWorkspace

\* A workspace is created with its owner.
LEMMA CreateWorkspaceKeeps ==
  ASSUME AccessInv, NEW q \in Requests, NEW w \in Workspaces, NEW u \in Users,
         CreateWorkspace(q, w, u)
  PROVE  AccessInv'
<1> DEFINE call == [Blank EXCEPT !.do = "AddMember", !.ws = w, !.user = u]
<1>1. /\ u \in users /\ owner' = Put(owner, w, u) /\ request' = [request EXCEPT ![q] = call]
      /\ UNCHANGED <<users, spaceHome, roles, grants, member, spaceMember, asked, mixed>>
  BY DEF CreateWorkspace, Admit
<1>2. call \in RequestRow /\ call.do = "AddMember" BY DEF Blank, RequestRow, RequestOps
<1> HIDE DEF call
<1>3. /\ request' \in [Requests -> RequestRow]
      /\ \A p \in Requests : (CopyFits(p) /\ LookFits(p) /\ AloneFits(p))'
  BY <1>1, <1>2, PlainRequest
<1> QED BY <1>1, <1>3, NewRowsKeep DEF Put, AccessInv, AccessTypeOK, Range

\* A user is created, maybe with a membership to follow.
LEMMA CreateUserKeeps ==
  ASSUME AccessInv, NEW u \in Users, CreateUser(u),
         \/ UNCHANGED request
         \/ \E q \in Requests, w \in Workspaces, t \in Texts :
              request' = [request EXCEPT ![q] =
                [Blank EXCEPT !.do = "AddWorkspaceMember", !.ws = w, !.user = u, !.text = t]]
  PROVE  AccessInv'
<1>1. UNCHANGED <<owner, spaceHome, roles, grants, member, spaceMember, asked, mixed>>
      /\ users' = users \cup {u}
  BY DEF CreateUser
<1>2. /\ request' \in [Requests -> RequestRow]
      /\ \A p \in Requests : (CopyFits(p) /\ LookFits(p) /\ AloneFits(p))'
  <2>1. CASE UNCHANGED request
    BY <1>1, <2>1 DEF AccessInv, AccessRows, CopyFits, LookFits, AloneFits, Doing, Replacing
  <2>2. ASSUME NEW q \in Requests, NEW w \in Workspaces, NEW t \in Texts,
               request' = [request EXCEPT ![q] =
                 [Blank EXCEPT !.do = "AddWorkspaceMember", !.ws = w, !.user = u, !.text = t]]
        PROVE  /\ request' \in [Requests -> RequestRow]
               /\ \A p \in Requests : (CopyFits(p) /\ LookFits(p) /\ AloneFits(p))'
    <3> DEFINE call ==
          [Blank EXCEPT !.do = "AddWorkspaceMember", !.ws = w, !.user = u, !.text = t]
    <3>1. call \in RequestRow /\ call.do = "AddWorkspaceMember"
      BY DEF Blank, RequestRow, RequestOps
    <3>2. request' = [request EXCEPT ![q] = call] BY <2>2
    <3> HIDE DEF call
    <3> QED BY <1>1, <3>1, <3>2, PlainRequest
  <2> QED BY <2>1, <2>2
<1> QED BY <1>1, <1>2, NewRowsKeep DEF AccessInv, AccessTypeOK, AccessRows, Range

\* The steps on roles and grants.
LEMMA RoleKeeps == ASSUME AccessInv, RoleNext PROVE AccessInv'
<1> QED BY AskAssignKeeps, LookAssignKeeps, AssignKeeps, AskPermissionsKeeps, CreateRoleKeeps, ReadRoleKeeps, WriteRoleKeeps,
           BeginReplaceKeeps, CommitReplaceKeeps, DeleteRoleKeeps DEF RoleNext

\* The steps on members.
LEMMA MemberKeeps == ASSUME AccessInv, MemberNext PROVE AccessInv'
<1>1. ASSUME NEW w \in Workspaces, NEW u \in Users, removeWS(w, u) PROVE AccessInv'
  BY <1>1, RemoveWSKeeps DEF removeWS
<1> QED BY <1>1, AddWSKeeps, CreateWorkspaceKeeps, JoinKeeps, FailRequestKeeps DEF MemberNext

\* The steps on users and workspaces.
LEMMA AccountsKeep == ASSUME AccessInv, AccountNext PROVE AccessInv'
<1>1. ASSUME NEW u \in Users, adminGlobalCreate(u) PROVE AccessInv'
  BY <1>1, CreateUserKeeps DEF adminGlobalCreate
<1>2. ASSUME NEW u \in Users, adminDelete(u) \/ adminGlobalDelete(u) PROVE AccessInv'
  BY <1>2, DeleteUserKeeps DEF adminDelete, adminGlobalDelete
<1>3. ASSUME NEW u \in Users, NEW q \in Requests, NEW w \in Workspaces, NEW t \in Texts,
             adminCreate(q, w, u, t)
      PROVE  AccessInv'
  BY <1>3, CreateUserKeeps DEF adminCreate, Admit
<1> QED BY <1>1, <1>2, <1>3, JoinKeeps DEF AccountNext

\* The invariant holds at first.
LEMMA AccessStart == AccessInit => AccessInv
<1> SUFFICES ASSUME AccessInit PROVE AccessInv OBVIOUS
<1>1. PICK u \in Users, w \in Workspaces :
         /\ users = {u} /\ owner = [v \in {w} |-> u]
         /\ member = [p \in {<<w, u>>} |-> [text |-> "owner", role |-> NULL]]
         /\ spaceHome = <<>>
  BY DEF AccessInit
<1>2. /\ DOMAIN spaceHome = {} /\ DOMAIN roles = {} /\ DOMAIN grants = {} /\ DOMAIN asked = {}
      /\ DOMAIN spaceMember = {} /\ mixed = {}
      /\ spaceHome = <<>> /\ roles = <<>> /\ grants = <<>> /\ asked = <<>>
  BY <1>1 DEF AccessInit
<1>3. AccessTypeOK BY <1>1, <1>2 DEF AccessTypeOK, Range
<1>4. request \in [Requests -> RequestRow] /\ \A q \in Requests : request[q] = Blank
  BY BlankTyped DEF AccessInit
<1>5. member \in [DOMAIN member -> MemberRow] BY <1>1 DEF MemberRow, Builtin
<1>6. AccessRows BY <1>1, <1>2, <1>4, <1>5 DEF AccessRows
<1>7. RoleFitsWorkspace /\ GrantsOfOneCall BY <1>1, <1>2 DEF RoleFitsWorkspace, GrantsOfOneCall
<1>8. \A q \in Requests : CopyFits(q) /\ LookFits(q) /\ AloneFits(q)
  BY <1>4, BlankTyped DEF CopyFits, LookFits, AloneFits, Doing
<1> QED BY <1>3, <1>6, <1>7, <1>8 DEF AccessInv

\* Every step keeps the invariant.
LEMMA AccessStep == ASSUME AccessInv, [AccessNext]_accessVars PROVE AccessInv'
<1>1. CASE UNCHANGED accessVars
  BY <1>1 DEF accessVars, AccessInv, AccessTypeOK, AccessRows, RoleFitsWorkspace, GrantsOfOneCall,
              CopyFits, LookFits, AloneFits, Doing, Replacing
<1> QED BY <1>1, RoleKeeps, MemberKeeps, SpaceKeeps, AccountsKeep DEF AccessNext

\* The inductive invariant of roles, grants and members always holds.
LEMMA AccessInvariant == AccessSpec => []AccessInv
BY AccessStart, AccessStep, PTL DEF AccessSpec

-----------------------------------------------------------------------------
\* A member's role exists, and is built in or of the member's own workspace, through the two
\* steps of every assignment and whatever is deleted between them.
THEOREM RoleFitsWorkspaceHolds == AccessSpec => []RoleFitsWorkspace
<1>1. AccessInv => RoleFitsWorkspace BY DEF AccessInv
<1> QED BY <1>1, AccessInvariant, PTL

\* A role's grants are those the last call to replace them asked for, unless two calls
\* overlapped: SetPermissions replaces the set in one transaction of three statements.
THEOREM GrantsOfOneCallHolds == AccessSpec => []GrantsOfOneCall
<1>1. AccessInv => GrantsOfOneCall BY DEF AccessInv
<1> QED BY <1>1, AccessInvariant, PTL

\* The policy's checks by rank, by name and by permission (authz/policy.go) agree on every
\* member, whichever of the two columns its role was written to.
THEOREM ChecksAgreeHolds == AccessSpec => []ChecksAgree
<1>1. ASSUME AccessInv PROVE ChecksAgree
  <2>1. ASSUME NEW p \in DOMAIN member
        PROVE  LET w == p[1] u == p[2] IN
               IF JoinedRoles(w, u) = {}
               THEN workspaceRoleRank(w, u) = 2 /\ EffectivePermissions(w, u) = {}
               ELSE \E r \in JoinedRoles(w, u) :
                      /\ RoleNamesForUser(w, u) = {workspaceRole(w, u)}
                      /\ workspaceRoleRank(w, u) = RankOf(r)
                      /\ r \in Builtin => (RequireWorkspaceRole(w, u, "admin")
                                             <=> HasPermission(w, u, "user.manage"))
    <3> DEFINE w == p[1]  u == p[2]
    <3>1. p = <<w, u>> /\ Member(w, u)
      <4>1. p \in (DOMAIN owner) \X users BY <1>1 DEF AccessInv, AccessTypeOK
      <4>2. p = <<p[1], p[2]>> BY <4>1
      <4> QED BY <4>2 DEF Member
    <3> HIDE DEF w, u
    <3>2. CASE member[<<w, u>>].role # NULL
      <4> DEFINE r == member[<<w, u>>].role
      <4>1. JoinedRoles(w, u) = {r} BY <3>1, <3>2 DEF JoinedRoles
      <4>2. workspaceRole(w, u) = NameOf(r) /\ workspaceRoleRank(w, u) = RankOf(r)
        BY <3>1, <3>2 DEF workspaceRole, workspaceRoleRank
      <4> HIDE DEF r
      <4>3. RoleNamesForUser(w, u) = {workspaceRole(w, u)}
        BY <4>1, <4>2 DEF RoleNamesForUser
      <4>4. HasPermission(w, u, "user.manage") <=> "user.manage" \in GrantsOf(r)
        BY <4>1 DEF HasPermission
      <4>5. r \in Builtin => (RankOf(r) >= 3 <=> "user.manage" \in GrantsOf(r))
        BY DEF Builtin, RankOf, RoleRank, GrantsOf, BuiltinGrants, Keys
      <4>6. RequireWorkspaceRole(w, u, "admin") <=> RankOf(r) >= 3
        BY <4>2 DEF RequireWorkspaceRole, RoleRank
      <4> QED BY <4>1, <4>2, <4>3, <4>4, <4>5, <4>6 DEF w, u
    <3>3. CASE member[<<w, u>>].role = NULL /\ member[<<w, u>>].text \in Builtin
      <4> DEFINE r == member[<<w, u>>].text
      <4>1. JoinedRoles(w, u) = {r} BY <3>1, <3>3 DEF JoinedRoles
      <4>2. workspaceRole(w, u) = NameOf(r) /\ workspaceRoleRank(w, u) = RankOf(r)
        BY <3>1, <3>3 DEF workspaceRole, workspaceRoleRank, NameOf, RankOf
      <4>3. r \in Builtin BY <3>3
      <4> HIDE DEF r
      <4>4. RoleNamesForUser(w, u) = {workspaceRole(w, u)}
        BY <4>1, <4>2 DEF RoleNamesForUser
      <4>5. HasPermission(w, u, "user.manage") <=> "user.manage" \in GrantsOf(r)
        BY <4>1 DEF HasPermission
      <4>6. RankOf(r) >= 3 <=> "user.manage" \in GrantsOf(r)
        BY <4>3 DEF Builtin, RankOf, RoleRank, GrantsOf, BuiltinGrants, Keys
      <4>7. RequireWorkspaceRole(w, u, "admin") <=> RankOf(r) >= 3
        BY <4>2 DEF RequireWorkspaceRole, RoleRank
      <4> QED BY <4>1, <4>2, <4>4, <4>5, <4>6, <4>7 DEF w, u
    <3>4. CASE member[<<w, u>>].role = NULL /\ member[<<w, u>>].text \notin Builtin
      <4>1. JoinedRoles(w, u) = {} BY <3>1, <3>4 DEF JoinedRoles
      <4>2. workspaceRoleRank(w, u) = 2
        BY <3>1, <3>4 DEF workspaceRoleRank, RoleRank, Builtin
      <4>3. EffectivePermissions(w, u) = {} BY <4>1 DEF EffectivePermissions
      <4> QED BY <4>1, <4>2, <4>3 DEF w, u
    <3> QED BY <3>2, <3>3, <3>4
  <2>2. ASSUME NEW s \in DOMAIN spaceHome, NEW u \in users, NEW min \in Builtin,
               RequireSpaceRole(s, u, min)
        PROVE  RequireSpaceMember(s, u)
    <3>1. RoleRank(min) > 0 BY DEF Builtin, RoleRank
    <3>2. CASE <<s, u>> \in DOMAIN spaceMember BY <3>2 DEF RequireSpaceMember
    <3>3. CASE RequireWorkspaceRole(spaceHome[s], u, min)
      <4>1. Member(spaceHome[s], u)
        BY <3>1, <3>3 DEF RequireWorkspaceRole, workspaceRoleRank, RoleRank, Builtin
      <4> QED BY <4>1 DEF RequireSpaceMember, RequireWorkspaceMember
    <3> QED BY <2>2, <3>2, <3>3 DEF RequireSpaceRole
  <2> QED BY <2>1, <2>2 DEF ChecksAgree
<1> QED BY <1>1, AccessInvariant, PTL
=============================================================================
