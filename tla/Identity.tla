------------------------------ MODULE Identity ------------------------------
(***************************************************************************)
(* Accounts and the ways to log in: service/user, service/mfa,             *)
(* service/oidc and service/session with their handlers and repositories.  *)
(* Every call is a row of statements with others in between; a call that   *)
(* fails keeps what it has written. An account is known by its email, and  *)
(* a batch of recovery codes stands for one code of it.                    *)
(***************************************************************************)
EXTENDS Integers

CONSTANTS
    Accounts,   \* the emails accounts are made for, each once
    Subjects,   \* what the identity provider calls a person
    Enrolling,  \* those of them that turn on MFA
    Secrets, Batches, Tokens, LoginCalls, NOBODY

\* The absence of a secret is not one.
ASSUME IdentityMarker == NOBODY \notin [id: Secrets, enrolled: BOOLEAN]

VARIABLES
    account,    \* table users: "none", "sso" (no usable password), "password", "gone"
    secret,     \* table mfa_secrets: NOBODY or the secret and whether it is enrolled
    shown,      \* the secrets that some response has handed out
    code,       \* table mfa_recovery_codes: "new" before, "live", "used", "wiped"
    codeOf,     \* its user_id
    redeemed,   \* history: how often each code has passed
    challenge,  \* the accounts challenge tokens are out for
    token,      \* whom each session token was minted for
    session,    \* table user_sessions: the tokens that have a row
    identity,   \* table oauth_identities: the account of each linked subject
    login,      \* the calls in flight
    mfaRaced    \* history: accounts two of whose MFA calls overlapped

identityVars == <<account, secret, shown, code, codeOf, redeemed, challenge, token,
                  session, identity, login, mfaRaced>>

Steps == {"mint", "mintVerified", "consume", "wipeEnroll", "wipeDisable", "wipeRegenerate",
          "mark", "insert", "deleteSecret", "find", "create", "link"}
LoginCall == [step: Steps, who: Accounts, sub: Subjects \cup {NOBODY},
              sec: Secrets \cup {NOBODY}]

IdentityTypeOK ==
    /\ account \in [Accounts -> {"none", "sso", "password", "gone"}]
    /\ secret \in [Accounts -> {NOBODY} \cup [id: Secrets, enrolled: BOOLEAN]]
    /\ shown \in SUBSET Secrets
    /\ code \in [Batches -> {"new", "live", "used", "wiped"}]
    /\ codeOf \in [Batches -> Accounts \cup {NOBODY}]
    /\ redeemed \in [Batches -> Nat]
    /\ challenge \in SUBSET Accounts
    /\ token \in [Tokens -> Accounts \cup {NOBODY}]
    /\ session \in SUBSET Tokens
    /\ identity \in [Subjects -> Accounts \cup {NOBODY}]
    /\ login \in [LoginCalls -> LoginCall \cup {NOBODY}]
    /\ mfaRaced \in SUBSET Accounts

IdentityInit ==
    /\ \E A \in SUBSET (Accounts \ Enrolling) :
         account = [a \in Accounts |-> IF a \in A THEN "none" ELSE "password"]
    /\ secret = [a \in Accounts |-> NOBODY] /\ shown = {}
    /\ code = [b \in Batches |-> "new"] /\ codeOf = [b \in Batches |-> NOBODY]
    /\ redeemed = [b \in Batches |-> 0]
    /\ challenge = {} /\ session = {}
    /\ token = [j \in Tokens |-> NOBODY]
    /\ identity = [s \in Subjects |-> NOBODY]
    /\ login = [c \in LoginCalls |-> NOBODY]
    /\ mfaRaced = {}

-----------------------------------------------------------------------------
(* Calls in flight.                                                        *)

accountRows == <<account, identity>>
mfaRows == <<secret, shown, code, codeOf, redeemed, mfaRaced>>
sessionRows == <<token, session, challenge>>

Exists(a) == account[a] \in {"sso", "password"}
At(c, step) == login[c] # NOBODY /\ login[c].step = step
Idle(c) == login[c] = NOBODY
Row(step, a, s, x) == [step |-> step, who |-> a, sub |-> s, sec |-> x]
Start(c, step, a) == Idle(c) /\ login' = [login EXCEPT ![c] = Row(step, a, NOBODY, NOBODY)]
Continue(c, step) == login' = [login EXCEPT ![c].step = step]
Return(c) == login' = [login EXCEPT ![c] = NOBODY]

MfaSteps == {"wipeEnroll", "wipeDisable", "wipeRegenerate", "mark", "insert", "deleteSecret"}
\* A call that manages the account's second factor.
StartMfa(c, step, a, x) ==
    /\ Idle(c)
    /\ login' = [login EXCEPT ![c] = Row(step, a, NOBODY, x)]
    /\ mfaRaced' = IF \E d \in LoginCalls : login[d] # NOBODY
                          /\ login[d].who = a /\ login[d].step \in MfaSteps
                   THEN mfaRaced \cup {a} ELSE mfaRaced

-----------------------------------------------------------------------------
(* service/user: password login and its second leg.                        *)

IsEnrolled(a) == secret[a] # NOBODY /\ secret[a].enrolled

\* Who calls: some token of the account is presented, with a row or without one.
Auth(a) == \E j \in Tokens : token[j] = a

LoginWithContext(c, a) ==
    /\ account[a] = "password" /\ Idle(c)
    /\ IF IsEnrolled(a)
       THEN challenge' = challenge \cup {a} /\ UNCHANGED login
       ELSE Start(c, "mint", a) /\ UNCHANGED challenge
    /\ UNCHANGED <<accountRows, mfaRows, token, session>>

\* A challenge token can be presented again while it lives; a code that fails as
\* a TOTP is tried as a recovery code.
VerifyMFAChallenge(c, a) ==
    /\ a \in challenge /\ IsEnrolled(a)
    /\ \/ secret[a].id \in shown /\ Start(c, "mintVerified", a)
       \/ Start(c, "consume", a)
    /\ UNCHANGED <<accountRows, mfaRows, sessionRows>>

\* Mutated form: without the condition on consumed_at.
ConsumeRecoveryCodeAgain(c) ==
    /\ At(c, "consume")
    /\ \E b \in Batches :
         /\ codeOf[b] = login[c].who /\ code[b] \in {"live", "used"}
         /\ code' = [code EXCEPT ![b] = "used"]
         /\ redeemed' = [redeemed EXCEPT ![b] = @ + 1]
    /\ Continue(c, "mintVerified")
    /\ UNCHANGED <<accountRows, secret, shown, codeOf, mfaRaced, sessionRows>>

ConsumeRecoveryCode(c) ==
    /\ At(c, "consume")
    /\ \E b \in Batches :
         /\ codeOf[b] = login[c].who /\ code[b] = "live"
         /\ code' = [code EXCEPT ![b] = "used"]
         /\ redeemed' = [redeemed EXCEPT ![b] = @ + 1]
    /\ Continue(c, "mintVerified")
    /\ UNCHANGED <<accountRows, secret, shown, codeOf, mfaRaced, sessionRows>>

\* The row of a new token; whether it could be stored is not looked at.
Issue(j, a) ==
    \/ Exists(a) /\ session' = session \cup {j}
    \/ UNCHANGED session

\* Tokens are random, and numbered too. One is valid whether or not its row can be
\* stored; a row needs its user.
mintSession(c) ==
    /\ At(c, "mint") \/ At(c, "mintVerified")
    /\ \E j \in Tokens :
         /\ token[j] = NOBODY /\ \A k \in Tokens : token[k] = NOBODY => j <= k
         /\ token' = [token EXCEPT ![j] = login[c].who]
         /\ Issue(j, login[c].who)
    /\ Return(c)
    /\ UNCHANGED <<accountRows, mfaRows, challenge>>

AdminCreate(a) ==
    /\ account[a] = "none"
    /\ account' = [account EXCEPT ![a] = "password"]
    /\ UNCHANGED <<identity, mfaRows, sessionRows, login>>

\* By an administrator, without the current password.
ResetPassword(a) ==
    /\ Exists(a)
    /\ account' = [account EXCEPT ![a] = "password"]
    /\ UNCHANGED <<identity, mfaRows, sessionRows, login>>

\* Whether by may is for the policy to say (Access).
adminResetPassword(by, a) == Auth(by) /\ ResetPassword(a)

\* The rows that hang on the account go with it.
DeleteAccount(a) ==
    /\ Exists(a)
    /\ account' = [account EXCEPT ![a] = "gone"]
    /\ identity' = [s \in Subjects |-> IF identity[s] = a THEN NOBODY ELSE identity[s]]
    /\ secret' = [secret EXCEPT ![a] = NOBODY]
    /\ code' = [b \in Batches |-> IF codeOf[b] = a THEN "wiped" ELSE code[b]]
    /\ session' = {j \in session : token[j] # a}
    /\ UNCHANGED <<shown, codeOf, redeemed, mfaRaced, token, challenge, login>>

-----------------------------------------------------------------------------
(* service/mfa.                                                            *)

\* Secrets and batches are random; they are numbered as they appear.
Fresh(x) ==
    /\ x \notin shown
    /\ \A o \in Accounts : secret[o] # NOBODY => secret[o].id # x
    /\ \A d \in LoginCalls : login[d] # NOBODY => login[d].sec # x

\* An enrolment begins anew: the secret is replaced and no longer enrolled.
Enroll(c, a) ==
    /\ Exists(a)
    /\ \E x \in Secrets :
         /\ Fresh(x) /\ \A y \in Secrets : Fresh(y) => x <= y
         /\ secret' = [secret EXCEPT ![a] = [id |-> x, enrolled |-> FALSE]]
         /\ StartMfa(c, "wipeEnroll", a, x)
    /\ UNCHANGED <<accountRows, shown, code, codeOf, redeemed, sessionRows>>

wiped(a) == [b \in Batches |-> IF codeOf[b] = a THEN "wiped" ELSE code[b]]

\* Mutated form: an enrolment leaves the codes to the one before it.
DeleteRecoveryCodesLater(c) ==
    /\ At(c, "wipeEnroll") \/ At(c, "wipeDisable") \/ At(c, "wipeRegenerate")
    /\ code' = IF At(c, "wipeEnroll") THEN code ELSE wiped(login[c].who)
    /\ CASE At(c, "wipeEnroll") -> Return(c) /\ shown' = shown \cup {login[c].sec}
         [] At(c, "wipeDisable") -> Continue(c, "deleteSecret") /\ UNCHANGED shown
         [] At(c, "wipeRegenerate") -> Continue(c, "insert") /\ UNCHANGED shown
    /\ UNCHANGED <<accountRows, secret, codeOf, redeemed, mfaRaced, sessionRows>>

\* The second statement of three calls. Only an enrolment that gets past it hands
\* out its secret.
DeleteRecoveryCodes(c) ==
    /\ At(c, "wipeEnroll") \/ At(c, "wipeDisable") \/ At(c, "wipeRegenerate")
    /\ code' = wiped(login[c].who)
    /\ CASE At(c, "wipeEnroll") -> Return(c) /\ shown' = shown \cup {login[c].sec}
         [] At(c, "wipeDisable") -> Continue(c, "deleteSecret") /\ UNCHANGED shown
         [] At(c, "wipeRegenerate") -> Continue(c, "insert") /\ UNCHANGED shown
    /\ UNCHANGED <<accountRows, secret, codeOf, redeemed, mfaRaced, sessionRows>>

\* A valid TOTP proves that the secret was received.
VerifyEnrollment(c, a) ==
    /\ secret[a] # NOBODY /\ ~secret[a].enrolled /\ secret[a].id \in shown
    /\ StartMfa(c, "mark", a, NOBODY)
    /\ UNCHANGED <<accountRows, secret, shown, code, codeOf, redeemed, sessionRows>>

\* Marks whatever secret the row holds by now.
MarkEnrolled(c) ==
    LET a == login[c].who IN
    /\ At(c, "mark")
    /\ secret' = IF secret[a] = NOBODY THEN secret ELSE [secret EXCEPT ![a].enrolled = TRUE]
    /\ Continue(c, "insert")
    /\ UNCHANGED <<accountRows, shown, code, codeOf, redeemed, mfaRaced, sessionRows>>

InsertRecoveryCodes(c) ==
    /\ At(c, "insert") /\ Exists(login[c].who)
    /\ \E b \in Batches :
         /\ code[b] = "new" /\ \A d \in Batches : code[d] = "new" => b <= d
         /\ code' = [code EXCEPT ![b] = "live"]
         /\ codeOf' = [codeOf EXCEPT ![b] = login[c].who]
    /\ Return(c)
    /\ UNCHANGED <<accountRows, secret, shown, redeemed, mfaRaced, sessionRows>>

\* Mutated form: the secret goes before the codes.
DisableAtOnce(c, a) ==
    /\ secret[a] # NOBODY
    /\ secret' = [secret EXCEPT ![a] = NOBODY]
    /\ StartMfa(c, "wipeDisable", a, NOBODY)
    /\ UNCHANGED <<accountRows, shown, code, codeOf, redeemed, sessionRows>>

Disable(c, a) ==
    /\ secret[a] # NOBODY
    /\ StartMfa(c, "wipeDisable", a, NOBODY)
    /\ UNCHANGED <<accountRows, secret, shown, code, codeOf, redeemed, sessionRows>>

DeleteSecret(c) ==
    /\ At(c, "deleteSecret")
    /\ secret' = [secret EXCEPT ![login[c].who] = NOBODY]
    /\ Return(c)
    /\ UNCHANGED <<accountRows, shown, code, codeOf, redeemed, mfaRaced, sessionRows>>

RegenerateRecoveryCodes(c, a) ==
    /\ IsEnrolled(a)
    /\ StartMfa(c, "wipeRegenerate", a, NOBODY)
    /\ UNCHANGED <<accountRows, secret, shown, code, codeOf, redeemed, sessionRows>>

\* The handler's calls are the caller's own account's.
enroll(c, a) == Auth(a) /\ a \in Enrolling /\ Enroll(c, a)
verifyEnroll(c, a) == Auth(a) /\ VerifyEnrollment(c, a)
regenerateRecovery(c, a) == Auth(a) /\ RegenerateRecoveryCodes(c, a)
disable(c, a) == Auth(a) /\ Disable(c, a)

-----------------------------------------------------------------------------
(* service/oidc: a callback with a subject and a verified email.           *)

\* The linked account if there is one, else the one with that email.
Callback(c, s, e) ==
    /\ Idle(c)
    /\ login' = [login EXCEPT ![c] =
         IF identity[s] # NOBODY THEN Row("link", identity[s], s, NOBODY)
         ELSE Row("find", e, s, NOBODY)]
    /\ UNCHANGED <<accountRows, mfaRows, sessionRows>>

FindByEmail(c) ==
    /\ At(c, "find")
    /\ Continue(c, IF Exists(login[c].who) THEN "link" ELSE "create")
    /\ UNCHANGED <<accountRows, mfaRows, sessionRows>>

\* The email is unique: a second account for it is refused.
CreateForSubject(c) ==
    /\ At(c, "create") /\ account[login[c].who] = "none"
    /\ account' = [account EXCEPT ![login[c].who] = "sso"]
    /\ Continue(c, "link")
    /\ UNCHANGED <<identity, mfaRows, sessionRows>>

\* Mutated form: the conflict overwrites the user as well.
UpsertOver(c) ==
    /\ At(c, "link") /\ Exists(login[c].who)
    /\ identity' = [identity EXCEPT ![login[c].sub] = login[c].who]
    /\ Continue(c, "mintVerified")
    /\ UNCHANGED <<account, mfaRows, sessionRows>>

\* A subject linked meanwhile keeps the account it has; the login goes on as found.
Upsert(c) ==
    /\ At(c, "link") /\ Exists(login[c].who)
    /\ identity' = [identity EXCEPT ![login[c].sub] = IF @ = NOBODY THEN login[c].who ELSE @]
    /\ Continue(c, "mintVerified")
    /\ UNCHANGED <<account, mfaRows, sessionRows>>

-----------------------------------------------------------------------------
(* service/session.                                                        *)

Revoke(j) ==
    /\ j \in session
    /\ session' = session \ {j}
    /\ UNCHANGED <<accountRows, mfaRows, token, challenge, login>>

RevokeOthers(keep) ==
    /\ session' = {j \in session : token[j] = token[keep] => j = keep}
    /\ UNCHANGED <<accountRows, mfaRows, token, challenge, login>>

\* The handler: only a session of the caller's own, and only one that is known is kept.
revoke(a, j) == Auth(a) /\ token[j] = a /\ Revoke(j)
revokeOthers(keep) == token[keep] # NOBODY /\ RevokeOthers(keep)

\* A request with a live session sets off the sweep of the rows past their time, whose
\* tokens are past theirs; a token is then free to stand for another.
DeleteExpired(j) ==
    /\ j \in session
    /\ \E old \in SUBSET (session \ {j}) :
         /\ old # {} /\ session' = session \ old
         /\ token' = [k \in Tokens |-> IF k \in old THEN NOBODY ELSE token[k]]
    /\ UNCHANGED <<accountRows, mfaRows, challenge, login>>

\* A statement fails, or a check that follows refuses.
FailLogin(c) ==
    /\ ~Idle(c) /\ Return(c)
    /\ UNCHANGED <<accountRows, mfaRows, sessionRows>>

PasswordNext(A) ==
    \/ \E c \in LoginCalls, a \in A : LoginWithContext(c, a) \/ VerifyMFAChallenge(c, a)
    \/ \E c \in LoginCalls : ConsumeRecoveryCode(c) \/ mintSession(c) \/ FailLogin(c)
    \/ \E a \in A : AdminCreate(a) \/ DeleteAccount(a)
    \/ \E by, a \in A : adminResetPassword(by, a)

MfaNext ==
    \/ \E c \in LoginCalls, a \in Accounts :
         \/ enroll(c, a) \/ verifyEnroll(c, a) \/ disable(c, a) \/ regenerateRecovery(c, a)
    \/ \E c \in LoginCalls : \/ DeleteRecoveryCodes(c) \/ MarkEnrolled(c)
                             \/ InsertRecoveryCodes(c) \/ DeleteSecret(c)

OidcNext ==
    \/ \E c \in LoginCalls, a \in Accounts, s \in Subjects : Callback(c, s, a)
    \/ \E c \in LoginCalls : FindByEmail(c) \/ CreateForSubject(c) \/ Upsert(c)

SessionNext ==
    \/ \E j \in Tokens, a \in Accounts : revoke(a, j)
    \/ \E j \in Tokens : revokeOthers(j) \/ DeleteExpired(j)

IdentityNext == PasswordNext(Accounts) \/ MfaNext \/ OidcNext \/ SessionNext

IdentitySpec == IdentityInit /\ [][IdentityNext]_identityVars

-----------------------------------------------------------------------------
\* "Concurrent verifications race for the UPDATE and only one wins": a recovery code
\* passes once, whatever is regenerated, disabled or enrolled again in between.
CodeUsedOnce == \A b \in Batches : redeemed[b] <= 1

\* Codes of an earlier enrolment "shouldn't unlock the new one": an account whose MFA
\* calls did not overlap has codes of one batch only, though any of them may have failed
\* between its statements.
LastBatchOnly ==
    \A a \in Accounts \ mfaRaced : \A b, d \in Batches :
        code[b] = "live" /\ code[d] = "live" /\ codeOf[b] = a /\ codeOf[d] = a => b = d

\* Codes "were tied to the old secret": one is live only beside a second factor it
\* stands in for, an enrolled secret or one not handed out yet, whichever enrolment,
\* disabling or regeneration of the account was cut off, and where, unless two such calls
\* on it overlapped.
CodesNeedSecret ==
    \A a \in Accounts \ mfaRaced, b \in Batches : code[b] = "live" /\ codeOf[b] = a =>
        secret[a] # NOBODY /\ (secret[a].enrolled \/ secret[a].id \notin shown)

\* A subject stays linked to its account while that exists, also when two callbacks for
\* it cross and carry different emails.
SubjectKeepsUser ==
    [][\A s \in Subjects : identity[s] # NOBODY /\ account'[identity[s]] # "gone"
         => identity'[s] = identity[s]]_identityVars

=============================================================================
