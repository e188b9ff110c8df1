---------------------------- MODULE AuthService ------------------------------
(***************************************************************************)
(* The auth service: the requests about one account, each a handler that   *)
(* makes its database statements one after another, beside one another.    *)
(* Only ProvisionUserResources is a transaction; every other statement     *)
(* commits by itself, and what a handler has read may be old when it acts. *)
(*                                                                         *)
(* A request is told by its number, in the order in which they begin, and  *)
(* so are the session, the token, the key or the secret it makes; 0 is     *)
(* what the account had before.  A client uses a token, a code or a        *)
(* session that it was given.                                              *)
(*                                                                         *)
(* What is abstracted: refusals before the first statement, hashing, the   *)
(* account's name and address, the administrator's own session, the audit  *)
(* log.  A session or token whose time is over is as good as removed;      *)
(* passkeys are left out, and key bundles are in KeyServer.                *)
(***************************************************************************)
EXTENDS Naturals, Sequences, FiniteSets

CONSTANTS MaxRequests,   \* bound on the requests
          MaxFailures,   \* bound on the statements that fail
          Passwords,     \* passwords the account may have
          FirstPassword,
          NoSecret       \* no row in mfa_secrets

ASSUME AuthServiceAssumption ==
    /\ MaxRequests \in Nat /\ MaxFailures \in Nat
    /\ FirstPassword \in Passwords
    /\ NoSecret \notin Nat

VARIABLES
    user,      \* the row of users, and what belongs to an account
    sessions,  \* the rows of sessions
    mfa,       \* the row of mfa_secrets
    tokens,    \* the rows of the tables that keep one-time tokens and recovery keys
    request,   \* the requests begun
    failures,
    running    \* history: the requests under way when sessions were last deleted

authVars == <<user, sessions, mfa, tokens, request, failures, running>>

Numbers == 0..MaxRequests
Begun   == 1..Len(request)
Tables  == {"recovery", "verification", "reset", "challenge"}

\* What authMiddleware reads.
Authorize == << <<"validate", "session">>, <<"authorize", "user">> >>

Replace(table) == << <<"clear", table>>, <<"insert", table>> >>

\* The statements of each handler.
handleRegister ==
    << <<"absent", "user">>, <<"insert", "user">>, <<"insert", "resources">>, <<"insert", "keys">> >>
    \o Replace("recovery") \o Replace("verification") \o << <<"insert", "session">> >>

\* It goes on with Replace("challenge") when a second factor is asked for.
handleLogin ==
    << <<"credentials", "user">>, <<"enabled", "mfa">>, <<"insert", "session">> >>
handleLoginMFA ==
    << <<"consume", "challenge">>, <<"validate", "mfa">>, <<"exists", "user">>, <<"insert", "session">> >>
handleLogout == << <<"delete", "session">> >>

handleVerifyEmail    == << <<"consume", "verification">>, <<"set", "verified">> >>
handleForgotPassword == << <<"exists", "user">> >> \o Replace("reset")
handleResetPassword  ==
    << <<"consume", "reset">>, <<"set", "password">>, <<"delete", "sessions">>, <<"insert", "session">> >>
handleChangePassword ==
    Authorize \o << <<"verify", "password">>, <<"set", "password">>, <<"delete", "others">> >>
handleRecoveryKey    == Authorize \o Replace("recovery")

handleMFASetup       == Authorize \o << <<"exists", "user">>, <<"upsert", "mfa">> >>
handleMFAVerifySetup == Authorize \o << <<"code", "mfa">>, <<"enable", "mfa">> >>
handleMFADisable     == Authorize \o << <<"optional", "mfa">>, <<"delete", "mfa">> >>

handleSessionDeleteAll == Authorize \o << <<"delete", "sessions">> >>
handleRevokeSession    == Authorize \o << <<"delete", "one">> >>
handleDeleteAccount    == Authorize \o << <<"delete", "user">> >>

handleAdminSuspend     == << <<"set", "suspended">>, <<"delete", "sessions">> >>
handleAdminReactivate  == << <<"clear", "suspended">> >>
handleAdminVerifyEmail == << <<"set", "verified">> >>
handleAdminMFAEnforce(demand) == << <<demand, "enforced">> >>

Program ==
    [register |-> handleRegister, login |-> handleLogin, loginMFA |-> handleLoginMFA,
     logout |-> handleLogout, verifyEmail |-> handleVerifyEmail, forgot |-> handleForgotPassword,
     resetPassword |-> handleResetPassword, changePassword |-> handleChangePassword,
     recoveryKey |-> handleRecoveryKey, mfaSetup |-> handleMFASetup,
     mfaVerify |-> handleMFAVerifySetup, mfaDisable |-> handleMFADisable,
     signOutAll |-> handleSessionDeleteAll, revoke |-> handleRevokeSession,
     deleteAccount |-> handleDeleteAccount, suspend |-> handleAdminSuspend,
     reactivate |-> handleAdminReactivate, enforce |-> handleAdminMFAEnforce("set"),
     relax |-> handleAdminMFAEnforce("clear"), adminVerify |-> handleAdminVerifyEmail]

Kinds == DOMAIN Program

NoAccount ==
    [there |-> FALSE, password |-> FirstPassword, suspended |-> FALSE, enforced |-> FALSE,
     verified |-> FALSE, resources |-> FALSE, keys |-> FALSE]

\* Nobody has registered yet, or there is an account with a session, with or without
\* a second factor.
AuthInit ==
    /\ \/ user = NoAccount /\ sessions = {} /\ mfa = [secret |-> NoSecret, enabled |-> FALSE]
       \/ /\ user = [NoAccount EXCEPT !.there = TRUE, !.resources = TRUE, !.keys = TRUE]
          /\ sessions = {0}
          /\ mfa \in {[secret |-> NoSecret, enabled |-> FALSE], [secret |-> 0, enabled |-> TRUE]}
    /\ tokens = [t \in Tables |-> IF user.there /\ t = "recovery" THEN {0} ELSE {}]
    /\ request = <<>>
    /\ failures = 0
    /\ running = {}

-----------------------------------------------------------------------------
(* Requests                                                                *)

Over(r)    == request[r].todo = <<>>
Ended      == {r \in Begun : Over(r)}
Statement(r) == Head(request[r].todo)
At(r, statement) == ~Over(r) /\ Statement(r) = statement

\* The request goes on with the statements given, and is answered after the last.
GoesOn(r, todo) == request' = [request EXCEPT ![r].todo = todo, ![r].ok = todo = <<>>]
Proceeds(r)     == GoesOn(r, Tail(request[r].todo))
Refused(r)      == request' = [request EXCEPT ![r].todo = <<>>]

\* The statement finds what it needs, or the request is refused.
ProceedsIf(r, found) == IF found THEN Proceeds(r) ELSE Refused(r)

\* The requests that were answered, and with them what they made was handed out.
Given(kinds) == {r \in Ended : request[r].ok /\ request[r].kind \in kinds}
SignIns      == {"register", "login", "loginMFA", "resetPassword"}
Challenged   == {r \in Given({"login"}) : request[r].factor}
Cookies      == {0} \cup (Given(SignIns) \ Challenged)
Secrets      == {0} \cup Given({"mfaSetup"})

NeedsSession(kind) == kind = "logout" \/ Program[kind][1] = Authorize[1]

\* The session or token a request carries.
Uses(kind) ==
    CASE kind = "loginMFA"      -> Challenged
      [] kind = "verifyEmail"   -> Given({"register"})
      [] kind = "resetPassword" -> Given({"forgot"})
      [] NeedsSession(kind)     -> Cookies
      [] OTHER                  -> {0}

\* The secret its code is of, or the session it names.
Codes(kind) ==
    CASE kind \in {"loginMFA", "mfaVerify"} -> Secrets
      [] kind = "revoke"                    -> Cookies
      [] OTHER                              -> {0}

\* The password that is typed, and the one that is to be set.
Typed(kind) == IF kind \in {"login", "changePassword"} THEN Passwords ELSE {FirstPassword}
New(kind)   ==
    IF kind \in {"resetPassword", "changePassword"} THEN Passwords ELSE {FirstPassword}

\* Requests about an account that is not there are refused by their first statement.
\* Bound: an account that was deleted is not registered again, and none is deleted while
\* a registration is under way; the new one would have an id, and so rows, of its own.
Applicable(kind) ==
    /\ user.there \/ (kind = "register" /\ Given({"deleteAccount"}) = {})
    /\ kind = "deleteAccount" => \A r \in Begun : Over(r) \/ request[r].kind # "register"

\* A request begins with its first statement: the last one that was begun has made it
\* before another one moves.
Entering == Len(request) > 0 /\ LET q == request[Len(request)] IN q.todo = Program[q.kind]
Moves(r) == Entering => r = Len(request)

\* Bound: a password is changed to another one.
Begin(kind) ==
    /\ Applicable(kind)
    /\ \E uses \in Uses(kind), code \in Codes(kind), typed \in Typed(kind), new \in New(kind) :
         /\ kind = "changePassword" => typed # new
         /\ request' = Append(request,
             [kind |-> kind, todo |-> Program[kind], ok |-> FALSE, uses |-> uses, code |-> code,
              typed |-> typed, new |-> new, enforced |-> FALSE, factor |-> FALSE, past |-> Ended])
    /\ UNCHANGED <<user, sessions, mfa, tokens, failures, running>>

-----------------------------------------------------------------------------
(* Statements that read                                                    *)

Reads == {<<"absent", "user">>, <<"exists", "user">>, <<"credentials", "user">>,
          <<"validate", "session">>, <<"authorize", "user">>, <<"verify", "password">>,
          <<"validate", "mfa">>, <<"code", "mfa">>, <<"optional", "mfa">>}

\* What a statement finds, together with the handler's look at it.
FoundBy(r) ==
    CASE At(r, <<"absent", "user">>)      -> ~user.there
      [] At(r, <<"exists", "user">>)      -> user.there
      [] At(r, <<"credentials", "user">>) ->
             user.there /\ ~user.suspended /\ user.password = request[r].typed
      [] At(r, <<"validate", "session">>) -> request[r].uses \in sessions
      [] At(r, <<"authorize", "user">>)   -> user.there /\ ~user.suspended
      [] At(r, <<"verify", "password">>)  -> user.there /\ user.password = request[r].typed
      [] At(r, <<"validate", "mfa">>)     -> mfa.enabled /\ mfa.secret = request[r].code
      [] At(r, <<"code", "mfa">>)         -> mfa.secret = request[r].code
      [] At(r, <<"optional", "mfa">>)     -> user.there /\ ~user.enforced

Select(r) ==
    /\ ~Over(r) /\ Statement(r) \in Reads
    /\ IF FoundBy(r)
       THEN request' = [request EXCEPT ![r].todo = Tail(@),
                      ![r].enforced = At(r, <<"credentials", "user">>) /\ user.enforced]
       ELSE Refused(r)
    /\ UNCHANGED <<user, sessions, mfa, tokens, failures, running>>

\* The end of handleLogin: with the answer of IsMFAEnabled, an error being "off".
SecondFactor(r, on) ==
    IF on
    THEN request' = [request EXCEPT ![r].todo = Replace("challenge"), ![r].factor = TRUE]
    ELSE ProceedsIf(r, ~request[r].enforced)

IsMFAEnabled(r) ==
    /\ At(r, <<"enabled", "mfa">>)
    /\ SecondFactor(r, mfa.enabled)
    /\ UNCHANGED <<user, sessions, mfa, tokens, failures, running>>

-----------------------------------------------------------------------------
(* Statements on the account                                               *)

\* The unique index refuses a second account of the same address.
CreateUserWithPassword(r) ==
    /\ At(r, <<"insert", "user">>)
    /\ ProceedsIf(r, ~user.there)
    /\ user' = IF user.there THEN user
               ELSE [NoAccount EXCEPT !.there = TRUE, !.password = request[r].new]
    /\ UNCHANGED <<sessions, mfa, tokens, failures, running>>

\* ProvisionUserResources, one transaction, and StorePublicKeys.
Provision(r, what) ==
    /\ At(r, <<"insert", what>>)
    /\ ProceedsIf(r, user.there)
    /\ user' = IF user.there THEN [user EXCEPT ![what] = TRUE] ELSE user
    /\ UNCHANGED <<sessions, mfa, tokens, failures, running>>

\* UpdatePasswordHash and SetEmailVerified find no row of a deleted account.
UpdatePasswordHash(r) ==
    /\ At(r, <<"set", "password">>)
    /\ ProceedsIf(r, user.there)
    /\ user' = IF user.there THEN [user EXCEPT !.password = request[r].new] ELSE user
    /\ UNCHANGED <<sessions, mfa, tokens, failures, running>>

SetEmailVerified(r) ==
    /\ At(r, <<"set", "verified">>)
    /\ ProceedsIf(r, user.there \/ request[r].kind = "adminVerify")
    /\ user' = IF user.there THEN [user EXCEPT !.verified = TRUE] ELSE user
    /\ UNCHANGED <<sessions, mfa, tokens, failures, running>>

\* SetSuspended and SetMFAEnforced, which do not ask for a row.
SetFlag(r) ==
    /\ \/ At(r, <<"set", "suspended">>)   /\ user' = [user EXCEPT !.suspended = user.there]
       \/ At(r, <<"clear", "suspended">>) /\ user' = [user EXCEPT !.suspended = FALSE]
       \/ At(r, <<"set", "enforced">>)    /\ user' = [user EXCEPT !.enforced = user.there]
       \/ At(r, <<"clear", "enforced">>)  /\ user' = [user EXCEPT !.enforced = FALSE]
    /\ Proceeds(r)
    /\ UNCHANGED <<sessions, mfa, tokens, failures, running>>

\* DELETE cascades to every table of the account.
DeleteUser(r) ==
    /\ At(r, <<"delete", "user">>)
    /\ ProceedsIf(r, user.there)
    /\ user' = NoAccount
    /\ sessions' = {}
    /\ mfa' = [secret |-> NoSecret, enabled |-> FALSE]
    /\ tokens' = [t \in Tables |-> {}]
    /\ UNCHANGED <<failures, running>>

-----------------------------------------------------------------------------
(* Statements on sessions                                                  *)

\* The foreign key refuses a session of a deleted account.
CreateSession(r) ==
    /\ At(r, <<"insert", "session">>)
    /\ ProceedsIf(r, user.there)
    /\ sessions' = IF user.there THEN sessions \cup {r} ELSE sessions
    /\ UNCHANGED <<user, mfa, tokens, failures, running>>

\* DeleteSession and RevokeSession.
DeleteSession(r) ==
    /\ \/ At(r, <<"delete", "session">>) /\ sessions' = sessions \ {request[r].uses} /\ Proceeds(r)
       \/ /\ At(r, <<"delete", "one">>)
          /\ sessions' = sessions \ {request[r].code}
          /\ ProceedsIf(r, request[r].code \in sessions)
    /\ UNCHANGED <<user, mfa, tokens, failures, running>>

\* Mutant: DeleteOtherSessions deletes the session of the token it should keep.
DeleteSessionsOwn(r) ==
    /\ \/ At(r, <<"delete", "sessions">>) /\ sessions' = {}
       \/ At(r, <<"delete", "others">>)   /\ sessions' = sessions \ {request[r].uses}
    /\ running' = Begun \ Ended
    /\ Proceeds(r)
    /\ UNCHANGED <<user, mfa, tokens, failures>>

\* DeleteUserSessions and DeleteOtherSessions.
DeleteSessions(r) ==
    /\ \/ At(r, <<"delete", "sessions">>) /\ sessions' = {}
       \/ At(r, <<"delete", "others">>)   /\ sessions' = sessions \cap {request[r].uses}
    /\ running' = Begun \ Ended
    /\ Proceeds(r)
    /\ UNCHANGED <<user, mfa, tokens, failures>>

-----------------------------------------------------------------------------
(* Statements on the second factor                                         *)

\* A new secret is not enabled.
UpsertMFASecret(r) ==
    /\ At(r, <<"upsert", "mfa">>)
    /\ ProceedsIf(r, user.there)
    /\ mfa' = IF user.there THEN [secret |-> r, enabled |-> FALSE] ELSE mfa
    /\ UNCHANGED <<user, sessions, tokens, failures, running>>

\* The secret that is there is enabled, whichever was validated.
EnableMFA(r) ==
    /\ At(r, <<"enable", "mfa">>)
    /\ ProceedsIf(r, mfa.secret # NoSecret)
    /\ mfa' = [mfa EXCEPT !.enabled = mfa.secret # NoSecret]
    /\ UNCHANGED <<user, sessions, tokens, failures, running>>

DisableMFA(r) ==
    /\ At(r, <<"delete", "mfa">>)
    /\ Proceeds(r)
    /\ mfa' = [secret |-> NoSecret, enabled |-> FALSE]
    /\ UNCHANGED <<user, sessions, tokens, failures, running>>

-----------------------------------------------------------------------------
(* Statements on tokens and recovery keys                                  *)

\* Mutant: the rows of the account stay.
ClearNothing(r, table) ==
    /\ At(r, <<"clear", table>>)
    /\ Proceeds(r)
    /\ UNCHANGED <<user, sessions, mfa, tokens, failures, running>>

\* StoreRecoveryKey, CreateEmailVerificationToken, CreatePasswordResetToken and
\* CreateMFALoginChallenge: the rows of the account go, then the new one comes.
Clear(r, table) ==
    /\ At(r, <<"clear", table>>)
    /\ Proceeds(r)
    /\ tokens' = [tokens EXCEPT ![table] = {}]
    /\ UNCHANGED <<user, sessions, mfa, failures, running>>

\* The results of the registration's two inserts, and of forgot's, are not looked at.
InsertIgnored(r, table) == request[r].kind \in {"register", "forgot"}

InsertRow(r, table) ==
    /\ At(r, <<"insert", table>>)
    /\ ProceedsIf(r, user.there \/ InsertIgnored(r, table))
    /\ tokens' = IF user.there THEN [tokens EXCEPT ![table] = @ \cup {r}] ELSE tokens
    /\ UNCHANGED <<user, sessions, mfa, failures, running>>

\* DELETE ... RETURNING: the row is found and removed by one statement.
Consume(r, table) ==
    /\ At(r, <<"consume", table>>)
    /\ ProceedsIf(r, request[r].uses \in tokens[table])
    /\ tokens' = [tokens EXCEPT ![table] = @ \ {request[r].uses}]
    /\ UNCHANGED <<user, sessions, mfa, failures, running>>

-----------------------------------------------------------------------------
(* Failures                                                                *)

\* Errors that a handler does not look at.
Unchecked(r) ==
    \/ Statement(r) \in {<<"delete", "others">>, <<"clear", "recovery">>, <<"delete", "session">>}
    \/ Statement(r) = <<"delete", "sessions">> /\ request[r].kind \in {"resetPassword", "suspend"}
    \/ Statement(r)[1] = "insert" /\ Statement(r)[2] \in Tables /\ InsertIgnored(r, Statement(r)[2])

\* A failed DELETE of CreateEmailVerificationToken or CreatePasswordResetToken ends
\* that call, whose error is not looked at.
EndsCall(r) == Statement(r) \in {<<"clear", "verification">>, <<"clear", "reset">>}

\* A statement fails.
Fails(r) ==
    /\ failures < MaxFailures
    /\ ~Over(r)
    /\ failures' = failures + 1
    /\ CASE Unchecked(r)                  -> Proceeds(r)
         [] EndsCall(r)                   -> GoesOn(r, Tail(Tail(request[r].todo)))
         [] At(r, <<"enabled", "mfa">>)   -> SecondFactor(r, FALSE)
         [] OTHER                         -> Refused(r)
    /\ UNCHANGED <<user, sessions, mfa, tokens, running>>

\* The process stops, and with it every request that is under way.
ServiceStops ==
    /\ failures < MaxFailures
    /\ Begun # Ended
    /\ failures' = failures + 1
    /\ request' = [r \in Begun |-> [request[r] EXCEPT !.todo = <<>>]]
    /\ UNCHANGED <<user, sessions, mfa, tokens, running>>

-----------------------------------------------------------------------------
AuthNext ==
    \/ Len(request) < MaxRequests /\ ~Entering /\ \E kind \in Kinds : Begin(kind)
    \/ ServiceStops
    \/ \E r \in Begun \ Ended :
         /\ Moves(r)
         /\ \/ Select(r) \/ IsMFAEnabled(r)
            \/ CreateUserWithPassword(r) \/ Provision(r, "resources") \/ Provision(r, "keys")
            \/ UpdatePasswordHash(r) \/ SetEmailVerified(r) \/ SetFlag(r) \/ DeleteUser(r)
            \/ CreateSession(r) \/ DeleteSession(r) \/ DeleteSessions(r)
            \/ UpsertMFASecret(r) \/ EnableMFA(r) \/ DisableMFA(r)
            \/ \E table \in Tables \cap {Statement(r)[2]} :
                 Clear(r, table) \/ InsertRow(r, table) \/ Consume(r, table)
            \/ Fails(r)

AuthSpec == AuthInit /\ [][AuthNext]_authVars

-----------------------------------------------------------------------------
(* Properties                                                              *)

Accounts ==
    [there : BOOLEAN, password : Passwords, suspended : BOOLEAN, enforced : BOOLEAN,
     verified : BOOLEAN, resources : BOOLEAN, keys : BOOLEAN]
Factors == [secret : Numbers \cup {NoSecret}, enabled : BOOLEAN]

AuthTypeOK ==
    /\ user \in Accounts
    /\ sessions \subseteq Numbers
    /\ mfa \in Factors
    /\ mfa.enabled => mfa.secret # NoSecret
    /\ tokens \in [Tables -> SUBSET Numbers]
    /\ ~user.there => sessions = {} /\ mfa.secret = NoSecret /\ \A t \in Tables : tokens[t] = {}
    /\ \A r \in Begun :
         /\ request[r].kind \in Kinds
         /\ request[r].ok => Over(r)
         /\ request[r].past \subseteq 1..(r - 1)
    /\ failures \in 0..MaxFailures
    /\ running \subseteq Begun

-----------------------------------------------------------------------------
Under(kinds, statement) == {r \in Begun : request[r].kind \in kinds /\ At(r, statement)}

\* The password a session was begun with, and the sessions that a change kept.
BegunWith(s) == IF s = 0 THEN FirstPassword ELSE request[s].typed
KeptByChange == {request[c].uses : c \in Given({"changePassword"})}
ByPassword   == {s \in sessions : s = 0 \/ request[s].kind \in {"register", "login"}}

\* When the password was changed or reset and the sessions are deleted, those begun
\* with another one are gone, but for the one that changed it, and for sign-ins that
\* were under way at the deletion.
OldPasswordsOut ==
    \/ Under({"resetPassword"}, <<"delete", "sessions">>) # {}
    \/ Under({"changePassword"}, <<"delete", "others">>) # {}
    \/ \A s \in ByPassword : BegunWith(s) # user.password => s \in running \cup KeptByChange

\* A suspended account has no session, but for those of sign-ins that were under way
\* when the suspension deleted them, of challenges and of resets, which do not ask.
SuspendedOut ==
    user.suspended /\ Under({"suspend"}, <<"delete", "sessions">>) = {} => ByPassword \subseteq running

\* Unless a statement fails, a suspension and a new password end what was there.
SignInsEnd == failures = 0 => OldPasswordsOut /\ SuspendedOut

-----------------------------------------------------------------------------
\* The second factor that is asked for was confirmed with a code of its secret, or a
\* verification and the setup that made the secret overlapped.
EnabledWasConfirmed ==
    mfa.enabled /\ mfa.secret # 0 =>
        \E v \in Given({"mfaVerify"}) :
            \/ request[v].code = mfa.secret
            \/ v \notin request[mfa.secret].past /\ mfa.secret \notin request[v].past

\* The requests that enabled the factor that is there, 0 if it was there at first.
Enablers == {v \in Given({"mfaVerify"}) : request[v].code = mfa.secret}

\* A password alone makes no session once the factor is enabled, or demanded of the
\* account, whatever else is asked of it meanwhile.
PasswordNeedsFactor ==
    \A s \in ByPassword \ {0} : request[s].kind = "login" =>
        /\ failures = 0 => mfa.secret # 0 /\ Enablers \cap request[s].past = {}
        /\ Given({"relax"}) = {} => Given({"enforce"}) \cap request[s].past = {}

SecondFactorHolds == EnabledWasConfirmed /\ PasswordNeedsFactor

\* Every session is one its account is entitled to: what was changed, reset or suspended
\* has ended it, and a second factor that is on, or demanded, was asked for.
SessionsAreEntitled == SignInsEnd /\ SecondFactorHolds

-----------------------------------------------------------------------------
\* Two rows of one kind are there only if the requests that made them overlapped.
NewReplacesOld ==
    failures = 0 =>
        \A t \in Tables : \A a, b \in tokens[t] : a < b => a # 0 /\ a \notin request[b].past

\* A token is good for one request, however many come with it at once.
TokensWorkOnce ==
    \A a, b \in Given({"loginMFA", "verifyEmail", "resetPassword"}) :
        a # b /\ request[a].kind = request[b].kind => request[a].uses # request[b].uses

KeyMakers == {r \in Begun : request[r].kind \in {"register", "recoveryKey"}}

\* The recovery key shown last is the one that is stored, if no request for another
\* one overlapped.
ShownKeyIsStored ==
    user.there /\ failures = 0 =>
        \A r \in Given({"register", "recoveryKey"}) :
            KeyMakers \subseteq request[r].past \cup {r} => r \in tokens["recovery"]

\* One request registers an account, and what the other services need is there when
\* it is answered.
RegisteredIsWhole ==
    /\ Cardinality(Given({"register"})) <= 1
    /\ user.there /\ Given({"register"}) # {} => user.resources /\ user.keys

\* What the service answered holds.
AnswersHold == NewReplacesOld /\ TokensWorkOnce /\ ShownKeyIsStored /\ RegisteredIsWhole

-----------------------------------------------------------------------------
(* The inductive invariants behind SessionsAreEntitled and AnswersHold      *)
(* (proved in AuthService_proofs).                                           *)

Verbs ==
    {"absent", "authorize", "clear", "code", "consume", "credentials", "delete", "enable", "enabled",
     "exists", "insert", "optional", "set", "upsert", "validate", "verify"}
Things ==
    Tables \cup {"enforced", "keys", "mfa", "one", "others", "password", "resources", "session",
                 "sessions", "suspended", "user", "verified"}
Statements == Verbs \X Things

RequestRecords ==
    [kind : Kinds, todo : Seq(Statements), ok : BOOLEAN, uses : Numbers, code : Numbers,
     typed : Passwords, new : Passwords, enforced : BOOLEAN, factor : BOOLEAN, past : SUBSET Numbers]

\* The statements a request is about to make are the rest of a script.
Script(r) == IF request[r].factor THEN Replace("challenge") ELSE Program[request[r].kind]
Rest(script, i) == SubSeq(script, i, Len(script))

\* What a request carries was made by requests that had ended when it began.
RequestsOK ==
    /\ request \in Seq(RequestRecords) /\ Len(request) <= MaxRequests
    /\ \A r \in Begun :
         /\ \E i \in 1..Len(Script(r)) + 1 : request[r].todo = Rest(Script(r), i)
         /\ request[r].factor => request[r].kind = "login"
         /\ request[r].ok => Over(r)
         /\ request[r].past \cup ({request[r].uses, request[r].code} \ {0})
               \subseteq {q \in 1..(r - 1) : Over(q)}
         /\ request[r].kind = "register" =>
               request[r].typed = FirstPassword /\ request[r].new = FirstPassword

MadeBegun ==
    /\ sessions \subseteq {0} \cup Begun
    /\ mfa.secret \in {0, NoSecret} \cup Begun
    /\ \A t \in Tables : tokens[t] \subseteq {0} \cup Begun

\* r was not refused, and its next statement is none of those given.
Beyond(r, statements) == request[r].ok \/ (~Over(r) /\ Statement(r) \notin statements)

\* The account was there, or has been deleted since; it does not come again, and one
\* registration at most has made it.
Existed == user.there \/ Given({"deleteAccount"}) # {}

Registers(r, statements) == r \in Begun /\ request[r].kind = "register" /\ Beyond(r, statements)
Inserting == {<<"absent", "user">>, <<"insert", "user">>}
Provisioning(what) == Inserting \cup {<<"insert", "resources">>, <<"insert", what>>}

AccountOK ==
    /\ Given({"deleteAccount"}) # {} => ~user.there
    /\ \A r \in Begun : request[r].kind # "register" \/ Registers(r, Inserting) => Existed
    /\ \A r, q \in Begun : Registers(r, Inserting) /\ Registers(q, Inserting) => r = q
    /\ \A r, d \in Begun : request[r].kind = "register" /\ request[d].kind = "deleteAccount" =>
          Over(r) \/ (user.there /\ r = Len(request) /\ Entering)
    /\ user.there =>
          \A r \in Begun, what \in {"resources", "keys"} :
              Registers(r, Provisioning(what)) => user[what]

\* A token that was consumed is gone, and was consumed once.
Consuming == [loginMFA |-> "challenge", verifyEmail |-> "verification", resetPassword |-> "reset"]
Consumed(r) ==
    /\ r \in Begun /\ request[r].kind \in DOMAIN Consuming
    /\ Beyond(r, {<<"consume", Consuming[request[r].kind]>>})

TokensOK ==
    \A r \in Begun : Consumed(r) =>
        /\ request[r].uses \notin tokens[Consuming[request[r].kind]]
        /\ \A q \in Begun : Consumed(q) /\ q # r /\ request[q].kind = request[r].kind =>
              request[q].uses # request[r].uses

\* A request that is to insert a row, or has, has removed those of the requests before it.
Replaces(t) == {r \in Begun : At(r, <<"insert", t>>)} \cup (tokens[t] \ {0})
RowsOK ==
    failures = 0 =>
        \A t \in Tables : \A b \in Replaces(t), a \in tokens[t] :
            a # b => a # 0 /\ a \notin request[b].past

\* A recovery key that was inserted is there until another request removes it.
BeforeTheKey ==
    Inserting \cup {<<"insert", "resources">>, <<"insert", "keys">>, <<"validate", "session">>,
                    <<"authorize", "user">>, <<"clear", "recovery">>, <<"insert", "recovery">>}
KeyOK ==
    user.there /\ failures = 0 =>
        \A r \in KeyMakers :
            Beyond(r, BeforeTheKey) /\ KeyMakers \subseteq request[r].past \cup {r} =>
                r \in tokens["recovery"]

\* Sign-ins that have looked at the password, and are about to make a session.
SigningIn ==
    {r \in Begun :
        /\ ~Over(r)
        /\ \/ request[r].kind = "login" /\ Statement(r) # <<"credentials", "user">>
           \/ request[r].kind = "register" /\ Statement(r) \notin Inserting}

PasswordOK ==
    user.there /\ failures = 0 =>
        \/ Under({"resetPassword"}, <<"delete", "sessions">>) # {}
        \/ Under({"changePassword"}, <<"delete", "others">>) # {}
        \/ \A s \in ByPassword \cup SigningIn :
              BegunWith(s) # user.password => s \in running \cup KeptByChange

\* While an account is suspended no change of its password keeps a session.
Changing ==
    {r \in Begun : request[r].kind = "changePassword" /\ ~Over(r) /\
                   Statement(r) \notin {<<"validate", "session">>, <<"authorize", "user">>}}

SuspensionOK ==
    user.there /\ failures = 0 /\ user.suspended =>
        \/ Under({"suspend"}, <<"delete", "sessions">>) # {}
        \/ /\ ByPassword \cup SigningIn \subseteq running
           /\ \A r \in Changing : request[r].uses \notin sessions

\* The secret that is about to be enabled was confirmed or made meanwhile, one that was
\* confirmed and is there is enabled.
SecretOK ==
    /\ \A v \in Begun : At(v, <<"enable", "mfa">>) /\ mfa.secret \in Begun =>
          request[v].code = mfa.secret \/ mfa.secret \notin request[v].past
    /\ \A v \in Given({"mfaVerify"}) : request[v].code = mfa.secret => mfa.enabled
    /\ mfa.secret = 0 => mfa.enabled

\* Logins that need no second factor any more.
LoggingIn ==
    {s \in Begun : request[s].kind = "login" /\ (At(s, <<"insert", "session">>) \/ s \in sessions)}

FactorOK ==
    /\ failures = 0 =>
          \A s \in LoggingIn : mfa.secret # 0 /\ Enablers \cap request[s].past = {}
    /\ user.there /\ Given({"relax"}) = {} /\ Given({"enforce"}) # {} => user.enforced
    /\ Given({"relax"}) = {} =>
          /\ \A s \in Begun : At(s, <<"enabled", "mfa">>) /\ ~request[s].enforced =>
                Given({"enforce"}) \cap request[s].past = {}
          /\ \A s \in LoggingIn : Given({"enforce"}) \cap request[s].past = {}

AuthInv ==
    /\ AuthTypeOK /\ RequestsOK /\ MadeBegun /\ AccountOK /\ TokensOK /\ RowsOK /\ KeyOK
    /\ PasswordOK /\ SuspensionOK /\ SecretOK /\ EnabledWasConfirmed /\ FactorOK
=============================================================================
