------------------------------ MODULE AccountsApp ------------------------------
(* The accounts application (apps/accounts) in one browser: signing up, in and *)
(* out, the second factor, the recovery key, the profile, the password, and    *)
(* the links of mails that verify an address or reset a password. What the     *)
(* page believes (the user of the store) and what the browser holds (the       *)
(* cookie, the encrypted keys of its local storage) change at different times, *)
(* and the answers of requests come in any order.                              *)
(*                                                                             *)
(* Names, addresses and texts are left out, and so is the returnTo of a        *)
(* sign-in, which leaves the application. A password is the number of times it *)
(* was changed; a key and a recovery key are the number of the click that made *)
(* them. Of the server (services/auth) it matters what a request changes.      *)
EXTENDS Naturals, FiniteSets

CONSTANTS
    Accounts,        \* accounts that may be registered
    Nobody,          \* no account
    MaxCalls,        \* bound: requests under way when the user asks for more
    MaxClicks        \* bound: actions of the user

ASSUME AccountsAssumption == Nobody \notin Accounts /\ MaxCalls \in Nat /\ MaxClicks \in Nat

VARIABLES
    accts,           \* the server: account -> [there, key, recovery, mfa, pwd]
    challenge,       \* the server: the accounts with a challenge for a second factor
    cookie,          \* the account of the session of the browser
    link,            \* the verification link of an account: "none", "sent", "used"
    resets,          \* the accounts with a reset link that was not used
    vault,           \* local storage: the encrypted keys, [who, key, pwd]
    user,            \* the store: the user, [who, mfa]
    hydrated, loading, recoveryKey,
    route,           \* the page that is shown
    mfaFor,          \* the account whose second factor the form asks for
    verifyState,     \* the page of the verification link
    calls,           \* requests under way
    clicks,
    userOff,         \* the user may not be that of the session (history)
    keyOff,          \* the recovery key may not be the current one (history)
    vaultOff         \* the stored keys may not be those of the user (history)

accountVars == <<accts, challenge, cookie, link, resets, vault, user, hydrated, loading,
                 recoveryKey, route, mfaFor, verifyState, calls, clicks, userOff,
                 keyOff, vaultOff>>

authVars    == <<accts, challenge, cookie, link, resets>>
historyVars == <<userOff, keyOff, vaultOff>>

NoUser    == [who |-> Nobody, mfa |-> FALSE]
NoVault   == [who |-> Nobody, key |-> 0, pwd |-> 0]
NoAccount == [there |-> FALSE, key |-> 0, recovery |-> 0, mfa |-> FALSE, pwd |-> 0]

Protected == {"recovery-key", "settings"}      \* the routes in RequireAuth
Pages     == Protected \cup {"sign-in", "sign-up", "forgot", "verify", "reset"}

\* A request: what is asked for whom, the user its handler closed over, the number
\* of its click, and what the server has answered.
CallOf(kind, who, inUse) ==
    [n |-> CHOOSE k \in 1 .. Cardinality(inUse) + 1 : \A c \in inUse : c.n # k,
     kind |-> kind, who |-> who, click |-> clicks', closed |-> user,
     answer |-> "none", got |-> NoUser]

InitialCalls(p) ==
    IF p \in Protected \cup {"sign-in"}
    THEN {[n |-> 1, kind |-> "session", who |-> Nobody, click |-> 0, closed |-> NoUser,
           answer |-> "none", got |-> NoUser]}
    ELSE {}

AccountsInit ==
    /\ \E old \in Accounts \cup {Nobody}, mfa \in BOOLEAN :
          accts = [a \in Accounts |->
                     IF a = old THEN [NoAccount EXCEPT !.there = TRUE, !.mfa = mfa]
                     ELSE NoAccount]
    /\ challenge = {} /\ cookie = Nobody
    /\ link = [a \in Accounts |-> "none"] /\ resets = {} /\ vault = NoVault
    /\ user = NoUser /\ hydrated = FALSE /\ loading = FALSE /\ recoveryKey = 0
    /\ route \in {"sign-in", "sign-up", "settings"} /\ calls = InitialCalls(route)
    /\ mfaFor = Nobody /\ verifyState = "verifying" /\ clicks = 0
    /\ userOff = FALSE /\ keyOff = FALSE /\ vaultOff = FALSE

-------------------------------------------------------------------------------
(* Routes.                                                                     *)

\* The routes redirect: RequireAuth to the sign-in page without a user, that page
\* to the settings with one, and the page of the recovery key without a key. The
\* sign-in page asks for the session when it is mounted, RequireAuth when nobody
\* has. "rest" are the requests under way.
ShowPage(p, rest) ==
    LET signIn == p = "sign-in" \/ (p \in Protected /\ hydrated' /\ user' = NoUser)
        asks   == (signIn /\ route # "sign-in")
                     \/ (p \in Protected /\ route \notin Protected /\ ~hydrated')
    IN  /\ route' = CASE signIn /\ hydrated' /\ user' # NoUser       -> "settings"
                     [] signIn                                      -> "sign-in"
                     [] p = "recovery-key" /\ hydrated' /\ recoveryKey' = 0 -> "settings"
                     [] OTHER                                       -> p
        /\ calls' = IF asks THEN rest \cup {CallOf("session", Nobody, rest)} ELSE rest
        /\ mfaFor' = IF route' # "sign-in" THEN Nobody ELSE mfaFor

Click == /\ clicks < MaxClicks /\ clicks' = clicks + 1
         /\ Cardinality(calls) < MaxCalls

\* A link to another page.
Visit(p) ==
    /\ Click /\ p # route /\ p \in {"sign-in", "sign-up", "forgot", "settings"}
    /\ UNCHANGED <<authVars, vault, user, hydrated, loading, recoveryKey, verifyState,
                   historyVars>>
    /\ ShowPage(p, calls)

\* The page is loaded again, or a link of a mail is opened: the store is empty.
Open(p) ==
    /\ Click
    /\ p \in {"sign-in", "sign-up", "settings", "verify", "reset"}
    /\ p = "verify" => \E a \in Accounts : accts[a].there
    /\ p = "reset" => resets # {}
    /\ user' = NoUser /\ hydrated' = FALSE /\ loading' = FALSE /\ recoveryKey' = 0
    /\ route' = p /\ mfaFor' = Nobody /\ verifyState' = "verifying"
    /\ userOff' = FALSE /\ keyOff' = FALSE
    /\ \E a \in Accounts :
          calls' = IF p = "verify"
                   THEN {[CallOf("verify", a, {}) EXCEPT !.closed = NoUser]}
                   ELSE InitialCalls(p)
    /\ UNCHANGED <<authVars, vault, vaultOff>>

-------------------------------------------------------------------------------
(* What the user asks for.                                                     *)

Ask(kind, who) ==
    /\ calls' = calls \cup {CallOf(kind, who, calls)}
    /\ UNCHANGED <<authVars, user, hydrated, recoveryKey, route, mfaFor, verifyState,
                   historyVars>>

\* The forms of the sign-in and the sign-up page, while none is submitted.
SignInForm == route = "sign-in" /\ hydrated /\ ~loading
SignUpForm == route = "sign-up" /\ ~loading

\* Signing in with a password, with a passkey, or with the code the form asks for.
SignIn(who, kind) ==
    /\ Click /\ SignInForm
    /\ CASE kind \in {"login", "passkey"} -> mfaFor = Nobody
         [] kind = "code"                 -> mfaFor = who
    /\ loading' = TRUE
    /\ Ask(kind, who)
    /\ UNCHANGED vault

\* Signing up stores the new keys before the account exists.
SignUp(who) ==
    /\ Click /\ SignUpForm
    /\ loading' = TRUE
    /\ vault' = [who |-> who, key |-> clicks', pwd |-> 0]
    /\ vaultOff' = TRUE
    /\ calls' = calls \cup {CallOf("register", who, calls)}
    /\ UNCHANGED <<authVars, user, hydrated, recoveryKey, route, mfaFor, verifyState,
                   userOff, keyOff>>

\* The settings: each button is disabled while its request is under way.
ChangeSetting(kind) ==
    /\ Click /\ route = "settings" /\ user # NoUser
    /\ \A c \in calls : c.kind # kind
    /\ Ask(kind, user.who)
    /\ UNCHANGED <<vault, loading>>

SignOut        == ChangeSetting("logout")
SaveProfile    == ChangeSetting("profile")
DeleteAccount  == ChangeSetting("delete")
RegenerateKey  == ChangeSetting("regenerate")
VerifyMfa      == ~user.mfa /\ ChangeSetting("mfaOn")
DisableMfa     == user.mfa /\ ChangeSetting("mfaOff")
ChangePassword == ChangeSetting("password")
RevokeSession  == ChangeSetting("revoke")

\* The page that asks for a reset link, and the page of the link.
ForgotPassword(who) ==
    /\ Click /\ route = "forgot"
    /\ \A c \in calls : c.kind # "forgot"
    /\ Ask("forgot", who)
    /\ UNCHANGED <<vault, loading>>

ResetPassword(who) ==
    /\ Click /\ route = "reset" /\ who \in resets
    /\ \A c \in calls : c.kind # "reset"
    /\ Ask("reset", who)
    /\ UNCHANGED <<vault, loading>>

-------------------------------------------------------------------------------
(* What the server does.                                                       *)

\* Requests whose answer sets the user from what they have seen already.
Stale(c) == \E d \in calls \ {c} :
               \/ d.kind \in {"session", "logout"} /\ d.answer # "none"
               \/ d.kind \in {"login", "passkey", "code", "register"} /\ d.answer = "ok"
               \/ d.kind \in {"profile", "mfaOn", "mfaOff"}

AccountOf(a) == [who |-> a, mfa |-> IF a = Nobody THEN FALSE ELSE accts[a].mfa]

\* What request c changes, if the server can do it; "got" is what it answers.
Effect(c) ==
    CASE c.kind = "session" ->
            cookie # Nobody /\ UNCHANGED authVars
      [] c.kind \in {"login", "passkey"} ->
            /\ accts[c.who].there
            /\ IF accts[c.who].mfa
               THEN challenge' = challenge \cup {c.who} /\ UNCHANGED cookie
               ELSE cookie' = c.who /\ UNCHANGED challenge
            /\ UNCHANGED <<accts, link, resets>>
      [] c.kind = "code" ->
            /\ c.who \in challenge /\ accts[c.who].mfa
            /\ cookie' = c.who /\ challenge' = challenge \ {c.who}
            /\ UNCHANGED <<accts, link, resets>>
      [] c.kind = "register" ->
            /\ ~accts[c.who].there
            /\ accts' = [accts EXCEPT ![c.who] =
                  [NoAccount EXCEPT !.there = TRUE, !.key = c.click, !.recovery = c.click]]
            /\ link' = [link EXCEPT ![c.who] = "sent"]
            /\ cookie' = c.who /\ UNCHANGED <<challenge, resets>>
      [] c.kind = "logout" ->
            cookie' = Nobody /\ UNCHANGED <<accts, challenge, link, resets>>
      [] c.kind = "verify" ->
            /\ link[c.who] = "sent"
            /\ link' = [link EXCEPT ![c.who] = "used"]
            /\ UNCHANGED <<accts, challenge, cookie, resets>>
      [] c.kind = "forgot" ->
            /\ resets' = IF accts[c.who].there THEN resets \cup {c.who} ELSE resets
            /\ UNCHANGED <<accts, challenge, cookie, link>>
      [] c.kind = "reset" ->
            /\ c.who \in resets
            /\ accts' = [accts EXCEPT ![c.who].pwd = @ + 1]
            /\ resets' = resets \ {c.who}
            /\ cookie' = c.who /\ UNCHANGED <<challenge, link>>
      [] OTHER ->
            /\ cookie # Nobody
            /\ CASE c.kind = "delete"     -> accts' = [accts EXCEPT ![cookie] = NoAccount]
                 [] c.kind = "regenerate" ->
                        accts' = [accts EXCEPT ![cookie].recovery = c.click]
                 [] c.kind = "mfaOn"      -> accts' = [accts EXCEPT ![cookie].mfa = TRUE]
                 [] c.kind = "mfaOff"     -> accts' = [accts EXCEPT ![cookie].mfa = FALSE]
                 [] c.kind = "password"   -> accts' = [accts EXCEPT ![cookie].pwd = @ + 1]
                 [] OTHER                 -> UNCHANGED accts
            /\ cookie' = IF c.kind \in {"delete", "revoke"} THEN Nobody ELSE cookie
            /\ challenge' = IF c.kind = "delete" THEN challenge \ {cookie} ELSE challenge
            /\ link' = IF c.kind = "delete" THEN [link EXCEPT ![cookie] = "none"] ELSE link
            /\ resets' = IF c.kind = "delete" THEN resets \ {cookie} ELSE resets

\* What the answer of the server says of the account.
Seen(c) == CASE c.kind = "session" -> AccountOf(cookie)
             [] c.kind \in {"login", "passkey"} -> [who |-> c.who, mfa |-> accts[c.who].mfa]
             [] OTHER -> NoUser

NewKeyOnItsWay == \E d \in calls : d.kind = "regenerate" /\ d.answer = "ok"

\* Request c reaches the server; its answer is on the way, or is lost.
Served(c, lost) ==
    /\ c.answer = "none"
    /\ Effect(c)
    /\ calls' = (calls \ {c}) \cup
          {[c EXCEPT !.answer = IF lost THEN "error" ELSE "ok", !.got = Seen(c)]}
    /\ userOff' = (userOff \/ lost \/ c.kind = "revoke"
                     \/ (c.kind = "reset" /\ route = "sign-in")
                     \/ (c.kind \in {"mfaOn", "mfaOff"} /\ cookie # c.who)
                     \/ ((cookie' # cookie \/ accts' # accts) /\ Stale(c)))
    /\ keyOff' = (keyOff \/ (recoveryKey # 0 /\ c.kind = "reset")
                    \/ (c.kind = "regenerate" /\ cookie # c.who)
                    \/ (cookie' # cookie /\ NewKeyOnItsWay)
                    \/ (cookie' # cookie /\ recoveryKey # 0
                          /\ c.kind \in {"login", "passkey", "code"}))
    /\ vaultOff' = IF c.kind = "register" THEN vault.key # c.click
                   ELSE \/ vaultOff \/ c.kind \in {"password", "reset"}
                        \/ vault # NoVault /\ cookie' \notin {Nobody, vault.who}
    /\ UNCHANGED <<vault, user, hydrated, loading, recoveryKey, route, mfaFor,
                   verifyState, clicks>>

\* It is refused, or never arrives. A wrong code uses the challenge up.
CallRefused(c) ==
    /\ c.answer = "none"
    /\ challenge' = IF c.kind = "code" THEN challenge \ {c.who} ELSE challenge
    /\ calls' = (calls \ {c}) \cup {[c EXCEPT !.answer = "error"]}
    /\ userOff' = (userOff \/ (c.kind = "session" /\ cookie # Nobody)
                     \/ (c.kind = "logout" /\ cookie # Nobody))
    /\ keyOff' = (keyOff \/ (c.kind = "session" /\ recoveryKey # 0))
    /\ UNCHANGED <<accts, cookie, link, resets, vault, user, hydrated, loading,
                   recoveryKey, route, mfaFor, verifyState, clicks, vaultOff>>

\* A session that ends on the server, or in another tab.
SessionEnds ==
    /\ Click /\ cookie # Nobody
    /\ cookie' = Nobody
    /\ userOff' = TRUE
    /\ UNCHANGED <<accts, challenge, link, resets, vault, user, hydrated, loading,
                   recoveryKey, route, mfaFor, verifyState, calls, keyOff, vaultOff>>

-------------------------------------------------------------------------------
(* The answers.                                                                *)

Done(c, p) ==
    /\ UNCHANGED <<authVars, clicks>>
    /\ ShowPage(p, calls \ {c})

\* The store keeps the account of the session, or nobody: the recovery key stays.
SessionAnswered(c) ==
    /\ c.kind = "session" /\ c.answer # "none"
    /\ user' = IF c.answer = "ok" THEN c.got ELSE NoUser
    /\ hydrated' = TRUE
    /\ UNCHANGED <<vault, loading, recoveryKey, verifyState, historyVars>>
    /\ Done(c, route)

\* Signing in, unless the account has a second factor: then the form asks for the
\* code, and keeps asking when the code was refused.
SignedIn(c) ==
    /\ c.answer # "none"
    /\ loading' = FALSE
    /\ UNCHANGED <<vault, hydrated, recoveryKey, verifyState, historyVars>>
    /\ IF c.answer = "ok" /\ ~c.got.mfa
       THEN /\ user' = [who |-> c.who, mfa |-> c.kind = "code"]
            /\ Done(c, "settings")
       ELSE /\ UNCHANGED <<user, authVars, clicks, route>>
            /\ calls' = calls \ {c}
            /\ mfaFor' = IF c.answer = "ok" /\ route = "sign-in" THEN c.who ELSE mfaFor

SignInAnswered(c)  == c.kind \in {"login", "code"} /\ SignedIn(c)
PasskeyAnswered(c) == c.kind = "passkey" /\ SignedIn(c)

\* The new account: its recovery key is shown, once.
SignUpAnswered(c) ==
    /\ c.kind = "register" /\ c.answer # "none"
    /\ loading' = FALSE
    /\ UNCHANGED <<vault, hydrated, verifyState, historyVars>>
    /\ IF c.answer = "ok"
       THEN /\ user' = [who |-> c.who, mfa |-> FALSE]
            /\ recoveryKey' = c.click
            /\ Done(c, "recovery-key")
       ELSE /\ UNCHANGED <<user, recoveryKey, authVars, clicks, route, mfaFor>>
            /\ calls' = calls \ {c}

\* Signing out forgets everything, even when the request failed; the page follows
\* the user. A deleted account is signed out next.
SignOutAnswered(c) ==
    /\ c.kind = "logout" /\ c.answer # "none"
    /\ vault' = NoVault /\ user' = NoUser /\ recoveryKey' = 0
    /\ UNCHANGED <<hydrated, loading, verifyState, userOff>>
    /\ keyOff' = NewKeyOnItsWay /\ vaultOff' = FALSE
    /\ Done(c, IF c.answer = "ok" THEN "sign-in" ELSE route)

AccountDeleteAnswered(c) ==
    /\ c.kind = "delete" /\ c.answer # "none"
    /\ calls' = (calls \ {c}) \cup
          (IF c.answer = "ok" THEN {[c EXCEPT !.kind = "logout", !.answer = "none"]} ELSE {})
    /\ UNCHANGED <<authVars, vault, user, hydrated, loading, recoveryKey, route, mfaFor,
                   verifyState, clicks, historyVars>>

\* The settings set the user they closed over, changed; "asks" are the requests
\* the answer leads to.
SettingAnswered(c, newUser, newKey, asks) ==
    /\ c.answer # "none"
    /\ LET ok == c.answer = "ok"
       IN  /\ user' = IF ok THEN newUser ELSE user
           /\ recoveryKey' = IF ok THEN newKey ELSE recoveryKey
           /\ UNCHANGED <<vault, hydrated, loading, verifyState, historyVars, authVars,
                          clicks>>
           /\ ShowPage(route, (calls \ {c}) \cup IF ok THEN asks ELSE {})

\* The profile asks for the session then.
ProfileAnswered(c) ==
    /\ c.kind = "profile"
    /\ SettingAnswered(c, c.closed, recoveryKey, {CallOf("session", Nobody, calls \ {c})})

MfaAnswered(c) ==
    /\ c.kind \in {"mfaOn", "mfaOff"}
    /\ SettingAnswered(c, [c.closed EXCEPT !.mfa = (c.kind = "mfaOn")], recoveryKey, {})

KeyAnswered(c) ==
    /\ c.kind = "regenerate"
    /\ SettingAnswered(c, user, c.click, {})

\* Neither a changed password nor a revoked session changes what the page holds.
PasswordAnswered(c) == c.kind = "password" /\ SettingAnswered(c, user, recoveryKey, {})
RevokeAnswered(c)   == c.kind = "revoke" /\ SettingAnswered(c, user, recoveryKey, {})
ForgotAnswered(c)   == c.kind = "forgot" /\ SettingAnswered(c, user, recoveryKey, {})

\* A password that was reset leads to the sign-in page, though the answer has
\* signed the browser in.
ResetAnswered(c) ==
    /\ c.kind = "reset" /\ c.answer # "none"
    /\ UNCHANGED <<vault, user, hydrated, loading, recoveryKey, verifyState, historyVars>>
    /\ Done(c, IF c.answer = "ok" THEN "sign-in" ELSE route)

\* The effect of the page asks again whenever the toast changes, and the toast says
\* that the address is verified.
VerifyAnswered(c) ==
    /\ c.kind = "verify" /\ c.answer # "none"
    /\ verifyState' = IF c.answer = "ok" THEN "ok" ELSE "error"
    /\ calls' = (calls \ {c}) \cup
          (IF c.answer = "ok" /\ route = "verify"
           THEN {[c EXCEPT !.answer = "none"]} ELSE {})
    /\ UNCHANGED <<authVars, vault, user, hydrated, loading, recoveryKey, route, mfaFor,
                   clicks, historyVars>>

AccountsNext ==
    \/ \E p \in Pages : Visit(p) \/ Open(p)
    \/ \E a \in Accounts :
          \/ SignUp(a) \/ ForgotPassword(a) \/ ResetPassword(a)
          \/ \E k \in {"login", "passkey", "code"} : SignIn(a, k)
    \/ SignOut \/ SaveProfile \/ DeleteAccount \/ RegenerateKey \/ VerifyMfa \/ DisableMfa
    \/ ChangePassword \/ RevokeSession
    \/ \E c \in calls :
          \/ \E lost \in BOOLEAN : Served(c, lost)
          \/ CallRefused(c)
          \/ SessionAnswered(c) \/ SignInAnswered(c) \/ PasskeyAnswered(c)
          \/ SignUpAnswered(c) \/ SignOutAnswered(c) \/ AccountDeleteAnswered(c)
          \/ ProfileAnswered(c) \/ MfaAnswered(c) \/ KeyAnswered(c)
          \/ PasswordAnswered(c) \/ RevokeAnswered(c)
          \/ ForgotAnswered(c) \/ ResetAnswered(c) \/ VerifyAnswered(c)
    \/ SessionEnds

-------------------------------------------------------------------------------
(* Properties.                                                                 *)

\* The types of the variables.
AccountsTypeOK ==
    /\ accts \in [Accounts -> [there: BOOLEAN, key: 0 .. MaxClicks,
                               recovery: 0 .. MaxClicks, mfa: BOOLEAN, pwd: 0 .. MaxClicks]]
    /\ challenge \subseteq Accounts /\ cookie \in Accounts \cup {Nobody}
    /\ link \in [Accounts -> {"none", "sent", "used"}] /\ resets \subseteq Accounts
    /\ vault \in [who: Accounts \cup {Nobody}, key: 0 .. MaxClicks, pwd: 0 .. MaxClicks]
    /\ user \in [who: Accounts \cup {Nobody}, mfa: BOOLEAN]
    /\ hydrated \in BOOLEAN /\ loading \in BOOLEAN /\ recoveryKey \in 0 .. MaxClicks
    /\ route \in Pages /\ mfaFor \in Accounts \cup {Nobody}
    /\ verifyState \in {"verifying", "ok", "error"}
    /\ clicks \in 0 .. MaxClicks
    /\ userOff \in BOOLEAN /\ keyOff \in BOOLEAN /\ vaultOff \in BOOLEAN

\* When nothing is under way, what the page believes is what the server and the
\* browser hold, after any mix of sign-ins, sign-outs and settings: the user is
\* that of the session, with its second factor; the recovery key shown is the
\* current one; and the stored keys are those the account was registered with and
\* open with its password. Exceptions are the histories: an answer that was lost,
\* a session that ended unseen, answers that crossed, a recovery key whose answer
\* comes after the session it was made in, keys overwritten by a sign-up that failed,
\* a password that was changed.
UserIsOfSession      == hydrated => user = AccountOf(cookie)
RecoveryKeyIsCurrent == user # NoUser /\ recoveryKey # 0 =>
                            accts[user.who].recovery = recoveryKey
VaultOpens           == user # NoUser /\ vault # NoVault =>
                            /\ vault.who = user.who
                            /\ vault.key = accts[user.who].key
                            /\ vault.pwd = accts[user.who].pwd

AccountSettles ==
    calls = {} =>
        /\ ~userOff => UserIsOfSession
        /\ ~userOff /\ ~keyOff => RecoveryKeyIsCurrent
        /\ ~userOff /\ ~vaultOff => VaultOpens
===============================================================================
