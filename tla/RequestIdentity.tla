-------------------------- MODULE RequestIdentity ----------------------------
(***************************************************************************)
(* How a request of the mail, drive, contacts, keyserver and calendar      *)
(* services gets the identity of its user: the session middleware looks    *)
(* the token up, stores the user id in the request context under a key,    *)
(* and the handler reads it back.                                          *)
(*                                                                         *)
(* A context key is a Go value with a type: two keys are equal only if     *)
(* both their types and their values are, and every package that declares  *)
(* its own "type contextKey string" has a type of its own.                 *)
(*                                                                         *)
(* What is abstracted: how a token is read from the cookie or the header;  *)
(* a session that expires is one that is removed.                          *)
(***************************************************************************)
CONSTANTS Services,
          Setter,    \* the package whose contextKey the middleware uses
          Getter,    \* the package whose contextKey the handlers use
          Users,
          Tokens,    \* session tokens
          Requests,
          NoUser

VARIABLES sessions,  \* the user of each token in the table sessions
          req        \* the requests

vars == <<sessions, req>>

Key(package) == [type |-> package, value |-> "userID"]

EmptyContext == [k \in {} |-> NoUser]

Init ==
    /\ sessions = [t \in Tokens |-> NoUser]
    /\ req = [r \in Requests |-> [pc |-> "new"]]

\* The auth service creates a session; one token is used once.
CreateSession(t, u) ==
    /\ sessions[t] = NoUser
    /\ sessions' = [sessions EXCEPT ![t] = u]
    /\ UNCHANGED req

\* Logout, a suspension, a password change, or the session expires.
DeleteSession(t) ==
    /\ sessions[t] # NoUser
    /\ sessions' = [sessions EXCEPT ![t] = NoUser]
    /\ UNCHANGED req

\* context.WithValue
WithValue(ctx, k, v) == [x \in DOMAIN ctx \cup {k} |-> IF x = k THEN v ELSE ctx[x]]

\* ctx.Value(key).(string), and "" for nil.
Value(ctx, k) == IF k \in DOMAIN ctx THEN ctx[k] ELSE NoUser

\* Auth: lookupSession, then WithValue or 401.
Auth(r, s, t) ==
    /\ req[r].pc = "new"
    /\ req' = [req EXCEPT ![r] =
                 IF sessions[t] = NoUser
                 THEN [pc |-> "unauthorized"]
                 ELSE [pc |-> "authenticated", service |-> s, user |-> sessions[t],
                       ctx |-> WithValue(EmptyContext, Key(Setter[s]), sessions[t])]]
    /\ UNCHANGED sessions

\* UserID, called by the handler of the request.
UserID(r) == Value(req[r].ctx, Key(Getter[req[r].service]))

Handle(r) ==
    /\ req[r].pc = "authenticated"
    /\ req' = [req EXCEPT ![r] = [pc |-> "handled", user |-> @.user, actor |-> UserID(r)]]
    /\ UNCHANGED sessions

Next ==
    \/ \E t \in Tokens, u \in Users : CreateSession(t, u)
    \/ \E t \in Tokens : DeleteSession(t)
    \/ \E r \in Requests, s \in Services, t \in Tokens : Auth(r, s, t)
    \/ \E r \in Requests : Handle(r)

Spec == Init /\ [][Next]_vars

-----------------------------------------------------------------------------
\* "UserID extracts the authenticated user ID from the request context.  Set
\* by auth middleware." (mail/internal/handler/handler.go:45): a handler acts
\* for the user whose session the middleware found.
HandlerKnowsUser ==
    \A r \in Requests : req[r].pc = "handled" => req[r].actor = req[r].user
=============================================================================
