------------------------------- MODULE Session -------------------------------
(***************************************************************************)
(* Who is logged in to one tab of the web console: the store of the        *)
(* session (stores/use-auth-store.ts), its restoration when the page loads *)
(* (AuthProvider.tsx), the renewal of the access token when a request is   *)
(* refused (axios-instance.ts), the login form with its password and its   *)
(* code to scan (LoginForm.tsx), and logging out. The refresh cookie is    *)
(* shared with the other tabs of the browser and renewed by the server;    *)
(* a user has one session there.                                           *)
(***************************************************************************)
EXTENDS ConsoleUsers, Naturals

CONSTANT MaxTroubles   \* bound: tokens that expire, sessions that end, logins in another tab

ASSUME SessionAssumption == MaxTroubles \in Nat

VARIABLES
  cookie,    \* whose refresh token the browser holds
  live,      \* the sessions the server accepts
  user,      \* the store: whom the console shows,
  token,     \* and whose access token its requests carry
  expired,   \* that token is no longer accepted
  load,      \* the restoration of the session when the page loads
  renewal,   \* the interceptor's request for a new token
  leaving,   \* the request to log out
  form,      \* the login form
  login,     \* the answer on its way to its password form
  troubles,  \* bounds what ends or crosses a session
  crossed    \* a token or a login of somebody else came in under the user shown

sessionVars == <<cookie, live, user, token, expired, load, renewal, leaving, form, login,
                 troubles, crossed>>

NoRenewal == [stage |-> "none", who |-> NULL]
FreshForm == [mode |-> "password", scan |-> "idle", code |-> NULL, poll |-> NULL]

SessionInit ==
  /\ cookie \in Users \cup {NULL}
  /\ live = {cookie} \ {NULL}
  /\ user = NULL /\ token = NULL /\ expired = FALSE
  /\ load = "restoring"
  /\ renewal = NoRenewal
  /\ leaving = "none"
  /\ form = FreshForm
  /\ login = NULL
  /\ troubles = 0
  /\ crossed = FALSE

Authorized == token /= NULL /\ ~expired /\ token \in live

\* The store: login and logout.
Enter(u) == user' = u /\ token' = u /\ expired' = FALSE
LogOut == user' = NULL /\ token' = NULL /\ expired' = FALSE
-----------------------------------------------------------------------------
(* Restoring the session when the page loads. *)

\* refreshToken succeeds: the store has the token, not yet the user.
RestoreToken ==
  /\ load = "restoring"
  /\ cookie \in live
  /\ token' = cookie /\ expired' = FALSE
  /\ load' = "asking"
  /\ UNCHANGED <<cookie, live, user, renewal, leaving, form, login, troubles, crossed>>

\* getMe tells the user of the token, and the console opens.
RestoreUser ==
  /\ load = "asking"
  /\ Authorized
  /\ Enter(token)
  /\ load' = "ready"
  /\ UNCHANGED <<cookie, live, renewal, leaving, form, login, troubles, crossed>>

\* Either request is refused, or lost: the login form opens.
RestoreFails ==
  /\ load \in {"restoring", "asking"}
  /\ LogOut
  /\ load' = "ready"
  /\ UNCHANGED <<cookie, live, renewal, leaving, form, login, troubles, crossed>>

\* The page is loaded anew: only the cookie survives.
Reloaded ==
  /\ LogOut
  /\ load' = "restoring"
  /\ renewal' = NoRenewal
  /\ leaving' = "none"
  /\ form' = FreshForm
  /\ login' = NULL
  /\ crossed' = FALSE
-----------------------------------------------------------------------------
(* The interceptor. *)

\* A request is refused: the first one asks for a new token, the others wait.
AskRenewal ==
  renewal' = IF renewal.stage = "none" THEN [stage |-> "asked", who |-> cookie] ELSE renewal

\* The server renews the session of the cookie the request carries.
ServeRenewal ==
  /\ renewal.stage = "asked"
  /\ IF renewal.who \in live
       THEN /\ renewal' = [renewal EXCEPT !.stage = "granted"]
            /\ cookie' = renewal.who
       ELSE /\ renewal' = [renewal EXCEPT !.stage = "refused"]
            /\ UNCHANGED cookie
  /\ UNCHANGED <<live, user, token, expired, load, leaving, form, login, troubles, crossed>>

\* updateToken, whoever is logged in by now; the requests that wait go again.
TakeRenewal ==
  /\ renewal.stage = "granted"
  /\ token' = renewal.who /\ expired' = FALSE
  /\ crossed' = (crossed \/ user \notin {NULL, renewal.who})
  /\ renewal' = NoRenewal
  /\ leaving' = IF leaving = "refused" THEN "sent" ELSE leaving
  /\ UNCHANGED <<cookie, live, user, load, form, login, troubles>>

\* handleLogout: the store is emptied and the page sent to the login form.
RenewalFails ==
  /\ renewal.stage = "refused"
  /\ Reloaded
  /\ UNCHANGED <<cookie, live, troubles>>
-----------------------------------------------------------------------------
(* Logging out. *)

SubmitLogout ==
  /\ user /= NULL /\ leaving = "none"
  /\ leaving' = "sent"
  /\ UNCHANGED <<cookie, live, user, token, expired, load, renewal, form, login, troubles, crossed>>

ServeLogout ==
  /\ leaving = "sent"
  /\ IF Authorized
       THEN /\ live' = live \ {token, cookie}
            /\ cookie' = NULL
            /\ leaving' = "served"
            /\ UNCHANGED renewal
       ELSE /\ leaving' = "refused"
            /\ AskRenewal
            /\ UNCHANGED <<cookie, live>>
  /\ UNCHANGED <<user, token, expired, load, form, login, troubles, crossed>>

\* The answer, or an error: either way the tab logs out.
FinishLogout ==
  /\ leaving \in {"sent", "served"}
  /\ LogOut
  /\ leaving' = "none"
  /\ crossed' = FALSE
  /\ UNCHANGED <<cookie, live, load, renewal, form, login, troubles>>
-----------------------------------------------------------------------------
(* The login form. *)

AtForm == user = NULL /\ load = "ready"

\* The server opens a session and the browser takes its cookie; a refusal
\* changes nothing.
SubmitPassword(u) ==
  /\ AtForm /\ form.mode = "password"
  /\ login = NULL
  /\ login' = u
  /\ live' = live \cup {u}
  /\ cookie' = u
  /\ UNCHANGED <<user, token, expired, load, renewal, leaving, form, troubles, crossed>>

\* onSuccess runs even when the form has closed meanwhile.
TakeLogin ==
  /\ login /= NULL
  /\ Enter(login)
  /\ crossed' = (crossed \/ user \notin {NULL, login})
  /\ login' = NULL
  /\ form' = FreshForm
  /\ UNCHANGED <<cookie, live, load, renewal, leaving, troubles>>

\* Leaving the code stops the polling; an answer on its way is not heard,
\* though the browser has its cookie.
SwitchMode ==
  /\ AtForm
  /\ form' = IF form.mode = "password"
               THEN [form EXCEPT !.mode = "scan", !.poll = NULL,
                                 !.scan = IF @ = "idle" THEN "loading" ELSE @]
               ELSE [form EXCEPT !.mode = "password", !.poll = NULL]
  /\ UNCHANGED <<cookie, live, user, token, expired, load, renewal, leaving, login, troubles, crossed>>

\* The button that asks for a new code.
NewCode ==
  /\ AtForm /\ form.mode = "scan" /\ form.scan /= "loading"
  /\ form' = [form EXCEPT !.scan = "loading", !.poll = NULL]
  /\ UNCHANGED <<cookie, live, user, token, expired, load, renewal, leaving, login, troubles, crossed>>

TakeCode ==
  /\ AtForm /\ form.scan = "loading"
  /\ \/ form' = [form EXCEPT !.scan = "pending", !.code = "open"]
     \/ form' = [form EXCEPT !.scan = "failed", !.code = NULL]
  /\ UNCHANGED <<cookie, live, user, token, expired, load, renewal, leaving, login, troubles, crossed>>

\* Somebody scans the code with the mini program and confirms.
ConfirmOnPhone(u) ==
  /\ form.code = "open"
  /\ form' = [form EXCEPT !.code = u]
  /\ UNCHANGED <<cookie, live, user, token, expired, load, renewal, leaving, login, troubles, crossed>>

\* The server lets a confirmed code be used once and the browser takes the
\* cookie; a code that ran out, or a lost answer, is an error; one that is
\* still open is asked for again.
PollCode ==
  /\ AtForm /\ form.mode = "scan" /\ form.scan = "pending" /\ form.poll = NULL
  /\ \/ /\ form.code \in Users
        /\ form' = [form EXCEPT !.poll = form.code, !.code = NULL]
        /\ cookie' = form.code /\ live' = live \cup {form.code}
     \/ /\ form' = [form EXCEPT !.poll = "gone", !.code = NULL]
        /\ UNCHANGED <<cookie, live>>
  /\ UNCHANGED <<user, token, expired, load, renewal, leaving, login, troubles, crossed>>

\* Mutant: the answer of a code is taken without looking at what it says.
TakePollUnchecked ==
  /\ AtForm /\ form.poll /= NULL
  /\ Enter(form.poll) /\ form' = FreshForm
  /\ UNCHANGED <<cookie, live, load, renewal, leaving, login, troubles, crossed>>

TakePoll ==
  /\ AtForm /\ form.poll /= NULL
  /\ IF form.poll \in Users
       THEN Enter(form.poll) /\ form' = FreshForm
       ELSE /\ form' = [form EXCEPT !.poll = NULL, !.scan = "failed"]
            /\ UNCHANGED <<user, token, expired>>
  /\ UNCHANGED <<cookie, live, load, renewal, leaving, login, troubles, crossed>>
-----------------------------------------------------------------------------
(* What happens around the tab. *)

TokenExpires ==
  /\ troubles < MaxTroubles
  /\ token /= NULL /\ ~expired
  /\ expired' = TRUE
  /\ troubles' = troubles + 1
  /\ UNCHANGED <<cookie, live, user, token, load, renewal, leaving, form, login, crossed>>

\* Revoked from another device, or run out.
SessionEnds(u) ==
  /\ troubles < MaxTroubles
  /\ u \in live
  /\ live' = live \ {u}
  /\ troubles' = troubles + 1
  /\ UNCHANGED <<cookie, user, token, expired, load, renewal, leaving, form, login, crossed>>

\* Somebody logs in in another tab of the same browser.
OtherTab(u) ==
  /\ troubles < MaxTroubles
  /\ cookie /= u
  /\ cookie' = u
  /\ live' = live \cup {u}
  /\ troubles' = troubles + 1
  /\ UNCHANGED <<user, token, expired, load, renewal, leaving, form, login, crossed>>

SessionTypeOK ==
  /\ cookie \in Users \cup {NULL} /\ live \subseteq Users
  /\ user \in Users \cup {NULL} /\ token \in Users \cup {NULL} /\ expired \in BOOLEAN
  /\ load \in {"restoring", "asking", "ready"}
  /\ renewal \in [stage : {"none", "asked", "granted", "refused"}, who : Users \cup {NULL}]
  /\ leaving \in {"none", "sent", "refused", "served"}
  /\ form \in [mode : {"password", "scan"},
               scan : {"idle", "loading", "pending", "failed"},
               code : Users \cup {NULL, "open"},
               poll : Users \cup {NULL, "gone"}]
  /\ login \in Users \cup {NULL}
  /\ troubles \in 0..MaxTroubles /\ crossed \in BOOLEAN
=============================================================================
