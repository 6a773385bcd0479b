------------------------------- MODULE Console -------------------------------
(***************************************************************************)
(* A tab of the web console: the session and one entry of the query cache. *)
(* The entry is fetched with the token of the session; a refused request   *)
(* waits for the token's renewal; logging out empties the cache, and so    *)
(* does the page that is loaded anew.                                      *)
(***************************************************************************)
EXTENDS QueryCache, Session

vars == <<cacheVars, sessionVars>>

Init == CacheInit /\ SessionInit

\* Pages that fetch are behind the login.
Open == user /= NULL /\ Mount /\ UNCHANGED sessionVars
Leave == Unmount /\ UNCHANGED sessionVars

\* The server answers with what the token's owner may see, or refuses.
ServeFetch ==
  \/ Authorized /\ Answer(token) /\ UNCHANGED sessionVars
  \/ /\ ~Authorized /\ Refuse
     /\ AskRenewal
     /\ UNCHANGED <<cookie, live, user, token, expired, load, leaving, form, login, troubles, crossed>>

ReceiveFetch == Receive /\ UNCHANGED sessionVars
PollShown == Poll /\ UNCHANGED sessionVars
FetchFails == (FailFetch \/ Retry) /\ UNCHANGED sessionVars
TimePasses == (GrowStale \/ Collect) /\ UNCHANGED sessionVars

Change ==
  /\ \/ ChangeElsewhere
     \/ user /= NULL /\ \E n \in News : Submit(n)
     \/ Apply \/ LoseChange \/ Confirm
  /\ UNCHANGED sessionVars

Renew == ServeRenewal /\ UNCHANGED cacheVars

\* The requests that waited are sent again under the new token.
Renewed == TakeRenewal /\ AskAgain /\ UNCHANGED <<version, entry, shown, change, known>>

\* The page is loaded anew, and with it the cache.
ThrownOut == RenewalFails /\ Clear /\ change' = Still /\ UNCHANGED version

\* Mutant: logging out leaves the cache as it is.
LoggedOutKeeping == FinishLogout /\ shown' = FALSE /\ UNCHANGED <<version, entry, fetch, change, known>>

\* The pages close with the login, and queryClient.clear() empties the cache.
LoggedOut == FinishLogout /\ Clear /\ UNCHANGED <<version, change>>

SignIn ==
  /\ \/ RestoreToken \/ RestoreUser \/ RestoreFails
     \/ \E u \in Users : SubmitPassword(u) \/ ConfirmOnPhone(u)
     \/ TakeLogin \/ SwitchMode \/ NewCode \/ TakeCode \/ PollCode \/ TakePoll
  /\ UNCHANGED cacheVars

SignOut == (SubmitLogout \/ ServeLogout) /\ UNCHANGED cacheVars

Around ==
  /\ TokenExpires \/ \E u \in Users : SessionEnds(u) \/ OtherTab(u)
  /\ UNCHANGED cacheVars

Next ==
  \/ Open \/ Leave \/ ServeFetch \/ ReceiveFetch \/ PollShown \/ FetchFails \/ TimePasses
  \/ Change \/ Renew \/ Renewed \/ ThrownOut \/ LoggedOut \/ SignIn \/ SignOut \/ Around

Spec == Init /\ [][Next]_vars

TypeOK == CacheTypeOK /\ SessionTypeOK

\* What a page shows was read with the rights of the user it names, unless a
\* token or a login of somebody else has come in under them (crossed): the
\* cache is emptied on every way out of a session, and a request of the
\* session before is not heard in the next.
OnlyOwnData == user /= NULL /\ shown /\ entry.has /\ ~crossed => entry.whose = user
=============================================================================
