---------------------------- MODULE ConsoleProofs ----------------------------
(***************************************************************************)
(* What Console promises, proved for any users, changes and troubles. That *)
(* a page shows its user's own data rests on what an empty store means for *)
(* the cache (Emptied), and on whose token is used (Own). That it shows    *)
(* its own changes rests on the versions (Fresh), and on the hooks, which  *)
(* mark what they change: this is a fact about the keys of the cache, and  *)
(* holds because every table has its places among them (Places).           *)
(***************************************************************************)
EXTENDS Console, SequenceTheorems, TLAPS

\* What the steps of Console do to the cache entry.
CacheStep ==
  \/ Mount \/ Unmount \/ Poll \/ GrowStale \/ Collect \/ Receive \/ FailFetch \/ Retry
  \/ ChangeElsewhere \/ (\E n \in News : Submit(n)) \/ Apply \/ LoseChange \/ Confirm
  \/ (\E u \in Users : Answer(u)) \/ Refuse
  \/ AskAgain /\ UNCHANGED <<version, entry, shown, change, known>>
  \/ Clear /\ change' \in {change, Still} /\ UNCHANGED version
  \/ UNCHANGED cacheVars

\* And to the session.
SessionStep ==
  \/ RestoreToken \/ RestoreUser \/ RestoreFails
  \/ ServeRenewal \/ TakeRenewal \/ RenewalFails
  \/ SubmitLogout \/ ServeLogout \/ FinishLogout
  \/ (\E u \in Users : SubmitPassword(u) \/ ConfirmOnPhone(u)) \/ TakeLogin
  \/ SwitchMode \/ NewCode \/ TakeCode \/ PollCode \/ TakePoll
  \/ TokenExpires \/ (\E u \in Users : SessionEnds(u) \/ OtherTab(u))
  \/ AskRenewal /\ UNCHANGED <<cookie, live, user, token, expired, load, leaving, form, login,
                               troubles, crossed>>
  \/ UNCHANGED sessionVars

LEMMA StepsOfBoth ==
  ASSUME TypeOK, [Next]_vars
  PROVE  CacheStep /\ SessionStep
<1>1. CASE Open \/ Leave \/ ReceiveFetch \/ PollShown \/ FetchFails \/ TimePasses
  BY <1>1 DEF Open, Leave, ReceiveFetch, PollShown, FetchFails, TimePasses, CacheStep, SessionStep
<1>2. CASE ServeFetch
  <2>1. Authorized => token \in Users
    BY DEF TypeOK, SessionTypeOK, Authorized
  <2> QED
    BY <1>2, <2>1 DEF ServeFetch, CacheStep, SessionStep
<1>3. CASE Change
  BY <1>3 DEF Change, CacheStep, SessionStep
<1>4. CASE Renew \/ SignIn \/ SignOut \/ Around
  BY <1>4 DEF Renew, SignIn, SignOut, Around, CacheStep, SessionStep
<1>5. CASE Renewed
  BY <1>5 DEF Renewed, CacheStep, SessionStep
<1>6. CASE ThrownOut \/ LoggedOut
  BY <1>6 DEF ThrownOut, LoggedOut, CacheStep, SessionStep
<1>7. CASE UNCHANGED vars
  BY <1>7 DEF vars, CacheStep, SessionStep
<1> QED
  BY <1>1, <1>2, <1>3, <1>4, <1>5, <1>6, <1>7 DEF Next
-----------------------------------------------------------------------------
(* Types. *)

EntryType == [has : BOOLEAN, version : Versions, whose : Users \cup {NULL}, due : BOOLEAN]
FetchType == [stage : {"idle", "asked", "refused", "answered", "failed"}, version : Versions,
              whose : Users \cup {NULL}, overtaken : BOOLEAN]
ChangeType == [stage : {"none", "sent", "applied"}, version : Versions, owes : BOOLEAN,
               marks : BOOLEAN]
RenewalType == [stage : {"none", "asked", "granted", "refused"}, who : Users \cup {NULL}]
FormType == [mode : {"password", "scan"}, scan : {"idle", "loading", "pending", "failed"},
             code : Users \cup {NULL, "open"}, poll : Users \cup {NULL, "gone"}]

LEMMA CacheTypes ==
  CacheTypeOK <=> /\ version \in Versions /\ entry \in EntryType /\ fetch \in FetchType
                  /\ shown \in BOOLEAN /\ change \in ChangeType /\ known \in Versions
BY DEF CacheTypeOK, EntryType, FetchType, ChangeType

LEMMA SessionTypes ==
  SessionTypeOK <=>
    /\ cookie \in Users \cup {NULL} /\ live \subseteq Users
    /\ user \in Users \cup {NULL} /\ token \in Users \cup {NULL} /\ expired \in BOOLEAN
    /\ load \in {"restoring", "asking", "ready"} /\ renewal \in RenewalType
    /\ leaving \in {"none", "sent", "refused", "served"} /\ form \in FormType
    /\ login \in Users \cup {NULL} /\ troubles \in 0..MaxTroubles /\ crossed \in BOOLEAN
BY DEF SessionTypeOK, RenewalType, FormType

\* A request that starts, with or without the flag of the one before.
LEMMA AskingIs ==
  /\ Asking \in FetchType /\ Asking.stage = "asked" /\ Asking.overtaken = FALSE
  /\ \A o \in BOOLEAN : LET f == [Asking EXCEPT !.overtaken = o] IN
       f \in FetchType /\ f.stage = "asked" /\ f.overtaken = o
<1> DEFINE r == Resting
           a == Asking
<1>1. r \in FetchType /\ r.stage = "idle" /\ r.overtaken = FALSE
  BY QueryCacheAssumption DEF FetchType, Resting, Versions
<1>2. a = [r EXCEPT !.stage = "asked"]
  BY DEF Asking
<1> HIDE DEF r, a
<1>3. a \in FetchType /\ a.stage = "asked" /\ a.overtaken = FALSE
  BY <1>1, <1>2 DEF FetchType
<1>4. \A o \in BOOLEAN : LET f == [a EXCEPT !.overtaken = o] IN
        f \in FetchType /\ f.stage = "asked" /\ f.overtaken = o
  BY <1>3 DEF FetchType
<1> QED
  BY <1>3, <1>4 DEF a

LEMMA RestingIs ==
  /\ Resting \in FetchType /\ Resting.stage = "idle" /\ Resting.overtaken = FALSE
  /\ \A o \in BOOLEAN : LET f == [Resting EXCEPT !.overtaken = o] IN
       f \in FetchType /\ f.stage = "idle" /\ f.overtaken = o
  /\ LET f == [Resting EXCEPT !.stage = "failed"] IN
       f \in FetchType /\ f.stage = "failed" /\ f.overtaken = FALSE
<1> DEFINE r == Resting
<1>1. r \in FetchType /\ r.stage = "idle" /\ r.overtaken = FALSE
  BY QueryCacheAssumption DEF FetchType, Resting, Versions
<1> HIDE DEF r
<1>2. \A o \in BOOLEAN : LET f == [r EXCEPT !.overtaken = o] IN
        f \in FetchType /\ f.stage = "idle" /\ f.overtaken = o
  BY <1>1 DEF FetchType
<1>3. LET f == [r EXCEPT !.stage = "failed"] IN
        f \in FetchType /\ f.stage = "failed" /\ f.overtaken = FALSE
  BY <1>1 DEF FetchType
<1> QED
  BY <1>1, <1>2, <1>3 DEF r

\* What a step may make of the request on its way.
LEMMA FetchMoves ==
  ASSUME NEW f \in FetchType
  PROVE  /\ f.stage \in {"idle", "asked", "refused", "answered", "failed"} /\ f.version \in Versions
         /\ f.whose \in Users \cup {NULL} /\ f.overtaken \in BOOLEAN
         /\ \A s \in {"asked", "refused"} : LET g == [f EXCEPT !.stage = s] IN
              g \in FetchType /\ g.stage = s /\ g.overtaken = f.overtaken
         /\ LET g == [f EXCEPT !.overtaken = TRUE] IN
              /\ g \in FetchType /\ g.overtaken /\ g.stage = f.stage /\ g.version = f.version
              /\ g.whose = f.whose
         /\ \A v \in Versions, u \in Users :
              LET g == [f EXCEPT !.stage = "answered", !.version = v, !.whose = u] IN
              /\ g \in FetchType /\ g.stage = "answered" /\ g.version = v /\ g.whose = u
              /\ g.overtaken = f.overtaken
BY DEF FetchType

LEMMA EntryMoves ==
  ASSUME NEW e \in EntryType, NEW d \in BOOLEAN
  PROVE  LET g == [e EXCEPT !.due = d] IN
         /\ g \in EntryType /\ g.has = e.has /\ g.version = e.version /\ g.whose = e.whose
         /\ g.due = d
         /\ e.has \in BOOLEAN /\ e.version \in Versions /\ e.due \in BOOLEAN
BY DEF EntryType

LEMMA EmptyIs == Nothing \in EntryType /\ Nothing.has = FALSE /\ Nothing.version = 0
                 /\ Nothing.due = FALSE /\ 0 \in Versions
BY QueryCacheAssumption DEF Nothing, EntryType, Versions

LEMMA StillIs == Still \in ChangeType /\ Still.stage = "none" /\ Still.version = 0
BY QueryCacheAssumption DEF Still, ChangeType, Versions

LEMMA ConsoleInitTyped == Init => TypeOK
<1> SUFFICES ASSUME Init PROVE TypeOK
  OBVIOUS
<1>1. CacheTypeOK
  BY CacheTypes, EmptyIs, RestingIs, StillIs DEF Init, CacheInit
<1>2. NoRenewal \in RenewalType /\ FreshForm \in FormType
  BY DEF NoRenewal, RenewalType, FreshForm, FormType
<1>3. live \subseteq Users /\ cookie \in Users \cup {NULL}
  BY DEF Init, SessionInit
<1>4. troubles \in 0..MaxTroubles
  BY SessionAssumption DEF Init, SessionInit
<1>5. SessionTypeOK
  BY <1>2, <1>3, <1>4, SessionTypes DEF Init, SessionInit
<1> QED
  BY <1>1, <1>5 DEF TypeOK

LEMMA CacheStaysTyped ==
  ASSUME CacheTypeOK, CacheStep
  PROVE  CacheTypeOK'
<1>1. /\ version \in Versions /\ entry \in EntryType /\ fetch \in FetchType
      /\ shown \in BOOLEAN /\ change \in ChangeType /\ known \in Versions
  BY CacheTypes
<1> SUFFICES /\ version' \in Versions /\ entry' \in EntryType /\ fetch' \in FetchType
             /\ shown' \in BOOLEAN /\ change' \in ChangeType /\ known' \in Versions
  BY CacheTypes DEF CacheTypeOK, EntryType, FetchType, ChangeType, Versions
<1>2. CASE Mount \/ Unmount \/ Poll \/ Retry
  BY <1>1, <1>2, AskingIs DEF Mount, Unmount, Poll, Retry
<1>3. CASE GrowStale
  BY <1>1, <1>3, EntryMoves DEF GrowStale
<1>4. CASE Collect
  BY <1>1, <1>4, EmptyIs DEF Collect
<1>5. CASE Receive
  <2>1. /\ fetch.version \in Versions
        /\ fetch.whose \in Users \cup {NULL}
        /\ fetch.overtaken \in BOOLEAN
    BY <1>1, FetchMoves
  <2>2. entry' \in EntryType
    BY <1>5, <2>1 DEF Receive, EntryType
  <2>3. fetch' \in FetchType
    BY <1>5, <2>1, RestingIs DEF Receive
  <2> QED
    BY <1>1, <1>5, <2>2, <2>3 DEF Receive
<1>6. CASE FailFetch
  <2>1. fetch.overtaken \in BOOLEAN /\ entry.has \in BOOLEAN
    BY <1>1, FetchMoves, EntryMoves
  <2>2. [entry EXCEPT !.due = entry.has] \in EntryType
    BY <1>1, <2>1, EntryMoves
  <2>3. [Asking EXCEPT !.overtaken = fetch.overtaken] \in FetchType
    BY <2>1, AskingIs
  <2> QED
    BY <1>1, <1>6, <2>2, <2>3, RestingIs DEF FailFetch
<1>7. CASE ChangeElsewhere
  BY <1>1, <1>7, QueryCacheAssumption DEF ChangeElsewhere, Versions
<1>8. CASE \E n \in News : Submit(n)
  <2>1. PICK n \in News : Submit(n)
    BY <1>8
  <2>2. n.owes \in BOOLEAN /\ n.marks \in BOOLEAN
    <3>1. PICK q \in Queries, m \in Mutations : n = [owes |-> Owes(m, q), marks |-> Marked(q, m)]
      BY DEF News
    <3> QED
      BY <3>1 DEF Owes, Marked
  <2>3. change' \in ChangeType
    BY <2>1, <2>2, EmptyIs DEF Submit, ChangeType
  <2> QED
    BY <1>1, <2>1, <2>3 DEF Submit
<1>9. CASE Apply
  <2>1. version' \in Versions
    BY <1>1, <1>9, QueryCacheAssumption DEF Apply, Versions
  <2>2. change' \in ChangeType
    BY <1>1, <1>9, <2>1 DEF Apply, ChangeType
  <2> QED
    BY <1>1, <1>9, <2>1, <2>2 DEF Apply
<1>10. CASE LoseChange
  BY <1>1, <1>10, StillIs DEF LoseChange
<1>11. CASE Confirm
  <2>1. [entry EXCEPT !.due = entry.has] \in EntryType
    BY <1>1, EntryMoves
  <2>2. [fetch EXCEPT !.overtaken = TRUE] \in FetchType
    BY <1>1, FetchMoves
  <2>3. change.version \in Versions
    BY <1>1 DEF ChangeType
  <2>4. fetch' \in FetchType /\ entry' \in EntryType
    BY <1>1, <1>11, <2>1, <2>2, AskingIs DEF Confirm, Invalidated
  <2> QED
    BY <1>1, <1>11, <2>3, <2>4, StillIs DEF Confirm
<1>12. CASE Refuse \/ (AskAgain /\ UNCHANGED <<version, entry, shown, change, known>>)
  <2>1. /\ [fetch EXCEPT !.stage = "asked"] \in FetchType
        /\ [fetch EXCEPT !.stage = "refused"] \in FetchType
    BY <1>1 DEF FetchType
  <2> QED
    BY <1>1, <1>12, <2>1 DEF Refuse, AskAgain
<1>13. CASE \E u \in Users : Answer(u)
  <2>1. PICK u \in Users : Answer(u)
    BY <1>13
  <2>2. [fetch EXCEPT !.stage = "answered", !.version = version, !.whose = u] \in FetchType
    BY <1>1 DEF FetchType
  <2> QED
    BY <1>1, <2>1, <2>2 DEF Answer
<1>14. CASE (Clear /\ change' \in {change, Still} /\ UNCHANGED version) \/ UNCHANGED cacheVars
  BY <1>1, <1>14, EmptyIs, RestingIs, StillIs DEF Clear, cacheVars
<1> QED
  BY <1>2, <1>3, <1>4, <1>5, <1>6, <1>7, <1>8, <1>9, <1>10, <1>11, <1>12, <1>13, <1>14
     DEF CacheStep

LEMMA SessionStaysTyped ==
  ASSUME SessionTypeOK, SessionStep
  PROVE  SessionTypeOK'
<1> DEFINE Who == Users \cup {NULL}
<1>1. /\ cookie \in Who /\ live \subseteq Users /\ user \in Who /\ token \in Who
      /\ expired \in BOOLEAN /\ load \in {"restoring", "asking", "ready"}
      /\ renewal \in RenewalType /\ leaving \in {"none", "sent", "refused", "served"}
      /\ form \in FormType /\ login \in Who /\ troubles \in 0..MaxTroubles
      /\ crossed \in BOOLEAN /\ NULL \in Who
  BY SessionTypes
<1> SUFFICES /\ cookie' \in Who /\ live' \subseteq Users /\ user' \in Who /\ token' \in Who
             /\ expired' \in BOOLEAN /\ load' \in {"restoring", "asking", "ready"}
             /\ renewal' \in RenewalType /\ leaving' \in {"none", "sent", "refused", "served"}
             /\ form' \in FormType /\ login' \in Who /\ troubles' \in 0..MaxTroubles
             /\ crossed' \in BOOLEAN
  BY DEF SessionTypeOK, RenewalType, FormType
<1>2. NoRenewal \in RenewalType /\ FreshForm \in FormType
  BY DEF NoRenewal, RenewalType, FreshForm, FormType
<1>3. \A u \in Users : u \in Who
  OBVIOUS
<1>4. renewal.who \in Who
  BY <1>1 DEF RenewalType
<1> HIDE DEF Who
<1>5. CASE RestoreToken \/ RestoreUser \/ RestoreFails
  BY <1>1, <1>3, <1>5 DEF RestoreToken, RestoreUser, RestoreFails, Enter, LogOut
<1>6. CASE ServeRenewal
  <2>1. /\ [renewal EXCEPT !.stage = "granted"] \in RenewalType
        /\ [renewal EXCEPT !.stage = "refused"] \in RenewalType
    BY <1>1 DEF RenewalType
  <2> QED
    BY <1>1, <1>4, <1>6, <2>1 DEF ServeRenewal
<1>7. CASE TakeRenewal
  BY <1>1, <1>2, <1>4, <1>7 DEF TakeRenewal
<1>8. CASE RenewalFails
  BY <1>1, <1>2, <1>8 DEF RenewalFails, Reloaded, LogOut
<1>9. AskRenewal => renewal' \in RenewalType
  <2>1. [stage |-> "asked", who |-> cookie] \in RenewalType
    BY <1>1 DEF RenewalType, Who
  <2> QED
    BY <1>1, <2>1 DEF AskRenewal
<1>10. CASE SubmitLogout \/ FinishLogout
  BY <1>1, <1>10 DEF SubmitLogout, FinishLogout, LogOut
<1>11. CASE ServeLogout
  BY <1>1, <1>9, <1>11 DEF ServeLogout
<1>12. CASE \E u \in Users : SubmitPassword(u)
  BY <1>1, <1>3, <1>12 DEF SubmitPassword
<1>13. CASE TakeLogin
  BY <1>1, <1>2, <1>13 DEF TakeLogin, Enter
<1>14. CASE \E u \in Users : ConfirmOnPhone(u)
  <2>1. PICK u \in Users : ConfirmOnPhone(u)
    BY <1>14
  <2>2. [form EXCEPT !.code = u] \in FormType
    BY <1>1 DEF FormType
  <2> QED
    BY <1>1, <2>1, <2>2 DEF ConfirmOnPhone
<1>15. CASE SwitchMode \/ NewCode \/ TakeCode
  <2>1. form' \in FormType
    <3>1. CASE SwitchMode
      BY <1>1, <3>1 DEF SwitchMode, FormType
    <3>2. CASE NewCode
      BY <1>1, <3>2 DEF NewCode, FormType
    <3>3. CASE TakeCode
      BY <1>1, <3>3 DEF TakeCode, FormType
    <3> QED
      BY <1>15, <3>1, <3>2, <3>3
  <2> QED
    BY <1>1, <1>15, <2>1 DEF SwitchMode, NewCode, TakeCode
<1>16. CASE PollCode
  <2>1. form' \in FormType
    BY <1>1, <1>16 DEF PollCode, FormType
  <2> QED
    BY <1>1, <1>3, <1>16, <2>1 DEF PollCode
<1>17. CASE TakePoll
  <2>1. [form EXCEPT !.poll = NULL, !.scan = "failed"] \in FormType
    BY <1>1 DEF FormType
  <2> QED
    BY <1>1, <1>2, <1>3, <1>17, <2>1 DEF TakePoll, Enter
<1>18. CASE TokenExpires \/ \E u \in Users : SessionEnds(u) \/ OtherTab(u)
  <2>1. troubles' \in 0..MaxTroubles
    BY <1>1, <1>18, SessionAssumption DEF TokenExpires, SessionEnds, OtherTab
  <2> QED
    BY <1>1, <1>3, <1>18, <2>1 DEF TokenExpires, SessionEnds, OtherTab
<1>19. CASE \/ AskRenewal /\ UNCHANGED <<cookie, live, user, token, expired, load, leaving, form,
                                        login, troubles, crossed>>
            \/ UNCHANGED sessionVars
  BY <1>1, <1>9, <1>19 DEF sessionVars
<1> QED
  BY <1>5, <1>6, <1>7, <1>8, <1>10, <1>11, <1>12, <1>13, <1>14, <1>15, <1>16, <1>17, <1>18, <1>19
     DEF SessionStep

LEMMA ConsoleStaysTyped == TypeOK /\ [Next]_vars => TypeOK'
BY StepsOfBoth, CacheStaysTyped, SessionStaysTyped DEF TypeOK

\* Every variable of the console stays within its type, for any number of users and any
\* budget of changes and troubles.
THEOREM ConsoleIsTyped == Spec => []TypeOK
BY ConsoleInitTyped, ConsoleStaysTyped, PTL DEF Spec
-----------------------------------------------------------------------------
(* Whose data is shown. With an empty store nothing is cached, on its way  *)
(* or shown; while the page loads nobody is in the store and no login is   *)
(* on its way; what is cached and on its way was read for the user in the  *)
(* store, whose token requests carry, unless somebody else's came in.      *)

Emptied == user = NULL => ~entry.has /\ fetch.stage = "idle" /\ ~shown
AtDoor == load # "ready" => user = NULL /\ login = NULL
HeldBy(u) == (fetch.stage = "answered" => fetch.whose = u) /\ (entry.has => entry.whose = u)
Own == user # NULL /\ ~crossed => token = user /\ HeldBy(user)

OwnInv == TypeOK /\ Emptied /\ AtDoor /\ Own

LEMMA OwnInit == Init => OwnInv
<1> SUFFICES ASSUME Init PROVE OwnInv
  OBVIOUS
<1>1. Emptied /\ AtDoor /\ Own
  BY EmptyIs, RestingIs DEF Init, CacheInit, SessionInit, Emptied, AtDoor, Own
<1> QED
  BY <1>1, ConsoleInitTyped DEF OwnInv

\* What the cache does by itself: it reads for nobody but who asks.
LEMMA CacheKeepsOwner ==
  ASSUME CacheTypeOK, NEW u, HeldBy(u),
         \/ Mount \/ Unmount \/ Poll \/ GrowStale \/ Collect \/ Receive \/ FailFetch \/ Retry
         \/ ChangeElsewhere \/ (\E n \in News : Submit(n)) \/ Apply \/ LoseChange \/ Confirm
         \/ Answer(u) \/ Refuse
         \/ AskAgain /\ UNCHANGED <<version, entry, shown, change, known>>
         \/ UNCHANGED cacheVars
  PROVE  HeldBy(u)'
<1>1. /\ entry \in EntryType
      /\ fetch \in FetchType
      /\ entry.has \in BOOLEAN
      /\ fetch.overtaken \in BOOLEAN
  BY CacheTypes, EntryMoves, FetchMoves
<1>2. CASE Mount \/ Unmount \/ Poll \/ Retry
  BY <1>2, AskingIs DEF HeldBy, Mount, Unmount, Poll, Retry
<1>3. CASE GrowStale
  BY <1>1, <1>3, EntryMoves DEF HeldBy, GrowStale
<1>4. CASE Collect
  BY <1>4, EmptyIs DEF HeldBy, Collect
<1>5. CASE Receive
  <2>1. fetch'.stage = "idle"
    BY <1>1, <1>5, RestingIs DEF Receive
  <2>2. entry'.whose = fetch.whose /\ fetch.stage = "answered"
    BY <1>5 DEF Receive
  <2> QED
    BY <2>1, <2>2 DEF HeldBy
<1>6. CASE FailFetch
  <2>1. fetch'.stage # "answered"
    BY <1>1, <1>6, AskingIs, RestingIs DEF FailFetch
  <2>2. entry' = entry \/ entry' = [entry EXCEPT !.due = entry.has]
    BY <1>6 DEF FailFetch
  <2>3. entry'.has = entry.has /\ entry'.whose = entry.whose
    BY <1>1, <2>2 DEF EntryType
  <2> QED
    BY <2>1, <2>3 DEF HeldBy
<1>7. CASE \/ ChangeElsewhere \/ (\E n \in News : Submit(n)) \/ Apply \/ LoseChange
           \/ UNCHANGED cacheVars
  BY <1>7 DEF HeldBy, ChangeElsewhere, Submit, Apply, LoseChange, cacheVars
<1>8. CASE Confirm
  <2>1. entry' = entry \/ entry' = [entry EXCEPT !.due = entry.has]
    BY <1>8 DEF Confirm, Invalidated
  <2>2. entry'.has = entry.has /\ entry'.whose = entry.whose
    BY <1>1, <2>1 DEF EntryType
  <2>3. fetch' = fetch \/ fetch' = Asking \/ fetch' = [fetch EXCEPT !.overtaken = TRUE]
    BY <1>8 DEF Confirm, Invalidated
  <2>4. fetch'.stage = "asked" \/ (fetch'.stage = fetch.stage /\ fetch'.whose = fetch.whose)
    <3>1. Asking.stage = "asked"
      BY AskingIs
    <3> QED
      BY <1>1, <2>3, <3>1 DEF FetchType
  <2> QED
    BY <2>2, <2>4 DEF HeldBy
<1>9. CASE Answer(u)
  <2>1. fetch'.whose = u
    BY <1>1, <1>9 DEF Answer, FetchType
  <2> QED
    BY <1>9, <2>1 DEF Answer, HeldBy
<1>10. CASE Refuse \/ (AskAgain /\ UNCHANGED <<version, entry, shown, change, known>>)
  <2>1. fetch' = fetch \/ fetch'.stage = "refused" \/ fetch'.stage = "asked"
    BY <1>1, <1>10 DEF Refuse, AskAgain, FetchType
  <2> QED
    BY <1>10, <2>1 DEF Refuse, HeldBy
<1> QED
  BY <1>2, <1>3, <1>4, <1>5, <1>6, <1>7, <1>8, <1>9, <1>10

\* Clearing leaves nothing.
LEMMA ClearEmpties == Clear => ~entry'.has /\ fetch'.stage = "idle" /\ ~shown'
BY EmptyIs, RestingIs DEF Clear

LEMMA OwnStep == OwnInv /\ [Next]_vars => OwnInv'
<1> SUFFICES ASSUME OwnInv, [Next]_vars PROVE Emptied' /\ AtDoor' /\ Own'
  BY ConsoleStaysTyped DEF OwnInv
<1>1. /\ TypeOK /\ Emptied /\ AtDoor /\ Own
      /\ entry \in EntryType /\ fetch \in FetchType /\ entry.has \in BOOLEAN
      /\ user \in Users \cup {NULL} /\ token \in Users \cup {NULL} /\ CacheTypeOK
  BY CacheTypes, SessionTypes, EntryMoves DEF OwnInv, TypeOK
\* The session stays as it is, and there is a user.
<1>2. CASE /\ UNCHANGED <<user, token, load, login, crossed>> /\ user # NULL
           /\ \/ Mount \/ Unmount \/ Poll \/ GrowStale \/ Collect \/ Receive \/ FailFetch \/ Retry
              \/ ChangeElsewhere \/ (\E n \in News : Submit(n)) \/ Apply \/ LoseChange \/ Confirm
              \/ Answer(token) \/ Refuse \/ UNCHANGED cacheVars
  <2>1. Emptied' /\ AtDoor'
    BY <1>1, <1>2 DEF Emptied, AtDoor
  <2>2. ~crossed => HeldBy(user)'
    BY <1>1, <1>2, CacheKeepsOwner DEF Own
  <2> QED
    BY <1>1, <1>2, <2>1, <2>2 DEF Own, HeldBy
<1>3. CASE /\ UNCHANGED <<user, token, load, login, crossed>> /\ user = NULL
           /\ ~entry'.has /\ fetch'.stage = "idle" /\ ~shown'
  BY <1>1, <1>3 DEF Emptied, AtDoor, Own
\* Nobody is in the store and nothing happens to the cache, or it is cleared.
<1>4. ASSUME user = NULL
      PROVE  ~entry.has /\ fetch.stage = "idle" /\ shown = FALSE
  BY <1>1, <1>4 DEF Emptied
<1>5. CASE Open \/ Leave \/ ServeFetch \/ ReceiveFetch \/ PollShown \/ FetchFails \/ TimePasses
  <2>1. user # NULL
    BY <1>4, <1>5 DEF Open, Leave, Unmount, ServeFetch, Answer, Refuse, ReceiveFetch, Receive,
       PollShown,
       Poll, FetchFails, FailFetch, Retry, TimePasses, GrowStale, Collect
  <2>2. UNCHANGED <<user, token, load, login, crossed>>
    BY <1>5 DEF Open, Leave, ServeFetch, ReceiveFetch, PollShown, FetchFails, TimePasses,
       sessionVars
  <2> QED
    BY <1>2, <1>5, <2>1, <2>2 DEF Open, Leave, ServeFetch, ReceiveFetch, PollShown, FetchFails,
       TimePasses
<1>6. CASE Change
  <2>1. UNCHANGED <<user, token, load, login, crossed>>
    BY <1>6 DEF Change, sessionVars
  <2>2. CASE user # NULL
    BY <1>2, <1>6, <2>1, <2>2 DEF Change
  <2>3. CASE user = NULL
    <3>1. ChangeElsewhere \/ Apply \/ LoseChange \/ Confirm
      BY <1>6, <2>3 DEF Change
    <3>2. entry' = entry \/ entry' = [entry EXCEPT !.due = entry.has]
      BY <3>1 DEF ChangeElsewhere, Apply, LoseChange, Confirm, Invalidated
    <3>3. entry'.has = entry.has
      BY <1>1, <3>2 DEF EntryType
    <3>4. fetch' = fetch /\ shown' = shown
      BY <1>4, <2>3, <3>1 DEF ChangeElsewhere, Apply, LoseChange, Confirm, Invalidated
    <3> QED
      BY <1>3, <1>4, <2>1, <2>3, <3>3, <3>4
  <2> QED
    BY <2>2, <2>3
<1>7. CASE Renew \/ SignOut \/ Around \/ UNCHANGED vars
  <2>1. UNCHANGED <<user, token, load, login, crossed>> /\ UNCHANGED cacheVars
    BY <1>7 DEF Renew, ServeRenewal, SignOut, SubmitLogout, ServeLogout, Around, TokenExpires,
       SessionEnds,
       OtherTab, vars, sessionVars
  <2> QED
    BY <1>2, <1>3, <1>4, <2>1 DEF cacheVars
<1>8. CASE Renewed
  <2>1. /\ token' = renewal.who /\ crossed' = (crossed \/ user \notin {NULL, renewal.who})
        /\ UNCHANGED <<user, load, login>>
    BY <1>8 DEF Renewed, TakeRenewal
  <2>2. AskAgain /\ UNCHANGED <<version, entry, shown, change, known>>
    BY <1>8 DEF Renewed
  <2>3. ASSUME user # NULL, ~crossed
        PROVE  /\ fetch'.stage = "answered" => fetch'.whose = user
               /\ entry'.has => entry'.whose = user
    <3>1. PICK u : u = user
      OBVIOUS
    <3>2. HeldBy(u)
      BY <1>1, <2>3, <3>1 DEF Own
    <3>3. HeldBy(u)'
      BY <1>1, <2>2, <3>2, CacheKeepsOwner
    <3> QED
      BY <3>1, <3>3 DEF HeldBy
  <2>4. user = NULL => fetch' = fetch
    BY <1>4, <2>2 DEF AskAgain
  <2>5. Emptied' /\ AtDoor'
    BY <1>1, <2>1, <2>2, <2>4 DEF Emptied, AtDoor
  <2>6. ASSUME user # NULL, ~crossed'
        PROVE  /\ token' = user
               /\ (fetch'.stage = "answered" => fetch'.whose = user) /\ (entry'.has => entry'.whose = user)
    <3>1. ~crossed /\ renewal.who = user
      BY <2>1, <2>6
    <3> QED
      BY <2>1, <2>3, <2>6, <3>1
  <2> QED
    BY <2>1, <2>5, <2>6 DEF Own, HeldBy
<1>9. CASE ThrownOut \/ LoggedOut
  <2>1. user' = NULL /\ Clear /\ (login' = NULL \/ (login' = login /\ load' = load))
    BY <1>9 DEF ThrownOut, LoggedOut, RenewalFails, Reloaded, FinishLogout, LogOut
  <2>2. ~entry'.has /\ fetch'.stage = "idle" /\ ~shown'
    BY <2>1, ClearEmpties
  <2> QED
    BY <1>1, <2>1, <2>2 DEF Emptied, AtDoor, Own
<1>10. CASE SignIn
  <2>1. UNCHANGED cacheVars
    BY <1>10 DEF SignIn
  <2>2. CASE RestoreToken \/ RestoreUser \/ RestoreFails
    <3>1. user = NULL /\ login = NULL /\ login' = login
      BY <1>1, <2>2 DEF RestoreToken, RestoreUser, RestoreFails, AtDoor
    <3>2. (user' = NULL) \/ (user' = token' /\ load' = "ready")
      BY <2>2, <3>1 DEF RestoreToken, RestoreUser, RestoreFails, Enter, LogOut
    <3> QED
      BY <1>4, <2>1, <3>1, <3>2 DEF Emptied, AtDoor, Own, HeldBy, cacheVars
  <2>3. CASE (\E u \in Users : SubmitPassword(u) \/ ConfirmOnPhone(u)) \/ SwitchMode \/ NewCode \/ TakeCode
             \/ PollCode
    <3>1. UNCHANGED <<user, token, load, crossed>> /\ (login' = login \/ load = "ready")
      BY <2>3 DEF SubmitPassword, ConfirmOnPhone, SwitchMode, NewCode, TakeCode, PollCode, AtForm
    <3> QED
      BY <1>1, <2>1, <3>1 DEF Emptied, AtDoor, Own, HeldBy, cacheVars
  <2>4. CASE TakeLogin
    <3>1. /\ login # NULL /\ user' = login /\ token' = login /\ load' = load
          /\ crossed' = (crossed \/ user \notin {NULL, login})
      BY <2>4 DEF TakeLogin, Enter
    <3>2. load = "ready"
      BY <1>1, <3>1 DEF AtDoor
    <3>3. ASSUME ~crossed' PROVE HeldBy(login)
      BY <1>1, <1>4, <3>1, <3>3 DEF Own, HeldBy
    <3> QED
      BY <2>1, <3>1, <3>2, <3>3 DEF Emptied, AtDoor, Own, HeldBy, cacheVars
  <2>5. CASE TakePoll
    <3>1. user = NULL /\ load = "ready" /\ load' = load /\ (user' = user \/ user' = token')
      BY <2>5 DEF TakePoll, Enter, AtForm
    <3> QED
      BY <1>4, <2>1, <3>1 DEF Emptied, AtDoor, Own, HeldBy, cacheVars
  <2> QED
    BY <1>10, <2>2, <2>3, <2>4, <2>5 DEF SignIn
<1> QED
  BY <1>5, <1>6, <1>7, <1>8, <1>9, <1>10 DEF Next

\* What a page shows was read with the rights of the user it names: no way out of a session
\* leaves something in the cache or on its way, but for tokens and logins of somebody else
\* that come in under the user.
THEOREM OwnDataIsShown == Spec => []OnlyOwnData
<1>1. OwnInv => OnlyOwnData
  BY DEF OwnInv, Own, HeldBy, OnlyOwnData
<1> QED
  BY <1>1, OwnInit, OwnStep, PTL DEF Spec
-----------------------------------------------------------------------------
(* The hooks mark what they change. Every table has its places among the   *)
(* keys: the entries that list its rows are there or below (Placed), but   *)
(* for two that are left out; and who writes the table marks each of its   *)
(* places, if it marks anything of the place's feature (Marking).          *)

IsPath(s) == s # <<>> /\ \E S : s \in Seq(S)

Places ==
  {<<"projects", Projects>>, <<"units", UnitsRoot>>, <<"teams", TeamsRoot>>,
   <<"workers", WorkersRoot>>, <<"workers", <<"management", "personnel-workers">>>>,
   <<"attendance", AttendanceRoot>>, <<"wage_batches", Project>>,
   <<"attendance_devices", DevicesRoot>>, <<"issue_reports", IssueReportsRoot>>,
   <<"alert_configs", AlertConfigsRoot>>, <<"alert_logs", AlertLogsRoot>>,
   <<"contract_templates", TemplatesRoot>>, <<"contract_configs", ContractConfig>>,
   <<"work_hour_configs", WorkHoursRoot>>, <<"platform_configs", PlatformConfigsRoot>>,
   <<"platform_logs", PlatformLogsRoot>>, <<"integration_jobs", PlatformLogsRoot>>,
   <<"customers", CustomersRoot>>, <<"own_entities", OwnEntitiesRoot>>,
   <<"enterprise_projects", EnterpriseList>>, <<"this_project", EnterpriseProject>>,
   <<"financial_records", Summary>>, <<"financial_records", RecordsRoot>>,
   <<"photo_groups", PhotoGroupsRoot>>, <<"managed_configs", ManagedConfigsRoot>>,
   <<"managed_records", ManagedRecordsRoot>>, <<"managed_records", Supplemental>>,
   <<"users", UsersRoot>>, <<"roles", RolesRoot>>, <<"api_keys", ApiKeysRoot>>,
   <<"report_configs", <<"report-configs">>>>, <<"report_runs", <<"report-runs">>>>,
   <<"report_runs", <<"report-run">>>>, <<"report_items", <<"report-detail-items">>>>,
   <<"report_items", <<"report-items">>>>}

\* Two entries list the people without being among their places.
Elsewhere(q, t) ==
  /\ t = "workers"
  /\ \/ q \in AttendanceQueries /\ q.key[1] = "construction-projects"
     \/ q.key[1] = "management" /\ q.key[2] = "personnel-worker"

Placed(q) ==
  \A t \in q.rows :
    \/ Elsewhere(q, t)
    \/ /\ \E place \in Places :
            place[1] = t /\ IsPrefix(place[2], q.key) /\ place[2][1] = q.key[1]
       /\ t = "issue_reports" => q \in IssueReportQueries

Marking(m) ==
  \A t \in m.writes :
    /\ t = "workers" =>
         \/ /\ m \in WorkerMutations
            /\ \A path \in m.marks : path[1] = "construction-projects"
         \/ /\ m \in PersonnelMutations
            /\ \A path \in m.marks : path[1] = "management"
    /\ \A place \in Places :
         \/ place[1] # t \/ place[2] \in m.marks
         \/ \A path \in m.marks : path[1] # place[2][1]
         \/ t = "issue_reports" /\ m \in WorkerMutations

\* Paths, and what is below them.
LEMMA Word == ASSUME NEW a PROVE IsPath(<<a>>) /\ <<a>>[1] = a
<1>1. <<a>> \in [1..1 -> {a}]
  OBVIOUS
<1>2. <<a>> \in Seq({a})
  BY <1>1, SeqDef
<1>3. <<a>> # <<>> /\ <<a>>[1] = a
  OBVIOUS
<1> QED BY <1>2, <1>3 DEF IsPath

LEMMA Words == ASSUME NEW a, NEW b PROVE IsPath(<<a, b>>) /\ <<a, b>>[1] = a
<1>1. <<a, b>> \in [1..2 -> {a, b}]
  OBVIOUS
<1>2. <<a, b>> \in Seq({a, b})
  BY <1>1, SeqDef
<1>3. <<a, b>> # <<>> /\ <<a, b>>[1] = a
  OBVIOUS
<1> QED BY <1>2, <1>3 DEF IsPath

LEMMA Below ==
  ASSUME NEW h, NEW s, IsPath(h), IsPath(s)
  PROVE  /\ IsPath(h \o s) /\ (h \o s)[1] = h[1]
         /\ IsPrefix(h, h \o s) /\ IsPrefix(h, h)
<1>1. PICK S, T : h \in Seq(S) /\ s \in Seq(T)
  BY DEF IsPath
<1>2. PICK R : R = S \cup T
  OBVIOUS
<1>3. Seq(S) \subseteq Seq(R) /\ Seq(T) \subseteq Seq(R)
  BY <1>2, SeqMonotonic
<1>4. h \in Seq(R) /\ s \in Seq(R) /\ h # <<>> /\ Len(h) \in Nat /\ Len(h) > 0
  BY <1>1, <1>3 DEF IsPath
<1>5. h \o s \in Seq(R) /\ Len(h \o s) = Len(h) + Len(s) /\ Len(s) \in Nat
  BY <1>4
<1>6. (h \o s)[1] = h[1]
  BY <1>4
<1>7. h \o s # <<>>
  BY <1>4, <1>5
<1>8. IsPrefix(h, h \o s)
  BY <1>4, <1>5 DEF IsPrefix
<1>9. IsPrefix(h, h)
  BY <1>4 DEF IsPrefix
<1> QED
  BY <1>5, <1>6, <1>7, <1>8, <1>9 DEF IsPath

\* The roots are paths, and which feature each is of.
LEMMA ProjectRoots ==
  /\ IsPath(Projects) /\ Projects[1] = "construction-projects"
  /\ IsPath(Project) /\ Project[1] = "construction-projects"
  /\ IsPath(UnitsRoot) /\ UnitsRoot[1] = "construction-projects"
  /\ IsPath(TeamsRoot) /\ TeamsRoot[1] = "construction-projects"
  /\ IsPath(WorkersRoot) /\ WorkersRoot[1] = "construction-projects"
  /\ IsPath(AttendanceRoot) /\ AttendanceRoot[1] = "construction-projects"
  /\ IsPath(WagesRoot) /\ WagesRoot[1] = "construction-projects"
  /\ IsPath(DevicesRoot) /\ DevicesRoot[1] = "construction-projects"
  /\ IsPath(ContractConfig) /\ ContractConfig[1] = "construction-projects"
  /\ IsPath(IssueReportsRoot) /\ IssueReportsRoot[1] = "construction-projects"
  /\ IsPath(AlertConfigsRoot) /\ AlertConfigsRoot[1] = "construction-projects"
  /\ IsPath(AlertLogsRoot) /\ AlertLogsRoot[1] = "construction-projects"
  /\ IsPath(TemplatesRoot) /\ TemplatesRoot[1] = "construction-projects"
  /\ IsPath(WorkHoursRoot) /\ WorkHoursRoot[1] = "construction-projects"
  /\ IsPath(PlatformConfigsRoot) /\ PlatformConfigsRoot[1] = "construction-projects"
  /\ IsPath(PlatformLogsRoot) /\ PlatformLogsRoot[1] = "construction-projects"
<1>1. IsPath(Projects) /\ Projects[1] = "construction-projects"
  BY Word, Words DEF Projects
<1>2. IsPath(Project) /\ Project[1] = "construction-projects"
  BY <1>1, Word, Words, Below DEF Project
<1>3. IsPath(UnitsRoot) /\ UnitsRoot[1] = "construction-projects"
  BY <1>2, Word, Words, Below DEF UnitsRoot
<1>4. IsPath(TeamsRoot) /\ TeamsRoot[1] = "construction-projects"
  BY <1>2, Word, Words, Below DEF TeamsRoot
<1>5. IsPath(WorkersRoot) /\ WorkersRoot[1] = "construction-projects"
  BY <1>2, Word, Words, Below DEF WorkersRoot
<1>6. IsPath(AttendanceRoot) /\ AttendanceRoot[1] = "construction-projects"
  BY <1>2, Word, Words, Below DEF AttendanceRoot
<1>7. IsPath(WagesRoot) /\ WagesRoot[1] = "construction-projects"
  BY <1>2, Word, Words, Below DEF WagesRoot
<1>8. IsPath(DevicesRoot) /\ DevicesRoot[1] = "construction-projects"
  BY <1>2, Word, Words, Below DEF DevicesRoot
<1>9. IsPath(ContractConfig) /\ ContractConfig[1] = "construction-projects"
  BY <1>2, Word, Words, Below DEF ContractConfig
<1>10. IsPath(IssueReportsRoot) /\ IssueReportsRoot[1] = "construction-projects"
  BY <1>1, Word, Words, Below DEF IssueReportsRoot
<1>11. IsPath(AlertConfigsRoot) /\ AlertConfigsRoot[1] = "construction-projects"
  BY <1>1, Word, Words, Below DEF AlertConfigsRoot
<1>12. IsPath(AlertLogsRoot) /\ AlertLogsRoot[1] = "construction-projects"
  BY <1>1, Word, Words, Below DEF AlertLogsRoot
<1>13. IsPath(TemplatesRoot) /\ TemplatesRoot[1] = "construction-projects"
  BY <1>1, Word, Words, Below DEF TemplatesRoot
<1>14. IsPath(WorkHoursRoot) /\ WorkHoursRoot[1] = "construction-projects"
  BY <1>1, Word, Words, Below DEF WorkHoursRoot
<1>15. IsPath(PlatformConfigsRoot) /\ PlatformConfigsRoot[1] = "construction-projects"
  BY <1>1, Word, Words, Below DEF PlatformConfigsRoot
<1>16. IsPath(PlatformLogsRoot) /\ PlatformLogsRoot[1] = "construction-projects"
  BY <1>1, Word, Words, Below DEF PlatformLogsRoot
<1> QED
  BY <1>1, <1>2, <1>3, <1>4, <1>5, <1>6, <1>7, <1>8, <1>9, <1>10, <1>11, <1>12, <1>13, <1>14,
     <1>15, <1>16

LEMMA EnterpriseRoots ==
  /\ IsPath(Enterprise) /\ Enterprise[1] = "enterprise-projects"
  /\ IsPath(CustomersRoot) /\ CustomersRoot[1] = "enterprise-projects"
  /\ IsPath(Customer) /\ Customer[1] = "enterprise-projects"
  /\ IsPath(OwnEntitiesRoot) /\ OwnEntitiesRoot[1] = "enterprise-projects"
  /\ IsPath(OwnEntity) /\ OwnEntity[1] = "enterprise-projects"
  /\ IsPath(EnterpriseList) /\ EnterpriseList[1] = "enterprise-projects"
  /\ IsPath(EnterpriseProject) /\ EnterpriseProject[1] = "enterprise-projects"
  /\ IsPath(Summary) /\ Summary[1] = "enterprise-projects"
  /\ IsPath(RecordsRoot) /\ RecordsRoot[1] = "enterprise-projects"
<1>1. IsPath(Enterprise) /\ Enterprise[1] = "enterprise-projects"
  BY Word, Words DEF Enterprise
<1>2. IsPath(CustomersRoot) /\ CustomersRoot[1] = "enterprise-projects"
  BY <1>1, Word, Words, Below DEF CustomersRoot
<1>3. IsPath(Customer) /\ Customer[1] = "enterprise-projects"
  BY <1>2, Word, Words, Below DEF Customer
<1>4. IsPath(OwnEntitiesRoot) /\ OwnEntitiesRoot[1] = "enterprise-projects"
  BY <1>1, Word, Words, Below DEF OwnEntitiesRoot
<1>5. IsPath(OwnEntity) /\ OwnEntity[1] = "enterprise-projects"
  BY <1>4, Word, Words, Below DEF OwnEntity
<1>6. IsPath(EnterpriseList) /\ EnterpriseList[1] = "enterprise-projects"
  BY <1>1, Word, Words, Below DEF EnterpriseList
<1>7. IsPath(EnterpriseProject) /\ EnterpriseProject[1] = "enterprise-projects"
  BY <1>1, Word, Words, Below DEF EnterpriseProject
<1>8. IsPath(Summary) /\ Summary[1] = "enterprise-projects"
  BY <1>7, Word, Words, Below DEF Summary
<1>9. IsPath(RecordsRoot) /\ RecordsRoot[1] = "enterprise-projects"
  BY <1>7, Word, Words, Below DEF RecordsRoot
<1> QED
  BY <1>1, <1>2, <1>3, <1>4, <1>5, <1>6, <1>7, <1>8, <1>9

LEMMA ManagedRoots ==
  /\ IsPath(ManagedAttendance) /\ ManagedAttendance[1] = "managed-attendance"
  /\ IsPath(PhotoGroupsRoot) /\ PhotoGroupsRoot[1] = "managed-attendance"
  /\ IsPath(ManagedConfigsRoot) /\ ManagedConfigsRoot[1] = "managed-attendance"
  /\ IsPath(ManagedRecordsRoot) /\ ManagedRecordsRoot[1] = "managed-attendance"
<1>1. IsPath(ManagedAttendance) /\ ManagedAttendance[1] = "managed-attendance"
  BY Word, Words DEF ManagedAttendance
<1>2. IsPath(PhotoGroupsRoot) /\ PhotoGroupsRoot[1] = "managed-attendance"
  BY <1>1, Word, Words, Below DEF PhotoGroupsRoot
<1>3. IsPath(ManagedConfigsRoot) /\ ManagedConfigsRoot[1] = "managed-attendance"
  BY <1>1, Word, Words, Below DEF ManagedConfigsRoot
<1>4. IsPath(ManagedRecordsRoot) /\ ManagedRecordsRoot[1] = "managed-attendance"
  BY <1>1, Word, Words, Below DEF ManagedRecordsRoot
<1> QED
  BY <1>1, <1>2, <1>3, <1>4

LEMMA OtherRoots ==
  /\ IsPath(Supplemental) /\ Supplemental[1] = "supplemental-attendance"
  /\ IsPath(UsersRoot) /\ UsersRoot[1] = "admin"
  /\ IsPath(RolesRoot) /\ RolesRoot[1] = "admin"
  /\ IsPath(ApiKeysRoot) /\ ApiKeysRoot[1] = "admin"
<1>1. IsPath(Supplemental) /\ Supplemental[1] = "supplemental-attendance"
  BY Word, Words DEF Supplemental
<1>2. IsPath(UsersRoot) /\ UsersRoot[1] = "admin"
  BY Word, Words DEF UsersRoot
<1>3. IsPath(RolesRoot) /\ RolesRoot[1] = "admin"
  BY Word, Words DEF RolesRoot
<1>4. IsPath(ApiKeysRoot) /\ ApiKeysRoot[1] = "admin"
  BY Word, Words DEF ApiKeysRoot
<1> QED
  BY <1>1, <1>2, <1>3, <1>4

\* Literals that name a path and what is below it.
LEMMA Joined ==
  ASSUME NEW a, NEW b, NEW c
  PROVE  /\ <<a, b>> = <<a>> \o <<b>>
         /\ <<a, b, c>> = <<a>> \o <<b, c>> /\ <<a, b, c>> = <<a, b>> \o <<c>>
<1>1. PICK S : S = {a, b, c}
  OBVIOUS
<1>2. /\ <<a>> \in [1..1 -> S] /\ <<b>> \in [1..1 -> S] /\ <<c>> \in [1..1 -> S]
      /\ <<a, b>> \in [1..2 -> S] /\ <<b, c>> \in [1..2 -> S] /\ <<a, b, c>> \in [1..3 -> S]
  BY <1>1
<1>3. /\ <<a>> \in Seq(S) /\ <<b>> \in Seq(S) /\ <<c>> \in Seq(S)
      /\ <<a, b>> \in Seq(S) /\ <<b, c>> \in Seq(S) /\ <<a, b, c>> \in Seq(S)
  BY <1>2, SeqDef
<1>4. <<a, b>> = <<a>> \o <<b>>
  <2>1. <<a>> \o <<b>> \in Seq(S) /\ Len(<<a>> \o <<b>>) = 2
    BY <1>3, ConcatProperties
  <2>2. \A i \in 1..2 : (<<a>> \o <<b>>)[i] = <<a, b>>[i]
    BY <1>3, ConcatProperties
  <2> QED
    BY <1>3, <2>1, <2>2, SeqEqual
<1>5. <<a, b, c>> = <<a>> \o <<b, c>>
  <2>1. <<a>> \o <<b, c>> \in Seq(S) /\ Len(<<a>> \o <<b, c>>) = 3
    BY <1>3, ConcatProperties
  <2>2. \A i \in 1..3 : (<<a>> \o <<b, c>>)[i] = <<a, b, c>>[i]
    BY <1>3, ConcatProperties
  <2> QED
    BY <1>3, <2>1, <2>2, SeqEqual
<1>6. <<a, b, c>> = <<a, b>> \o <<c>>
  <2>1. <<a, b>> \o <<c>> \in Seq(S) /\ Len(<<a, b>> \o <<c>>) = 3
    BY <1>3, ConcatProperties
  <2>2. \A i \in 1..3 : (<<a, b>> \o <<c>>)[i] = <<a, b, c>>[i]
    BY <1>3, ConcatProperties
  <2> QED
    BY <1>3, <2>1, <2>2, SeqEqual
<1> QED
  BY <1>4, <1>5, <1>6

\* What Below says of the path above.
LEMMA PathBelow ==
  ASSUME NEW h, NEW s, IsPath(h), IsPath(s)
  PROVE  (h \o s)[1] = h[1] /\ IsPrefix(h, h \o s) /\ IsPrefix(h, h)
<1>1. (h \o s)[1] = h[1]
  <2>1. PICK S, T : h \in Seq(S) /\ s \in Seq(T)
    BY DEF IsPath
  <2>2. PICK R : R = S \cup T
    OBVIOUS
  <2>3. Seq(S) \subseteq Seq(R) /\ Seq(T) \subseteq Seq(R)
    BY <2>2, SeqMonotonic
  <2>4. h \in Seq(R) /\ s \in Seq(R) /\ Len(h) \in Nat /\ Len(h) > 0
    BY <2>1, <2>3 DEF IsPath
  <2> QED
    BY <2>4
<1>2. IsPrefix(h, h \o s)
  BY Below
<1>3. IsPrefix(h, h)
  BY Below
<1> QED
  BY <1>1, <1>2, <1>3

\* q lists the rows of table t, and its key is p or below it.
Lists(q, t, p) == q.rows = {t} /\ IsPrefix(p, q.key) /\ p[1] = q.key[1]

LEMMA ListsBelow ==
  ASSUME NEW p, NEW t, IsPath(p), NEW s, IsPath(s), NEW q, NEW x,
         x = Query(p \o s, {t}) \/ x = Query(p, {t}),
         q = x \/ q = [x EXCEPT !.poll = TRUE]
  PROVE  Lists(q, t, p)
<1>1. q.rows = {t} /\ (q.key = p \o s \/ q.key = p)
  BY DEF Query
<1>2. (p \o s)[1] = p[1] /\ IsPrefix(p, p \o s) /\ IsPrefix(p, p)
  BY PathBelow
<1>3. q.key[1] = p[1] /\ IsPrefix(p, q.key)
  <2>1. CASE q.key = p \o s
    BY <1>2, <2>1
  <2>2. CASE q.key = p
    BY <1>2, <2>2
  <2> QED
    BY <1>1, <2>1, <2>2
<1> QED
  BY <1>1, <1>3 DEF Lists

\* An entry of one table at a place of the table.
LEMMA HasPlace ==
  ASSUME NEW q, NEW t, NEW p, Lists(q, t, p), t # "issue_reports", <<t, p>> \in Places
  PROVE  Placed(q)
<1>1. \E place \in Places : place[1] = t /\ IsPrefix(place[2], q.key) /\ place[2][1] = q.key[1]
  <2>1. PICK place : place = <<t, p>>
    OBVIOUS
  <2> QED
    BY <2>1 DEF Lists
<1> QED
  BY <1>1 DEF Placed, Lists

LEMMA ProjectQueriesPlaced == ASSUME NEW q \in ProjectQueries PROVE Placed(q)
<1>1. PICK s, x : /\ IsPath(s) /\ q = x
                  /\ \/ x = Query(Projects \o s, {"projects"})
  BY Word, Words DEF ProjectQueries, ProjectRequests, Project
<1>2. Lists(q, "projects", Projects)
  BY <1>1, ProjectRoots, Word, ListsBelow
<1>3. <<"projects", Projects>> \in Places
  BY DEF Places
<1> QED
  BY <1>2, <1>3, HasPlace

LEMMA UnitQueriesPlaced == ASSUME NEW q \in UnitQueries PROVE Placed(q)
<1>1. PICK s, x : /\ IsPath(s) /\ q = x
                  /\ \/ x = Query(UnitsRoot \o s, {"units"})
  BY Word, Words DEF UnitQueries, UnitRequests
<1>2. Lists(q, "units", UnitsRoot)
  BY <1>1, ProjectRoots, Word, ListsBelow
<1>3. <<"units", UnitsRoot>> \in Places
  BY DEF Places
<1> QED
  BY <1>2, <1>3, HasPlace

LEMMA TeamQueriesPlaced == ASSUME NEW q \in TeamQueries PROVE Placed(q)
<1>1. PICK s, x : /\ IsPath(s) /\ q = x
                  /\ \/ x = Query(TeamsRoot \o s, {"teams"})
  BY Word, Words DEF TeamQueries, TeamRequests
<1>2. Lists(q, "teams", TeamsRoot)
  BY <1>1, ProjectRoots, Word, ListsBelow
<1>3. <<"teams", TeamsRoot>> \in Places
  BY DEF Places
<1> QED
  BY <1>2, <1>3, HasPlace

LEMMA WorkerQueriesPlaced == ASSUME NEW q \in WorkerQueries PROVE Placed(q)
<1>1. PICK s, x : /\ IsPath(s) /\ q = x
                  /\ \/ x = Query(WorkersRoot \o s, {"workers"})
  BY Word, Words DEF WorkerQueries, WorkerRequests
<1>2. Lists(q, "workers", WorkersRoot)
  BY <1>1, ProjectRoots, Word, ListsBelow
<1>3. <<"workers", WorkersRoot>> \in Places
  BY DEF Places
<1> QED
  BY <1>2, <1>3, HasPlace

LEMMA WageQueriesPlaced == ASSUME NEW q \in WageQueries PROVE Placed(q)
<1>0. WagesRoot \o <<"filters">> = Project \o <<"wage-batches", "filters">>
  <2>1. PICK S : Project \in Seq(S) /\ <<"wage-batches">> \in Seq(S) /\ <<"filters">> \in Seq(S)
    <3>1. PICK S1, S2, S3 :
            Project \in Seq(S1) /\ <<"wage-batches">> \in Seq(S2) /\ <<"filters">> \in Seq(S3)
      BY ProjectRoots, Word DEF IsPath
    <3>2. PICK S : S = S1 \cup S2 \cup S3
      OBVIOUS
    <3>3. Seq(S1) \subseteq Seq(S) /\ Seq(S2) \subseteq Seq(S) /\ Seq(S3) \subseteq Seq(S)
      BY <3>2, SeqMonotonic
    <3> QED
      BY <3>1, <3>3
  <2>2. (Project \o <<"wage-batches">>) \o <<"filters">>
          = Project \o (<<"wage-batches">> \o <<"filters">>)
    BY <2>1, ConcatAssociative
  <2>3. <<"wage-batches">> \o <<"filters">> = <<"wage-batches", "filters">>
    BY Joined
  <2> QED
    BY <2>2, <2>3 DEF WagesRoot
<1>1. PICK s, x : /\ IsPath(s) /\ q = x
                  /\ \/ x = Query(Project \o s, {"wage_batches"})
                     \/ x = Query(Project, {"wage_batches"})
  BY <1>0, Word, Words DEF WageQueries, WageRequests
<1>2. Lists(q, "wage_batches", Project)
  BY <1>1, ProjectRoots, Word, ListsBelow
<1>3. <<"wage_batches", Project>> \in Places
  BY DEF Places
<1> QED
  BY <1>2, <1>3, HasPlace

LEMMA DeviceQueriesPlaced == ASSUME NEW q \in DeviceQueries PROVE Placed(q)
<1>1. PICK s, x : /\ IsPath(s) /\ (q = x \/ q = [x EXCEPT !.poll = TRUE])
                  /\ \/ x = Query(DevicesRoot \o s, {"attendance_devices"})
  BY Word, Words DEF DeviceQueries, DeviceRequests, Polled
<1>2. Lists(q, "attendance_devices", DevicesRoot)
  BY <1>1, ProjectRoots, Word, ListsBelow
<1>3. <<"attendance_devices", DevicesRoot>> \in Places
  BY DEF Places
<1> QED
  BY <1>2, <1>3, HasPlace

LEMMA AlertQueriesPlaced == ASSUME NEW q \in AlertQueries PROVE Placed(q)
<1>1. PICK s, x : /\ IsPath(s) /\ q = x
                  /\ \/ x = Query(AlertConfigsRoot \o s, {"alert_configs"})
                     \/ x = Query(AlertLogsRoot \o s, {"alert_logs"})
  BY Word, Words DEF AlertQueries, AlertRequests
<1>2. Lists(q, "alert_configs", AlertConfigsRoot) \/ Lists(q, "alert_logs", AlertLogsRoot)
  BY <1>1, ProjectRoots, Word, ListsBelow
<1>3. /\ <<"alert_configs", AlertConfigsRoot>> \in Places
      /\ <<"alert_logs", AlertLogsRoot>> \in Places
  BY DEF Places
<1> QED
  BY <1>2, <1>3, HasPlace

LEMMA ContractQueriesPlaced == ASSUME NEW q \in ContractQueries PROVE Placed(q)
<1>1. PICK s, x : /\ IsPath(s) /\ q = x
                  /\ \/ x = Query(TemplatesRoot \o s, {"contract_templates"})
                     \/ x = Query(ContractConfig \o s, {"contract_configs"})
                     \/ x = Query(ContractConfig, {"contract_configs"})
  BY Word, Words DEF ContractQueries, ContractRequests
<1>2. \/ Lists(q, "contract_templates", TemplatesRoot)
      \/ Lists(q, "contract_configs", ContractConfig)
  BY <1>1, ProjectRoots, Word, ListsBelow
<1>3. /\ <<"contract_templates", TemplatesRoot>> \in Places
      /\ <<"contract_configs", ContractConfig>> \in Places
  BY DEF Places
<1> QED
  BY <1>2, <1>3, HasPlace

LEMMA WorkHourQueriesPlaced == ASSUME NEW q \in WorkHourQueries PROVE Placed(q)
<1>1. PICK s, x : /\ IsPath(s) /\ q = x
                  /\ \/ x = Query(WorkHoursRoot \o s, {"work_hour_configs"})
  BY Word, Words DEF WorkHourQueries, WorkHourRequests
<1>2. Lists(q, "work_hour_configs", WorkHoursRoot)
  BY <1>1, ProjectRoots, Word, ListsBelow
<1>3. <<"work_hour_configs", WorkHoursRoot>> \in Places
  BY DEF Places
<1> QED
  BY <1>2, <1>3, HasPlace

LEMMA PlatformConfigQueriesPlaced == ASSUME NEW q \in PlatformConfigQueries PROVE Placed(q)
<1>1. PICK s, x : /\ IsPath(s) /\ q = x
                  /\ \/ x = Query(PlatformConfigsRoot \o s, {"platform_configs"})
  BY Word, Words DEF PlatformConfigQueries, PlatformConfigRequests
<1>2. Lists(q, "platform_configs", PlatformConfigsRoot)
  BY <1>1, ProjectRoots, Word, ListsBelow
<1>3. <<"platform_configs", PlatformConfigsRoot>> \in Places
  BY DEF Places
<1> QED
  BY <1>2, <1>3, HasPlace

LEMMA OverviewQueriesPlaced == ASSUME NEW q \in OverviewQueries PROVE Placed(q)
<1>1. PICK s, x : /\ IsPath(s) /\ q = x
                  /\ \/ \E k : x = Query(k, {})
  BY Word, Words DEF OverviewQueries
<1>2. q.rows = {}
  BY <1>1, ProjectRoots, Word, ListsBelow DEF Query
<1> QED
  BY <1>2 DEF Placed

LEMMA CustomerQueriesPlaced == ASSUME NEW q \in CustomerQueries PROVE Placed(q)
<1>1. PICK s, x : /\ IsPath(s) /\ q = x
                  /\ \/ x = Query(CustomersRoot \o s, {"customers"})
                     \/ \E k : x = Query(k, {})
  BY Word, Words DEF CustomerQueries, EnterpriseRequests, Customer
<1>2. Lists(q, "customers", CustomersRoot) \/ q.rows = {}
  BY <1>1, EnterpriseRoots, Word, ListsBelow DEF Query
<1>3. <<"customers", CustomersRoot>> \in Places
  BY DEF Places
<1> QED
  BY <1>2, <1>3, HasPlace DEF Placed

LEMMA OwnEntityQueriesPlaced == ASSUME NEW q \in OwnEntityQueries PROVE Placed(q)
<1>1. PICK s, x : /\ IsPath(s) /\ q = x
                  /\ \/ x = Query(OwnEntitiesRoot \o s, {"own_entities"})
  BY Word, Words DEF OwnEntityQueries, EnterpriseRequests, OwnEntity
<1>2. Lists(q, "own_entities", OwnEntitiesRoot)
  BY <1>1, EnterpriseRoots, Word, ListsBelow
<1>3. <<"own_entities", OwnEntitiesRoot>> \in Places
  BY DEF Places
<1> QED
  BY <1>2, <1>3, HasPlace

LEMMA EnterpriseProjectQueriesPlaced == ASSUME NEW q \in EnterpriseProjectQueries PROVE Placed(q)
<1>1. PICK s, x : /\ IsPath(s) /\ q = x
                  /\ \/ x = Query(EnterpriseList \o s, {"enterprise_projects"})
                     \/ x = Query(EnterpriseProject \o s, {"this_project"})
                     \/ x = Query(EnterpriseProject, {"this_project"})
                     \/ x = Query(Summary \o s, {"financial_records"})
                     \/ x = Query(Summary, {"financial_records"})
                     \/ x = Query(RecordsRoot \o s, {"financial_records"})
  BY Word, Words DEF EnterpriseProjectQueries, EnterpriseProjectRequests
<1>2. \/ Lists(q, "enterprise_projects", EnterpriseList)
      \/ Lists(q, "this_project", EnterpriseProject)
      \/ Lists(q, "financial_records", Summary)
      \/ Lists(q, "financial_records", RecordsRoot)
  BY <1>1, EnterpriseRoots, Word, ListsBelow
<1>3. /\ <<"enterprise_projects", EnterpriseList>> \in Places
      /\ <<"this_project", EnterpriseProject>> \in Places
      /\ <<"financial_records", Summary>> \in Places
      /\ <<"financial_records", RecordsRoot>> \in Places
  BY DEF Places
<1> QED
  BY <1>2, <1>3, HasPlace

LEMMA PhotoGroupQueriesPlaced == ASSUME NEW q \in PhotoGroupQueries PROVE Placed(q)
<1>1. PICK s, x : /\ IsPath(s) /\ q = x
                  /\ \/ x = Query(PhotoGroupsRoot \o s, {"photo_groups"})
  BY Word, Words DEF PhotoGroupQueries, ManagedRequests
<1>2. Lists(q, "photo_groups", PhotoGroupsRoot)
  BY <1>1, ManagedRoots, Word, ListsBelow
<1>3. <<"photo_groups", PhotoGroupsRoot>> \in Places
  BY DEF Places
<1> QED
  BY <1>2, <1>3, HasPlace

LEMMA ManagedQueriesPlaced == ASSUME NEW q \in ManagedQueries PROVE Placed(q)
<1>1. PICK s, x : /\ IsPath(s) /\ (q = x \/ q = [x EXCEPT !.poll = TRUE])
                  /\ \/ x = Query(ManagedConfigsRoot \o s, {"managed_configs"})
                     \/ x = Query(ManagedRecordsRoot \o s, {"managed_records"})
  BY Word, Words DEF ManagedQueries, ManagedRequests, Polled
<1>2. \/ Lists(q, "managed_configs", ManagedConfigsRoot)
      \/ Lists(q, "managed_records", ManagedRecordsRoot)
  BY <1>1, ManagedRoots, Word, ListsBelow
<1>3. /\ <<"managed_configs", ManagedConfigsRoot>> \in Places
      /\ <<"managed_records", ManagedRecordsRoot>> \in Places
  BY DEF Places
<1> QED
  BY <1>2, <1>3, HasPlace

LEMMA SupplementalQueriesPlaced == ASSUME NEW q \in SupplementalQueries PROVE Placed(q)
<1>1. PICK s, x : /\ IsPath(s) /\ (q = x \/ q = [x EXCEPT !.poll = TRUE])
                  /\ \/ x = Query(Supplemental \o s, {"managed_records"})
  BY Word, Words DEF SupplementalQueries, SupplementalRequests, Polled
<1>2. Lists(q, "managed_records", Supplemental)
  BY <1>1, OtherRoots, Word, ListsBelow
<1>3. <<"managed_records", Supplemental>> \in Places
  BY DEF Places
<1> QED
  BY <1>2, <1>3, HasPlace

LEMMA DashboardQueriesPlaced == ASSUME NEW q \in DashboardQueries PROVE Placed(q)
<1>1. PICK s, x : /\ IsPath(s) /\ (q = x \/ q = [x EXCEPT !.poll = TRUE])
                  /\ \/ \E k : x = Query(k, {})
  BY Word, Words DEF DashboardQueries, Polled
<1>2. q.rows = {}
  BY <1>1, OtherRoots, Word, ListsBelow DEF Query
<1> QED
  BY <1>2 DEF Placed

LEMMA AdminQueriesPlaced == ASSUME NEW q \in AdminQueries PROVE Placed(q)
<1>1. PICK s, x : /\ IsPath(s) /\ q = x
                  /\ \/ x = Query(UsersRoot \o s, {"users"})
                     \/ x = Query(UsersRoot, {"users"})
                     \/ x = Query(RolesRoot \o s, {"roles"})
                     \/ x = Query(RolesRoot, {"roles"})
                     \/ x = Query(ApiKeysRoot \o s, {"api_keys"})
                     \/ x = Query(ApiKeysRoot, {"api_keys"})
  BY Word, Words DEF AdminQueries, AdminRequests
<1>2. \/ Lists(q, "users", UsersRoot)
      \/ Lists(q, "roles", RolesRoot)
      \/ Lists(q, "api_keys", ApiKeysRoot)
  BY <1>1, OtherRoots, Word, ListsBelow
<1>3. /\ <<"users", UsersRoot>> \in Places
      /\ <<"roles", RolesRoot>> \in Places
      /\ <<"api_keys", ApiKeysRoot>> \in Places
  BY DEF Places
<1> QED
  BY <1>2, <1>3, HasPlace

LEMMA ReportQueriesPlaced == ASSUME NEW q \in ReportQueries PROVE Placed(q)
<1> DEFINE at(x) == q = x \/ q = [x EXCEPT !.poll = TRUE]
<1>1. \/ at(Query(<<"report-run", "run">>, {"report_runs"}))
      \/ at(Query(<<"report-detail-items", "run", "filters">>, {"report_items"}))
      \/ at(Query(<<"report-items", "run", "filters">>, {"report_items"}))
      \/ at(Query(<<"report-configs", "filters">>, {"report_configs"}))
      \/ at(Query(<<"report-configs", "options">>, {"report_configs"}))
      \/ at(Query(<<"report-runs", "options">>, {"report_runs"}))
      \/ at(Query(<<"report-runs", "filters">>, {"report_runs"}))
      \/ at(Query(<<"report-summary">>, {}))
  BY DEF ReportQueries, Polled
<1>2. ASSUME NEW p, NEW t, NEW s, IsPath(p), IsPath(s), NEW x, x = Query(p \o s, {t}), at(x),
             <<t, p>> \in Places, t # "issue_reports"
      PROVE  Placed(q)
  <2>1. Lists(q, t, p)
    BY <1>2, ListsBelow
  <2> QED
    BY <1>2, <2>1, HasPlace
<1> HIDE DEF at
<1>3. /\ IsPath(<<"run">>) /\ IsPath(<<"filters">>) /\ IsPath(<<"options">>)
      /\ IsPath(<<"run", "filters">>)
      /\ IsPath(<<"report-run">>) /\ IsPath(<<"report-items">>)
      /\ IsPath(<<"report-detail-items">>)
      /\ IsPath(<<"report-configs">>) /\ IsPath(<<"report-runs">>)
  BY Word, Words
<1>4. /\ <<"report_runs", <<"report-run">>>> \in Places
      /\ <<"report_items", <<"report-detail-items">>>> \in Places
      /\ <<"report_items", <<"report-items">>>> \in Places
      /\ <<"report_configs", <<"report-configs">>>> \in Places
      /\ <<"report_runs", <<"report-runs">>>> \in Places
  BY DEF Places
<1>5. CASE at(Query(<<"report-run", "run">>, {"report_runs"}))
  <2>1. <<"report-run", "run">> = <<"report-run">> \o <<"run">>
    BY Joined
  <2> QED
    BY <1>2, <1>3, <1>4, <1>5, <2>1
<1>6. CASE at(Query(<<"report-detail-items", "run", "filters">>, {"report_items"}))
  <2>1. <<"report-detail-items", "run", "filters">>
          = <<"report-detail-items">> \o <<"run", "filters">>
    BY Joined
  <2> QED
    BY <1>2, <1>3, <1>4, <1>6, <2>1
<1>7. CASE at(Query(<<"report-items", "run", "filters">>, {"report_items"}))
  <2>1. <<"report-items", "run", "filters">> = <<"report-items">> \o <<"run", "filters">>
    BY Joined
  <2> QED
    BY <1>2, <1>3, <1>4, <1>7, <2>1
<1>8. ASSUME NEW s \in {"filters", "options"}, at(Query(<<"report-configs", s>>, {"report_configs"}))
      PROVE  Placed(q)
  <2>1. <<"report-configs", s>> = <<"report-configs">> \o <<s>> /\ IsPath(<<s>>)
    BY Joined, Word
  <2> QED
    BY <1>2, <1>3, <1>4, <1>8, <2>1
<1>9. ASSUME NEW s \in {"filters", "options"}, at(Query(<<"report-runs", s>>, {"report_runs"}))
      PROVE  Placed(q)
  <2>1. <<"report-runs", s>> = <<"report-runs">> \o <<s>> /\ IsPath(<<s>>)
    BY Joined, Word
  <2> QED
    BY <1>2, <1>3, <1>4, <1>9, <2>1
<1>10. CASE at(Query(<<"report-summary">>, {}))
  <2>1. q.rows = {}
    BY <1>10 DEF at, Query
  <2> QED
    BY <2>1 DEF Placed
<1> QED
  BY <1>1, <1>5, <1>6, <1>7, <1>8, <1>9, <1>10

LEMMA AttendanceQueriesPlaced == ASSUME NEW q \in AttendanceQueries PROVE Placed(q)
<1>1. PICK s, x : /\ IsPath(s) /\ q = x
                  /\ \/ x = Query(AttendanceRoot \o s, {"attendance"})
                     \/ x = Query(AttendanceRoot \o s, {"attendance", "workers"})
  BY Word, Words DEF AttendanceQueries, AttendanceRequests
<1>2. <<"attendance", AttendanceRoot>> \in Places
  BY DEF Places
<1>3. CASE x = Query(AttendanceRoot \o s, {"attendance"})
  <2>1. Lists(q, "attendance", AttendanceRoot)
    BY <1>1, <1>3, ProjectRoots, ListsBelow
  <2> QED
    BY <2>1, <1>2, HasPlace
<1>4. CASE x = Query(AttendanceRoot \o s, {"attendance", "workers"})
  <2>1. PICK y : y = Query(AttendanceRoot \o s, {"attendance"})
    OBVIOUS
  <2>2. Lists(y, "attendance", AttendanceRoot)
    BY <1>1, <2>1, ProjectRoots, ListsBelow
  <2>3. q.key = y.key /\ q.rows = {"attendance", "workers"}
    BY <1>1, <1>4, <2>1 DEF Query
  <2>4. IsPrefix(AttendanceRoot, q.key) /\ AttendanceRoot[1] = q.key[1]
    BY <2>2, <2>3 DEF Lists
  <2>5. Elsewhere(q, "workers")
    BY <2>4, ProjectRoots DEF Elsewhere
  <2>6. \E place \in Places :
          place[1] = "attendance" /\ IsPrefix(place[2], q.key) /\ place[2][1] = q.key[1]
    <3>1. PICK place : place = <<"attendance", AttendanceRoot>>
      OBVIOUS
    <3> QED
      BY <1>2, <2>4, <3>1
  <2> QED
    BY <2>3, <2>5, <2>6 DEF Placed
<1> QED
  BY <1>1, <1>3, <1>4

LEMMA IssueReportQueriesPlaced == ASSUME NEW q \in IssueReportQueries PROVE Placed(q)
<1>1. PICK s, x : /\ IsPath(s) /\ q = x
                  /\ \/ x = Query(IssueReportsRoot \o s, {"issue_reports"})
  BY Word, Words DEF IssueReportQueries, IssueReportRequests
<1>2. Lists(q, "issue_reports", IssueReportsRoot)
  BY <1>1, ProjectRoots, ListsBelow
<1>3. <<"issue_reports", IssueReportsRoot>> \in Places
  BY DEF Places
<1>4. \E place \in Places :
        place[1] = "issue_reports" /\ IsPrefix(place[2], q.key) /\ place[2][1] = q.key[1]
  <2>1. PICK place : place = <<"issue_reports", IssueReportsRoot>>
    OBVIOUS
  <2> QED
    BY <1>2, <1>3, <2>1 DEF Lists
<1> QED
  BY <1>2, <1>4 DEF Placed, Lists

LEMMA PlatformLogQueriesPlaced == ASSUME NEW q \in PlatformLogQueries PROVE Placed(q)
<1>1. PICK s, x : /\ IsPath(s) /\ q = x
                  /\ \/ x = Query(PlatformLogsRoot \o s, {"platform_logs", "integration_jobs"})
  BY Word, Words DEF PlatformLogQueries, PlatformLogRequests
<1>2. PICK y : y = Query(PlatformLogsRoot \o s, {"platform_logs"})
  OBVIOUS
<1>3. Lists(y, "platform_logs", PlatformLogsRoot)
  BY <1>1, <1>2, ProjectRoots, ListsBelow
<1>4. q.key = y.key /\ q.rows = {"platform_logs", "integration_jobs"}
  BY <1>1, <1>2 DEF Query
<1>5. IsPrefix(PlatformLogsRoot, q.key) /\ PlatformLogsRoot[1] = q.key[1]
  BY <1>3, <1>4 DEF Lists
<1>6. ASSUME NEW t \in {"platform_logs", "integration_jobs"}
      PROVE  \E place \in Places :
               place[1] = t /\ IsPrefix(place[2], q.key) /\ place[2][1] = q.key[1]
  <2>1. PICK place : place = <<t, PlatformLogsRoot>>
    OBVIOUS
  <2>2. <<t, PlatformLogsRoot>> \in Places
    BY DEF Places
  <2> QED
    BY <1>5, <2>1, <2>2
<1> QED
  BY <1>4, <1>6 DEF Placed

LEMMA PersonnelQueriesPlaced == ASSUME NEW q \in PersonnelQueries PROVE Placed(q)
<1>1. \/ q = Query(<<"management", "personnel-workers", "filters">>, {"workers"})
      \/ q = Query(<<"management", "personnel-worker", "worker">>, {"workers"})
  BY DEF PersonnelQueries, WorkerRequests
<1>2. CASE q = Query(<<"management", "personnel-workers", "filters">>, {"workers"})
  <2>1. <<"management", "personnel-workers", "filters">>
          = <<"management", "personnel-workers">> \o <<"filters">>
    BY Joined
  <2>2. PICK p : p = <<"management", "personnel-workers">>
    OBVIOUS
  <2>3. IsPath(p) /\ IsPath(<<"filters">>) /\ q = Query(p \o <<"filters">>, {"workers"})
    BY <1>2, <2>1, <2>2, Word, Words
  <2>4. Lists(q, "workers", p)
    BY <2>3, ListsBelow
  <2>5. <<"workers", p>> \in Places
    BY <2>2 DEF Places
  <2> QED
    BY <2>4, <2>5, HasPlace
<1>3. CASE q = Query(<<"management", "personnel-worker", "worker">>, {"workers"})
  <2>1. q.key = <<"management", "personnel-worker", "worker">> /\ q.rows = {"workers"}
    BY <1>3 DEF Query
  <2>2. q.key[1] = "management" /\ q.key[2] = "personnel-worker"
    BY <2>1
  <2> QED
    BY <2>1, <2>2 DEF Placed, Elsewhere
<1> QED
  BY <1>1, <1>2, <1>3

\* Every entry of the cache is at its place.
LEMMA QueriesPlaced == ASSUME NEW q \in Queries PROVE Placed(q)
BY ProjectQueriesPlaced, UnitQueriesPlaced, TeamQueriesPlaced, WorkerQueriesPlaced,
   AttendanceQueriesPlaced, WageQueriesPlaced, DeviceQueriesPlaced, IssueReportQueriesPlaced,
   AlertQueriesPlaced, ContractQueriesPlaced, WorkHourQueriesPlaced,
   PlatformConfigQueriesPlaced, PlatformLogQueriesPlaced, OverviewQueriesPlaced,
   CustomerQueriesPlaced, OwnEntityQueriesPlaced, EnterpriseProjectQueriesPlaced,
   PhotoGroupQueriesPlaced, ManagedQueriesPlaced, SupplementalQueriesPlaced,
   DashboardQueriesPlaced, AdminQueriesPlaced, PersonnelQueriesPlaced, ReportQueriesPlaced
   DEF Queries

-----------------------------------------------------------------------------
(* Every change marks the places of the tables it writes. *)

\* Every place of t is p.
HomeIs(t, p) == \A place \in Places : place[1] = t => place[2] = p

\* The places of the tables, but for those that have two.
LEMMA Homes ==
  /\ HomeIs("projects", Projects)
  /\ HomeIs("units", UnitsRoot)
  /\ HomeIs("teams", TeamsRoot)
  /\ HomeIs("wage_batches", Project)
  /\ HomeIs("attendance_devices", DevicesRoot)
  /\ HomeIs("issue_reports", IssueReportsRoot)
  /\ HomeIs("alert_configs", AlertConfigsRoot)
  /\ HomeIs("alert_logs", AlertLogsRoot)
  /\ HomeIs("contract_templates", TemplatesRoot)
  /\ HomeIs("contract_configs", ContractConfig)
  /\ HomeIs("work_hour_configs", WorkHoursRoot)
  /\ HomeIs("platform_configs", PlatformConfigsRoot)
  /\ HomeIs("platform_logs", PlatformLogsRoot)
  /\ HomeIs("integration_jobs", PlatformLogsRoot)
  /\ HomeIs("customers", CustomersRoot)
  /\ HomeIs("own_entities", OwnEntitiesRoot)
  /\ HomeIs("enterprise_projects", EnterpriseList)
  /\ HomeIs("this_project", EnterpriseProject)
  /\ HomeIs("photo_groups", PhotoGroupsRoot)
  /\ HomeIs("users", UsersRoot)
  /\ HomeIs("roles", RolesRoot)
  /\ HomeIs("api_keys", ApiKeysRoot)
  /\ HomeIs("attendance", AttendanceRoot)
  /\ HomeIs("managed_configs", ManagedConfigsRoot)
  /\ HomeIs("report_configs", <<"report-configs">>)
<1>1. HomeIs("projects", Projects)
  BY DEF HomeIs, Places
<1>2. HomeIs("units", UnitsRoot)
  BY DEF HomeIs, Places
<1>3. HomeIs("teams", TeamsRoot)
  BY DEF HomeIs, Places
<1>4. HomeIs("wage_batches", Project)
  BY DEF HomeIs, Places
<1>5. HomeIs("attendance_devices", DevicesRoot)
  BY DEF HomeIs, Places
<1>6. HomeIs("issue_reports", IssueReportsRoot)
  BY DEF HomeIs, Places
<1>7. HomeIs("alert_configs", AlertConfigsRoot)
  BY DEF HomeIs, Places
<1>8. HomeIs("alert_logs", AlertLogsRoot)
  BY DEF HomeIs, Places
<1>9. HomeIs("contract_templates", TemplatesRoot)
  BY DEF HomeIs, Places
<1>10. HomeIs("contract_configs", ContractConfig)
  BY DEF HomeIs, Places
<1>11. HomeIs("work_hour_configs", WorkHoursRoot)
  BY DEF HomeIs, Places
<1>12. HomeIs("platform_configs", PlatformConfigsRoot)
  BY DEF HomeIs, Places
<1>13. HomeIs("platform_logs", PlatformLogsRoot)
  BY DEF HomeIs, Places
<1>14. HomeIs("integration_jobs", PlatformLogsRoot)
  BY DEF HomeIs, Places
<1>15. HomeIs("customers", CustomersRoot)
  BY DEF HomeIs, Places
<1>16. HomeIs("own_entities", OwnEntitiesRoot)
  BY DEF HomeIs, Places
<1>17. HomeIs("enterprise_projects", EnterpriseList)
  BY DEF HomeIs, Places
<1>18. HomeIs("this_project", EnterpriseProject)
  BY DEF HomeIs, Places
<1>19. HomeIs("photo_groups", PhotoGroupsRoot)
  BY DEF HomeIs, Places
<1>20. HomeIs("users", UsersRoot)
  BY DEF HomeIs, Places
<1>21. HomeIs("roles", RolesRoot)
  BY DEF HomeIs, Places
<1>22. HomeIs("api_keys", ApiKeysRoot)
  BY DEF HomeIs, Places
<1>23. HomeIs("attendance", AttendanceRoot)
  BY DEF HomeIs, Places
<1>24. HomeIs("managed_configs", ManagedConfigsRoot)
  BY DEF HomeIs, Places
<1>25. HomeIs("report_configs", <<"report-configs">>)
  BY DEF HomeIs, Places
<1> QED
  BY <1>1, <1>2, <1>3, <1>4, <1>5, <1>6, <1>7, <1>8, <1>9, <1>10, <1>11, <1>12, <1>13, <1>14,
     <1>15, <1>16, <1>17, <1>18, <1>19, <1>20, <1>21, <1>22, <1>23, <1>24, <1>25

LEMMA ProjectMutationsMark == ASSUME NEW m \in ProjectMutations PROVE Marking(m)
<1>1. m.writes \subseteq {"projects"}
  BY DEF ProjectMutations, ProjectRequests, Mutation
<1>2. /\ "projects" \in m.writes => Projects \in m.marks
  BY DEF ProjectMutations, ProjectRequests, Mutation
<1> QED
  BY <1>1, <1>2, Homes DEF Marking, HomeIs

LEMMA UnitMutationsMark == ASSUME NEW m \in UnitMutations PROVE Marking(m)
<1>1. m.writes \subseteq {"units", "integration_outbox_events"}
  BY DEF UnitMutations, UnitRequests, Mutation
<1>2. /\ "units" \in m.writes => UnitsRoot \in m.marks
  BY DEF UnitMutations, UnitRequests, Mutation
<1>3. \A place \in Places : place[1] # "integration_outbox_events"
  BY DEF Places
<1> QED
  BY <1>1, <1>2, <1>3, Homes DEF Marking, HomeIs

LEMMA TeamMutationsMark == ASSUME NEW m \in TeamMutations PROVE Marking(m)
<1>1. m.writes \subseteq {"teams", "integration_outbox_events"}
  BY DEF TeamMutations, TeamRequests, Mutation
<1>2. /\ "teams" \in m.writes => TeamsRoot \in m.marks
  BY DEF TeamMutations, TeamRequests, Mutation
<1>3. \A place \in Places : place[1] # "integration_outbox_events"
  BY DEF Places
<1> QED
  BY <1>1, <1>2, <1>3, Homes DEF Marking, HomeIs

LEMMA WageMutationsMark == ASSUME NEW m \in WageMutations PROVE Marking(m)
<1>1. m.writes \subseteq {"wage_batches"}
  BY DEF WageMutations, WageRequests, Mutation
<1>2. /\ "wage_batches" \in m.writes => Project \in m.marks
  BY DEF WageMutations, WageRequests, Mutation
<1> QED
  BY <1>1, <1>2, Homes DEF Marking, HomeIs

LEMMA DeviceMutationsMark == ASSUME NEW m \in DeviceMutations PROVE Marking(m)
<1>1. m.writes \subseteq {"attendance_devices", "issue_reports"}
  BY DEF DeviceMutations, DeviceRequests, Mutation
<1>2. /\ "attendance_devices" \in m.writes => DevicesRoot \in m.marks
      /\ "issue_reports" \in m.writes => IssueReportsRoot \in m.marks
  BY DEF DeviceMutations, DeviceRequests, Mutation
<1> QED
  BY <1>1, <1>2, Homes DEF Marking, HomeIs

LEMMA IssueReportMutationsMark == ASSUME NEW m \in IssueReportMutations PROVE Marking(m)
<1>1. m.writes \subseteq {"issue_reports"}
  BY DEF IssueReportMutations, IssueReportRequests, Mutation
<1>2. /\ "issue_reports" \in m.writes => IssueReportsRoot \in m.marks
  BY DEF IssueReportMutations, IssueReportRequests, Mutation
<1> QED
  BY <1>1, <1>2, Homes DEF Marking, HomeIs

LEMMA AlertMutationsMark == ASSUME NEW m \in AlertMutations PROVE Marking(m)
<1>1. m.writes \subseteq {"alert_configs", "alert_logs"}
  BY DEF AlertMutations, AlertRequests, Mutation
<1>2. /\ "alert_configs" \in m.writes => AlertConfigsRoot \in m.marks
      /\ "alert_logs" \in m.writes => AlertLogsRoot \in m.marks
  BY DEF AlertMutations, AlertRequests, Mutation
<1> QED
  BY <1>1, <1>2, Homes DEF Marking, HomeIs

LEMMA ContractMutationsMark == ASSUME NEW m \in ContractMutations PROVE Marking(m)
<1>1. m.writes \subseteq {"contract_templates", "contract_configs"}
  BY DEF ContractMutations, ContractRequests, Mutation
<1>2. /\ "contract_templates" \in m.writes => TemplatesRoot \in m.marks
      /\ "contract_configs" \in m.writes => ContractConfig \in m.marks
  BY DEF ContractMutations, ContractRequests, Mutation
<1> QED
  BY <1>1, <1>2, Homes DEF Marking, HomeIs

LEMMA WorkHourMutationsMark == ASSUME NEW m \in WorkHourMutations PROVE Marking(m)
<1>1. m.writes \subseteq {"work_hour_configs"}
  BY DEF WorkHourMutations, WorkHourRequests, Mutation
<1>2. /\ "work_hour_configs" \in m.writes => WorkHoursRoot \in m.marks
  BY DEF WorkHourMutations, WorkHourRequests, Mutation
<1> QED
  BY <1>1, <1>2, Homes DEF Marking, HomeIs

LEMMA PlatformConfigMutationsMark == ASSUME NEW m \in PlatformConfigMutations PROVE Marking(m)
<1>1. m.writes \subseteq {"platform_configs", "platform_logs"}
  BY DEF PlatformConfigMutations, PlatformConfigRequests, Mutation
<1>2. /\ "platform_configs" \in m.writes => PlatformConfigsRoot \in m.marks
      /\ "platform_logs" \in m.writes => PlatformLogsRoot \in m.marks
  BY DEF PlatformConfigMutations, PlatformConfigRequests, Mutation
<1> QED
  BY <1>1, <1>2, Homes DEF Marking, HomeIs

LEMMA PlatformLogMutationsMark == ASSUME NEW m \in PlatformLogMutations PROVE Marking(m)
<1>1. m.writes \subseteq {"platform_logs", "integration_jobs"}
  BY DEF PlatformLogMutations, PlatformLogRequests, Mutation
<1>2. /\ "platform_logs" \in m.writes => PlatformLogsRoot \in m.marks
      /\ "integration_jobs" \in m.writes => PlatformLogsRoot \in m.marks
  BY DEF PlatformLogMutations, PlatformLogRequests, Mutation
<1> QED
  BY <1>1, <1>2, Homes DEF Marking, HomeIs

LEMMA CustomerMutationsMark == ASSUME NEW m \in CustomerMutations PROVE Marking(m)
<1>1. m.writes \subseteq {"customers"}
  BY DEF CustomerMutations, EnterpriseRequests, Mutation
<1>2. /\ "customers" \in m.writes => CustomersRoot \in m.marks
  BY DEF CustomerMutations, EnterpriseRequests, Mutation
<1> QED
  BY <1>1, <1>2, Homes DEF Marking, HomeIs

LEMMA OwnEntityMutationsMark == ASSUME NEW m \in OwnEntityMutations PROVE Marking(m)
<1>1. m.writes \subseteq {"own_entities"}
  BY DEF OwnEntityMutations, EnterpriseRequests, Mutation
<1>2. /\ "own_entities" \in m.writes => OwnEntitiesRoot \in m.marks
  BY DEF OwnEntityMutations, EnterpriseRequests, Mutation
<1> QED
  BY <1>1, <1>2, Homes DEF Marking, HomeIs

LEMMA EnterpriseProjectMutationsMark ==
  ASSUME NEW m \in EnterpriseProjectMutations PROVE Marking(m)
<1>1. m.writes \subseteq {"enterprise_projects", "this_project"}
  BY DEF EnterpriseProjectMutations, EnterpriseProjectRequests, Mutation
<1>2. /\ "enterprise_projects" \in m.writes => EnterpriseList \in m.marks
      /\ "this_project" \in m.writes => EnterpriseProject \in m.marks
  BY DEF EnterpriseProjectMutations, EnterpriseProjectRequests, Mutation
<1> QED
  BY <1>1, <1>2, Homes DEF Marking, HomeIs

LEMMA PhotoGroupMutationsMark == ASSUME NEW m \in PhotoGroupMutations PROVE Marking(m)
<1>1. m.writes \subseteq {"photo_groups"}
  BY DEF PhotoGroupMutations, ManagedRequests, Mutation
<1>2. /\ "photo_groups" \in m.writes => PhotoGroupsRoot \in m.marks
  BY DEF PhotoGroupMutations, ManagedRequests, Mutation
<1> QED
  BY <1>1, <1>2, Homes DEF Marking, HomeIs

LEMMA AdminMutationsMark == ASSUME NEW m \in AdminMutations PROVE Marking(m)
<1>1. m.writes \subseteq {"users", "roles", "api_keys"}
  BY DEF AdminMutations, AdminRequests, Mutation, RoleMutations
<1>2. /\ "users" \in m.writes => UsersRoot \in m.marks
      /\ "roles" \in m.writes => RolesRoot \in m.marks
      /\ "api_keys" \in m.writes => ApiKeysRoot \in m.marks
  BY DEF AdminMutations, AdminRequests, Mutation, RoleMutations
<1> QED
  BY <1>1, <1>2, Homes DEF Marking, HomeIs

LEMMA WorkerMutationsMark == ASSUME NEW m \in WorkerMutations PROVE Marking(m)
<1>1. m.writes \subseteq {"workers", "issue_reports", "integration_outbox_events"}
  BY DEF WorkerMutations, WorkerRequests, Mutation
<1>2. WorkersRoot \in m.marks /\ m.marks \subseteq {WorkersRoot, WorkersRoot \o <<"worker">>}
  BY DEF WorkerMutations, WorkerRequests, Mutation
<1>3. (WorkersRoot \o <<"worker">>)[1] = "construction-projects"
  BY ProjectRoots, Word, PathBelow
<1>4. \A path \in m.marks : path[1] = "construction-projects"
  BY <1>2, <1>3, ProjectRoots
<1>5. \A place \in Places :
        /\ place[1] # "integration_outbox_events"
        /\ place[1] = "workers" =>
             place[2] = WorkersRoot \/ place[2] = <<"management", "personnel-workers">>
  BY DEF Places
<1>6. <<"management", "personnel-workers">>[1] # "construction-projects"
  OBVIOUS
<1>7. \A place \in Places :
        \/ place[1] # "workers" \/ place[2] \in m.marks
        \/ \A path \in m.marks : path[1] # place[2][1]
  BY <1>2, <1>4, <1>5, <1>6
<1> QED
  BY <1>1, <1>4, <1>5, <1>7 DEF Marking

LEMMA PersonnelMutationsMark == ASSUME NEW m \in PersonnelMutations PROVE Marking(m)
<1>1. m.writes \subseteq {"workers"} /\ m.marks = {<<"management", "personnel-workers">>}
  BY DEF PersonnelMutations, WorkerRequests, Mutation
<1>2. \A path \in m.marks : path[1] = "management"
  BY <1>1
<1>3. \A place \in Places :
        place[1] = "workers" =>
          place[2] = WorkersRoot \/ place[2] = <<"management", "personnel-workers">>
  BY DEF Places
<1>4. \A place \in Places :
        \/ place[1] # "workers" \/ place[2] \in m.marks
        \/ \A path \in m.marks : path[1] # place[2][1]
  BY <1>1, <1>2, <1>3, ProjectRoots
<1> QED
  BY <1>1, <1>2, <1>4 DEF Marking

LEMMA AttendanceMutationsMark == ASSUME NEW m \in AttendanceMutations PROVE Marking(m)
<1>1. \/ m.writes = {"attendance"} /\ AttendanceRoot \in m.marks
      \/ m.writes \subseteq {"integration_jobs"} /\ m.marks = {}
  BY DEF AttendanceMutations, AttendanceRequests, Mutation
<1> QED
  BY <1>1, Homes DEF Marking, HomeIs

LEMMA EnterpriseRecordMutationsMark ==
  ASSUME NEW m \in EnterpriseRecordMutations PROVE Marking(m)
<1>1. m.writes = {"financial_records"} /\ RecordsRoot \in m.marks /\ Summary \in m.marks
  BY DEF EnterpriseRecordMutations, EnterpriseProjectRequests, Mutation
<1>2. \A place \in Places :
        place[1] = "financial_records" => place[2] = Summary \/ place[2] = RecordsRoot
  BY DEF Places
<1> QED
  BY <1>1, <1>2 DEF Marking

\* The records of the managed attendance are also listed with the supplemental ones.
LEMMA RecordPlaces ==
  \A place \in Places :
    place[1] = "managed_records" =>
      \/ place[2] = ManagedRecordsRoot /\ place[2][1] = "managed-attendance"
      \/ place[2] = Supplemental /\ place[2][1] = "supplemental-attendance"
<1>1. \A place \in Places :
        place[1] = "managed_records" => place[2] = ManagedRecordsRoot \/ place[2] = Supplemental
  BY DEF Places
<1> QED
  BY <1>1, ManagedRoots, OtherRoots

LEMMA ManagedConfigMutationsMark ==
  ASSUME NEW m \in ManagedConfigMutations PROVE Marking(m)
<1>1. m.writes \subseteq {"managed_configs", "managed_records"}
  BY DEF ManagedConfigMutations, ManagedRequests, Mutation
<1>2. /\ ManagedConfigsRoot \in m.marks
      /\ "managed_records" \in m.writes => ManagedRecordsRoot \in m.marks
      /\ \/ Supplemental \in m.marks
         \/ m.marks \subseteq {ManagedConfigsRoot, ManagedRecordsRoot}
  BY DEF ManagedConfigMutations, ManagedRequests, Mutation
<1>3. \/ Supplemental \in m.marks
      \/ \A path \in m.marks : path[1] = "managed-attendance"
  BY <1>2, ManagedRoots
<1> QED
  BY <1>1, <1>2, <1>3, RecordPlaces, Homes DEF Marking, HomeIs

LEMMA ManagedRunMutationsMark == ASSUME NEW m \in ManagedRunMutations PROVE Marking(m)
<1>1. m.writes = {"managed_records"}
  BY DEF ManagedRunMutations, ManagedRequests, Mutation
<1>2. /\ ManagedRecordsRoot \in m.marks
      /\ \/ Supplemental \in m.marks
         \/ m.marks \subseteq {ManagedConfigsRoot, ManagedRecordsRoot}
  BY DEF ManagedRunMutations, ManagedRequests, Mutation
<1>3. \/ Supplemental \in m.marks
      \/ \A path \in m.marks : path[1] = "managed-attendance"
  BY <1>2, ManagedRoots
<1> QED
  BY <1>1, <1>2, <1>3, RecordPlaces DEF Marking

LEMMA SupplementalMutationsMark ==
  ASSUME NEW m \in SupplementalMutations PROVE Marking(m)
<1>1. m.writes = {"managed_records"} /\ m.marks = {Supplemental}
  BY DEF SupplementalMutations, SupplementalRequests, Mutation
<1>2. \A path \in m.marks : path[1] = "supplemental-attendance"
  BY <1>1, OtherRoots
<1> QED
  BY <1>1, <1>2, RecordPlaces DEF Marking

LEMMA ReportMutationsMark == ASSUME NEW m \in ReportMutations PROVE Marking(m)
<1>1. /\ m.writes \subseteq {"report_configs", "report_runs"}
      /\ m.marks = {<<"report-summary">>, <<"report-configs">>, <<"report-runs">>}
  BY DEF ReportMutations, Mutation
<1>2. \A place \in Places :
        place[1] = "report_runs" =>
          place[2] = <<"report-runs">> \/ place[2] = <<"report-run">>
  BY DEF Places
<1>3. \A path \in m.marks : path[1] # "report-run"
  BY <1>1
<1>4. \A place \in Places :
        \/ place[1] # "report_runs" \/ place[2] \in m.marks
        \/ \A path \in m.marks : path[1] # place[2][1]
  <2>1. <<"report-runs">> \in m.marks /\ <<"report-run">>[1] = "report-run"
    BY <1>1
  <2> QED
    BY <1>2, <1>3, <2>1
<1>5. \A place \in Places : place[1] = "report_configs" => place[2] \in m.marks
  BY <1>1, Homes DEF HomeIs
<1> QED
  BY <1>1, <1>4, <1>5 DEF Marking

LEMMA MutationsMark == ASSUME NEW m \in Mutations PROVE Marking(m)
BY ProjectMutationsMark, UnitMutationsMark, TeamMutationsMark, WorkerMutationsMark,
   AttendanceMutationsMark, WageMutationsMark, DeviceMutationsMark, IssueReportMutationsMark,
   AlertMutationsMark, ContractMutationsMark, WorkHourMutationsMark,
   PlatformConfigMutationsMark, PlatformLogMutationsMark, CustomerMutationsMark,
   OwnEntityMutationsMark, EnterpriseProjectMutationsMark, EnterpriseRecordMutationsMark,
   PhotoGroupMutationsMark, ManagedConfigMutationsMark, ManagedRunMutationsMark,
   SupplementalMutationsMark, AdminMutationsMark, PersonnelMutationsMark, ReportMutationsMark
   DEF Mutations

\* What a change owes to an entry, it marks: the rows they share have a place, the entry is
\* there or below, and the change marks the place.
LEMMA OwedIsMarked ==
  ASSUME NEW m \in Mutations, NEW q \in Queries, Owes(m, q)
  PROVE  Marked(q, m)
<1>1. Placed(q) /\ Marking(m)
  BY QueriesPlaced, MutationsMark
<1>2. PICK t : t \in m.writes /\ t \in q.rows
  BY DEF Owes
<1>3. PICK path : path \in m.marks /\ path[1] = q.key[1]
  BY DEF Owes
<1>4. ~LeftOut(m, q)
  BY DEF Owes
<1>5. ~Elsewhere(q, t)
  <2>1. SUFFICES ASSUME Elsewhere(q, t) PROVE FALSE
    OBVIOUS
  <2>2. t = "workers"
    BY <2>1 DEF Elsewhere
  <2>3. \/ m \in WorkerMutations /\ path[1] = "construction-projects"
        \/ m \in PersonnelMutations /\ path[1] = "management"
    BY <1>1, <1>2, <1>3, <2>2 DEF Marking
  <2>4. CASE q \in AttendanceQueries /\ q.key[1] = "construction-projects"
    BY <1>3, <1>4, <2>3, <2>4 DEF LeftOut
  <2>5. CASE q.key[1] = "management" /\ q.key[2] = "personnel-worker"
    BY <1>3, <1>4, <2>3, <2>5 DEF LeftOut
  <2> QED
    BY <2>1, <2>4, <2>5 DEF Elsewhere
<1>6. PICK place \in Places :
        place[1] = t /\ IsPrefix(place[2], q.key) /\ place[2][1] = q.key[1]
  BY <1>1, <1>2, <1>5 DEF Placed
<1>7. ~(t = "issue_reports" /\ m \in WorkerMutations)
  BY <1>1, <1>2, <1>4, <1>5 DEF Placed, LeftOut
<1>8. place[2] \in m.marks
  BY <1>1, <1>2, <1>3, <1>6, <1>7 DEF Marking
<1> QED
  BY <1>6, <1>8 DEF Marked
-----------------------------------------------------------------------------
(* A user's own changes. No version is ahead of the server's; an answer is *)
(* as new as what this console knows, or a change overtook its request;    *)
(* and so is a cached answer that nobody asks for again, unless it is due  *)
(* and will be asked for when its page is shown.                           *)

HooksMark == \A n \in News : n.owes => n.marks

\* Whatever a hook's confirmed change owes to an entry of the cache, it marks: for every pair
\* of a change and an entry of the console, but the three that ConsoleKeys leaves out.
THEOREM TheHooksMark == HooksMark
BY OwedIsMarked DEF HooksMark, News

Versioned ==
  /\ entry.version <= version /\ fetch.version <= version
  /\ change.version <= version /\ known <= version
  /\ change.owes => change.marks
Fresh ==
  /\ fetch.stage = "answered" /\ ~fetch.overtaken => fetch.version >= known
  /\ fetch.stage = "idle" /\ ~fetch.overtaken /\ entry.has /\ (shown \/ ~entry.due)
       => entry.version >= known

LEMMA FreshInit == Init => Versioned /\ Fresh
<1> SUFFICES ASSUME Init PROVE Versioned /\ Fresh
  OBVIOUS
<1>1. Resting.version = 0 /\ Still.owes = FALSE /\ Still.version = 0 /\ Nothing.version = 0
  BY DEF Resting, Still, Nothing
<1> QED
  BY <1>1, EmptyIs, RestingIs DEF Init, CacheInit, Versioned, Fresh

LEMMA VersionsStep ==
  ASSUME HooksMark, CacheTypeOK, Versioned, CacheStep
  PROVE  Versioned' /\ version' >= version
<1>1. /\ entry \in EntryType /\ fetch \in FetchType /\ change \in ChangeType
      /\ version \in Nat /\ known \in Nat /\ entry.version \in Nat /\ fetch.version \in Nat
      /\ change.version \in Nat
  BY CacheTypes, QueryCacheAssumption DEF Versions, EntryType, FetchType, ChangeType
<1>2. /\ Nothing.version = 0 /\ Resting.version = 0 /\ Asking.version = 0
      /\ Still.version = 0 /\ Still.owes = FALSE
  <2>1. Resting \in FetchType /\ Resting.version = 0
    BY RestingIs DEF Resting
  <2>2. Asking.version = Resting.version
    BY <2>1 DEF Asking, FetchType
  <2> QED
    BY <2>1, <2>2 DEF Nothing, Still
<1>3. CASE Mount \/ Unmount \/ Poll \/ Retry \/ Refuse \/ (\E u \in Users : Answer(u))
           \/ (AskAgain /\ UNCHANGED <<version, entry, shown, change, known>>)
  <2>1. UNCHANGED <<version, entry, change, known>>
    BY <1>3 DEF Mount, Unmount, Poll, Retry, Refuse, Answer, AskAgain
  <2>2. \/ fetch' = fetch
        \/ fetch' = Asking
        \/ fetch'.version = fetch.version
        \/ fetch'.version = version
    BY <1>1, <1>3 DEF Mount, Unmount, Poll, Retry, Refuse, Answer, AskAgain, FetchType
  <2> QED
    BY <1>1, <1>2, <2>1, <2>2 DEF Versioned
<1>4. CASE GrowStale \/ Collect \/ FailFetch
  <2>1. UNCHANGED <<version, change, known>>
    BY <1>4 DEF GrowStale, Collect, FailFetch
  <2>2. entry'.version = entry.version \/ entry'.version = 0
    BY <1>1, <1>2, <1>4 DEF GrowStale, Collect, FailFetch, EntryType
  <2>3. fetch'.version = fetch.version \/ fetch'.version = 0
    <3>1. Asking \in FetchType /\ Resting \in FetchType
      BY AskingIs, RestingIs
    <3> QED
      BY <1>1, <1>2, <1>4, <3>1 DEF GrowStale, Collect, FailFetch, FetchType
  <2> QED
    BY <1>1, <2>1, <2>2, <2>3 DEF Versioned
<1>5. CASE Receive
  <2>1. entry'.version = fetch.version /\ UNCHANGED <<version, change, known>>
    BY <1>5 DEF Receive
  <2>2. fetch'.version = 0
    <3>1. Resting \in FetchType
      BY RestingIs
    <3> QED
      BY <1>2, <1>5, <3>1 DEF Receive, FetchType
  <2> QED
    BY <1>1, <2>1, <2>2 DEF Versioned
<1>6. CASE ChangeElsewhere
  BY <1>1, <1>6 DEF ChangeElsewhere, Versioned
<1>7. CASE \E n \in News : Submit(n)
  BY <1>1, <1>7 DEF Submit, Versioned, HooksMark
<1>8. CASE Apply
  <2>1. version' \in Nat /\ version' >= version /\ UNCHANGED <<entry, fetch, known>>
    BY <1>1, <1>8 DEF Apply
  <2>2. change'.version = version' /\ change'.owes = change.owes /\ change'.marks = change.marks
    BY <1>1, <1>8 DEF Apply, ChangeType
  <2> QED
    BY <1>1, <2>1, <2>2 DEF Versioned
<1>9. CASE LoseChange \/ UNCHANGED cacheVars
  BY <1>1, <1>2, <1>9 DEF LoseChange, Versioned, cacheVars
<1>10. CASE Confirm
  <2>1. version' = version /\ change' = Still /\ (known' = known \/ known' = change.version)
    BY <1>10 DEF Confirm
  <2>2. entry'.version = entry.version
    BY <1>1, <1>10 DEF Confirm, Invalidated, EntryType
  <2>3. fetch'.version = fetch.version \/ fetch' = Asking
    BY <1>1, <1>10 DEF Confirm, Invalidated, FetchType
  <2> QED
    BY <1>1, <1>2, <2>1, <2>2, <2>3 DEF Versioned
<1>11. CASE Clear /\ change' \in {change, Still} /\ UNCHANGED version
  BY <1>1, <1>2, <1>11 DEF Clear, Versioned
<1> QED
  BY <1>3, <1>4, <1>5, <1>6, <1>7, <1>8, <1>9, <1>10, <1>11 DEF CacheStep

LEMMA FreshStep ==
  ASSUME CacheTypeOK, Versioned, Fresh, CacheStep
  PROVE  Fresh'
<1>1. /\ entry \in EntryType /\ fetch \in FetchType /\ change \in ChangeType
      /\ version \in Nat /\ known \in Nat /\ entry.version \in Nat /\ fetch.version \in Nat
      /\ change.version \in Nat /\ entry.has \in BOOLEAN /\ fetch.overtaken \in BOOLEAN
  BY CacheTypes, QueryCacheAssumption DEF Versions, EntryType, FetchType, ChangeType
\* A request that starts or fails promises nothing yet.
<1>2. ASSUME fetch'.stage \notin {"answered", "idle"} PROVE Fresh'
  BY <1>2 DEF Fresh
<1>3. CASE Mount
  <2>1. CASE fetch' = Asking
    BY <1>2, <2>1, AskingIs
  <2>2. CASE fetch' = fetch
    BY <1>3, <2>2, AskingIs DEF Mount, Fresh
  <2> QED
    BY <1>3, <2>1, <2>2 DEF Mount
<1>4. CASE Poll \/ Retry
  BY <1>2, <1>4, AskingIs DEF Poll, Retry
<1>5. CASE Unmount \/ UNCHANGED cacheVars
  BY <1>5 DEF Unmount, cacheVars, Fresh
<1>6. CASE GrowStale
  <2>1. entry'.version = entry.version /\ entry'.has = entry.has
    BY <1>1, <1>6 DEF GrowStale, EntryType
  <2> QED
    BY <1>6, <2>1 DEF GrowStale, Fresh
<1>7. CASE Collect
  BY <1>7, EmptyIs DEF Collect, Fresh
<1>8. CASE Receive
  <2>1. fetch'.stage = "idle" /\ fetch'.overtaken = fetch.overtaken
    BY <1>1, <1>8, RestingIs DEF Receive
  <2>2. entry'.version = fetch.version /\ known' = known
    BY <1>8 DEF Receive
  <2> QED
    BY <1>8, <2>1, <2>2 DEF Receive, Fresh
<1>9. CASE FailFetch
  BY <1>1, <1>2, <1>9, AskingIs, RestingIs DEF FailFetch
<1>10. CASE ChangeElsewhere \/ (\E n \in News : Submit(n)) \/ Apply \/ LoseChange
  BY <1>10 DEF ChangeElsewhere, Submit, Apply, LoseChange, Fresh
\* The server's answer is as new as anything.
<1>11. CASE \E u \in Users : Answer(u)
  <2>1. fetch'.version = version /\ fetch'.stage = "answered" /\ known' = known
    BY <1>1, <1>11 DEF Answer, FetchType
  <2> QED
    BY <1>1, <2>1 DEF Fresh, Versioned
<1>12. CASE Refuse \/ (AskAgain /\ UNCHANGED <<version, entry, shown, change, known>>)
  <2>1. fetch' = fetch \/ fetch'.stage \in {"refused", "asked"}
    BY <1>1, <1>12 DEF Refuse, AskAgain, FetchType
  <2>2. CASE fetch' = fetch
    BY <1>12, <2>2 DEF Refuse, Fresh
  <2> QED
    BY <1>2, <2>1, <2>2
\* A confirmed change marks the entry: it is asked for again, or due, or waited for.
<1>13. CASE Confirm
  <2>1. CASE known' = known /\ UNCHANGED <<entry, fetch>>
    BY <1>13, <2>1 DEF Confirm, Fresh
  <2>2. CASE Invalidated
    <3>1. entry'.has = entry.has /\ entry'.due = entry.has
      BY <1>1, <2>2 DEF Invalidated, EntryType
    <3>2. CASE shown /\ (entry.has \/ fetch.stage \in {"idle", "failed"})
      <4>1. fetch' = Asking
        BY <2>2, <3>2 DEF Invalidated
      <4> QED
        BY <1>2, <4>1, AskingIs
    <3>3. CASE fetch.stage \notin {"idle", "failed"} /\ ~(shown /\ entry.has)
      <4>1. fetch' = [fetch EXCEPT !.overtaken = TRUE]
        BY <2>2, <3>3 DEF Invalidated
      <4>2. fetch'.overtaken
        BY <1>1, <4>1 DEF FetchType
      <4> QED
        BY <4>2 DEF Fresh
    <3>4. CASE ~shown /\ fetch.stage \in {"idle", "failed"}
      <4>1. fetch' = fetch /\ shown' = shown
        BY <1>13, <2>2, <3>4 DEF Confirm, Invalidated
      <4> QED
        BY <3>1, <3>4, <4>1 DEF Fresh
    <3> QED
      BY <3>2, <3>3, <3>4
  <2> QED
    BY <1>13, <2>1, <2>2 DEF Confirm, Versioned
<1>14. CASE Clear /\ change' \in {change, Still} /\ UNCHANGED version
  BY <1>14, EmptyIs, RestingIs DEF Clear, Fresh
<1> QED
  BY <1>3, <1>4, <1>5, <1>6, <1>7, <1>8, <1>9, <1>10, <1>11, <1>12, <1>13, <1>14 DEF CacheStep

FreshInv == TypeOK /\ Versioned /\ Fresh

LEMMA FreshInvStep == FreshInv /\ [Next]_vars => FreshInv'
<1> SUFFICES ASSUME FreshInv, [Next]_vars PROVE FreshInv'
  OBVIOUS
<1>1. CacheStep
  BY StepsOfBoth DEF FreshInv
<1>2. TypeOK'
  BY ConsoleStaysTyped DEF FreshInv
<1>3. CacheTypeOK /\ Versioned /\ Fresh
  BY DEF FreshInv, TypeOK
<1>4. Versioned'
  BY <1>1, <1>3, TheHooksMark, VersionsStep
<1>5. Fresh'
  BY <1>1, <1>3, FreshStep
<1> QED
  BY <1>2, <1>4, <1>5 DEF FreshInv

\* Who has changed something sees it: every change a hook makes marks the entries that list
\* what it changed, so that no shown answer is older than what this console knows to be done
\* while nothing is on its way, unless its request was overtaken.
THEOREM OwnChangesAreShown == Spec => []SeesOwnChanges
<1>1. Init => FreshInv
  BY ConsoleInitTyped, FreshInit DEF FreshInv
<1>2. FreshInv => SeesOwnChanges
  BY DEF FreshInv, Fresh, SeesOwnChanges
<1> QED
  BY <1>1, <1>2, FreshInvStep, PTL DEF Spec
=============================================================================
