------------------------------- MODULE Accounts ------------------------------
(***************************************************************************)
(* Users and their channels: the login with Discord (web/oauth.go), the    *)
(* lookup that stores a user's token (web/discord_api.go), the sealed      *)
(* cookies (web/secrets.go), the definitions of channels (web/             *)
(* channel_def.go) and their tables (model/).  A request carries the       *)
(* cookies its browser has when it is sent, and what the server sets       *)
(* reaches the browser with the response, so that the tabs of one browser  *)
(* overlap.  Discord is external; its refresh tokens work once.            *)
(***************************************************************************)
EXTENDS Integers, FiniteSets

CONSTANTS User, Browser, Name, None,
          Login, Hook,   \* logins, and webhook calls at a time
          MaxTokens      \* bound: tokens that Discord issues

ASSUME AccountsAssumption ==
    /\ None \notin User \cup Browser \cup Login
    /\ Login \cap Hook = {}

VARIABLES
    users,       \* table users: token and announce flag; token 0: no row
    defs,        \* table channel_defs: owner and announce flag, or NoDef
    stateCookie, \* per browser: the login whose state it holds, or None
    loginCookie, \* per browser: the user logged in, or None
    logins,      \* per login: its progress, the browser it was started in, and
                 \*   the user who agreed to it at Discord
    jobs,        \* calls of lookupUser: for the callback of a login, for a hook
    issued,      \* tokens that Discord has issued
    spent,       \* tokens that were exchanged for a newer one
    lost,        \* history: users for whom a lookup failed after a refresh
    raced,       \* history: users with two lookups at a time
    disturbed    \* history: logins whose browser got another answer about logins

cookieVars == <<stateCookie, loginCookie>>
tokenVars  == <<users, issued, spent, lost>>
vars == <<cookieVars, tokenVars, defs, logins, jobs, raced, disturbed>>

Job == Login \cup Hook
NoDef == [owner |-> None, announce |-> FALSE]
At(p, u, b, t, f) == [pc |-> p, user |-> u, browser |-> b, token |-> t,
                      fresh |-> f, announce |-> FALSE]
InLookup == {"user", "guilds", "store"}

Init ==
    /\ users = [u \in User |-> [token |-> 0, announce |-> FALSE]]
    /\ defs = [n \in Name |-> NoDef]
    /\ stateCookie = [b \in Browser |-> None] /\ loginCookie = stateCookie
    /\ logins = [l \in Login |-> [pc |-> "idle", browser |-> None, user |-> None]]
    /\ jobs = [j \in Job |-> At("idle", None, None, 0, FALSE)]
    /\ issued = 0 /\ spent = {} /\ lost = {} /\ raced = {} /\ disturbed = {}

\* Another lookup for the user is in progress.
Racing(u) == IF \E j \in Job : jobs[j].user = u /\ jobs[j].pc \in InLookup
             THEN raced \cup {u} ELSE raced

StartedIn(b) == {l \in Login : logins[l].browser = b}

-----------------------------------------------------------------------------
(***************************************************************************)
(* Logging in and out.                                                     *)
(***************************************************************************)
viewOauthLoginIfNew(l, b) ==        \* no new state for a browser that is logged in
    /\ logins[l].pc = "idle"
    /\ logins' = [logins EXCEPT ![l] = [pc |-> "started", browser |-> b, user |-> None]]
    /\ stateCookie' = IF loginCookie[b] = None THEN [stateCookie EXCEPT ![b] = l]
                      ELSE stateCookie
    /\ disturbed' = disturbed \cup StartedIn(b)
    /\ UNCHANGED <<loginCookie, tokenVars, defs, jobs, raced>>

viewOauthLogin(l, b) ==
    /\ logins[l].pc = "idle"
    /\ logins' = [logins EXCEPT ![l] = [pc |-> "started", browser |-> b, user |-> None]]
    /\ stateCookie' = [stateCookie EXCEPT ![b] = l]
    /\ disturbed' = disturbed \cup StartedIn(b)
    /\ UNCHANGED <<loginCookie, tokenVars, defs, jobs, raced>>

\* External: a user agrees, and Discord redirects to the callback.
Agree(l, u) ==
    /\ logins[l].pc = "started"
    /\ logins' = [logins EXCEPT ![l].pc = "agreed", ![l].user = u]
    /\ UNCHANGED <<cookieVars, tokenVars, defs, jobs, raced, disturbed>>

\* The callback starts a lookup with the token it got, or is turned down.
Callback(l, b, accepted) ==
    /\ logins[l].pc = "agreed" /\ logins' = [logins EXCEPT ![l].pc = "answered"]
    /\ \/ /\ accepted /\ issued < MaxTokens
          /\ issued' = issued + 1
          /\ jobs' = [jobs EXCEPT ![l] = At("user", logins[l].user, b, issued', TRUE)]
          /\ raced' = Racing(logins[l].user)
       \/ /\ ~accepted
          /\ jobs' = [jobs EXCEPT ![l] = At("refused", None, b, 0, FALSE)]
          /\ UNCHANGED <<issued, raced>>
    /\ UNCHANGED <<cookieVars, users, spent, lost, defs, disturbed>>

viewOauthCBUnchecked(l, b) ==       \* any state will do
    Callback(l, b, stateCookie[b] # None)

\* viewOauthCB and tokenExchange: the browser must hold the state of the login.
viewOauthCB(l, b) == Callback(l, b, stateCookie[b] = l)

\* The response: the state cookie is cleared whatever happened, and a lookup
\* that succeeded sets the login cookie.
Respond(l) ==
    LET j == jobs[l] IN
    /\ j.pc \in {"refused", "failed", "stored"}
    /\ stateCookie' = [stateCookie EXCEPT ![j.browser] = None]
    /\ loginCookie' = [loginCookie EXCEPT ![j.browser] = IF j.pc = "stored" THEN j.user ELSE @]
    /\ jobs' = [jobs EXCEPT ![l].pc = "done"]
    /\ disturbed' = disturbed \cup StartedIn(j.browser)
    /\ UNCHANGED <<tokenVars, defs, logins, raced>>

\* viewOauthLogout, or the cookies expire.
viewOauthLogout(b) ==
    /\ loginCookie' = [loginCookie EXCEPT ![b] = None]
    /\ UNCHANGED <<stateCookie, tokenVars, defs, logins, jobs, raced, disturbed>>

ExpireState(b) ==
    /\ stateCookie[b] # None /\ stateCookie' = [stateCookie EXCEPT ![b] = None]
    /\ disturbed' = disturbed \cup StartedIn(b)
    /\ UNCHANGED <<loginCookie, tokenVars, defs, logins, jobs, raced>>

-----------------------------------------------------------------------------
(***************************************************************************)
(* lookupUser, for a login that was accepted or for a webhook.             *)
(***************************************************************************)

\* The first request refreshes a token that has expired, which works once.
GetUser(j) ==
    /\ jobs[j].pc = "user" /\ jobs[j].token \notin spent
    /\ \/ jobs' = [jobs EXCEPT ![j].pc = "guilds"] /\ UNCHANGED <<issued, spent>>
       \/ /\ ~jobs[j].fresh /\ issued < MaxTokens
          /\ issued' = issued + 1 /\ spent' = spent \cup {jobs[j].token}
          /\ jobs' = [jobs EXCEPT ![j].pc = "guilds", ![j].token = issued', ![j].fresh = TRUE]
    /\ UNCHANGED <<cookieVars, users, lost, defs, logins, raced, disturbed>>

GetGuilds(j) ==
    /\ jobs[j].pc = "guilds"
    /\ \E announce \in BOOLEAN :
          jobs' = [jobs EXCEPT ![j].pc = "store", ![j].announce = announce]
    /\ UNCHANGED <<cookieVars, tokenVars, defs, logins, raced, disturbed>>

SetUserOldToken(j) ==               \* SetUser(user.ID, token, announce)
    LET u == jobs[j].user IN
    /\ jobs[j].pc = "store" /\ jobs' = [jobs EXCEPT ![j].pc = "stored"]
    /\ users' = [users EXCEPT ![u] =
          [token |-> IF j \in Hook THEN @.token ELSE jobs[j].token, announce |-> jobs[j].announce]]
    /\ lost' = lost \ {u}
    /\ UNCHANGED <<cookieVars, issued, spent, defs, logins, raced, disturbed>>

\* "persist the possibly-updated token back to database"
SetUser(j) ==
    LET u == jobs[j].user IN
    /\ jobs[j].pc = "store" /\ jobs' = [jobs EXCEPT ![j].pc = "stored"]
    /\ users' = [users EXCEPT ![u] = [token |-> jobs[j].token, announce |-> jobs[j].announce]]
    /\ lost' = lost \ {u}
    /\ UNCHANGED <<cookieVars, issued, spent, defs, logins, raced, disturbed>>

\* A request to Discord, or the statement, fails: the token is not stored.
LookupFails(j) ==
    /\ jobs[j].pc \in InLookup /\ jobs' = [jobs EXCEPT ![j].pc = "failed"]
    /\ lost' = IF j \in Hook /\ jobs[j].fresh THEN lost \cup {jobs[j].user} ELSE lost
    /\ UNCHANGED <<cookieVars, users, issued, spent, defs, logins, raced, disturbed>>

-----------------------------------------------------------------------------
(***************************************************************************)
(* Channels, and the webhook.                                              *)
(***************************************************************************)

\* viewDefsCreate, viewDefsUpdate and viewDefsDelete for the user that
\* checkAuth finds; a name has one row.
CreateChannel(n, u) ==
    /\ defs[n] = NoDef
    /\ defs' = [defs EXCEPT ![n] = [owner |-> u, announce |-> TRUE]]

UpdateChannel(n, u) ==
    /\ defs[n].owner = u
    /\ \E a \in BOOLEAN : defs' = [defs EXCEPT ![n].announce = a]

DeleteChannel(n, u) ==
    /\ defs[n].owner = u
    /\ defs' = [defs EXCEPT ![n] = NoDef]

checkAuth(b) == loginCookie[b]

viewDefsChange(b, n) ==
    LET u == checkAuth(b) IN
    /\ u # None
    /\ CreateChannel(n, u) \/ UpdateChannel(n, u) \/ DeleteChannel(n, u)
    /\ UNCHANGED <<cookieVars, tokenVars, logins, jobs, raced, disturbed>>

\* A publisher shows the key of a channel: VerifyRTMP or VerifyFTL returns what
\* findChannel read, and Publish starts doWebhook with it, which looks the user
\* up if it is to announce and there is a token.
Publish(h, n) ==
    LET u == defs[n].owner IN
    /\ defs[n] # NoDef /\ jobs[h].pc \in {"idle", "done"}
    /\ defs[n].announce /\ users[u].announce /\ users[u].token # 0
    /\ jobs' = [jobs EXCEPT ![h] = At("user", u, None, users[u].token, FALSE)]
    /\ raced' = Racing(u)
    /\ UNCHANGED <<cookieVars, tokenVars, defs, logins, disturbed>>

\* The message is posted, whether the lookup succeeded or not.
Post(h) ==
    /\ jobs[h].pc \in {"stored", "failed"} /\ jobs' = [jobs EXCEPT ![h].pc = "done"]
    /\ UNCHANGED <<cookieVars, tokenVars, defs, logins, raced, disturbed>>

Next ==
    \/ \E l \in Login : \/ \E b \in Browser : viewOauthLogin(l, b) \/ viewOauthCB(l, b)
                        \/ \E u \in User : Agree(l, u)
                        \/ Respond(l)
    \/ \E b \in Browser : \/ viewOauthLogout(b) \/ ExpireState(b)
                          \/ \E n \in Name : viewDefsChange(b, n)
    \/ \E j \in Job : GetUser(j) \/ GetGuilds(j) \/ SetUser(j) \/ LookupFails(j)
    \/ \E h \in Hook : Post(h) \/ \E n \in Name : Publish(h, n)

Spec == Init /\ [][Next]_vars

-----------------------------------------------------------------------------
\* A channel that exists is changed or deleted only by a request on definitions,
\* and whichever browser it came from, a login was started in that very browser
\* to which the owner of the channel agreed: however logins of several browsers
\* and callbacks opened in the wrong one overlap.
OwnerOnly ==
    [][\A n \in Name : (defs[n] # NoDef /\ defs'[n] # defs[n]) =>
          /\ \E b \in Browser : viewDefsChange(b, n)
          /\ \A b \in Browser : viewDefsChange(b, n) =>
                \E l \in StartedIn(b) : logins[l].user = defs[n].owner]_vars

\* The callback of a login is turned down for its state only in another browser,
\* or after its own browser started another login, got the answer of another
\* (which clears the state of the newer one too) or let the cookie expire.
OwnLoginAccepted ==
    \A l \in Login : jobs[l].pc = "refused" =>
       jobs[l].browser # logins[l].browser \/ l \in disturbed

\* The token in the users table can still be refreshed: one that was exchanged
\* is replaced by its successor, which a lookup in progress holds at the latest,
\* unless a lookup failed after the exchange or two of them overlapped.
TokenKept ==
    \A u \in User : users[u].token \in spent =>
       \/ u \in lost \cup raced
       \/ \E j \in Job : /\ jobs[j].user = u /\ jobs[j].pc \in {"guilds", "store"}
                         /\ jobs[j].token \notin spent

=============================================================================
