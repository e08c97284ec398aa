---------------------------- MODULE AccountsProofs ---------------------------
(***************************************************************************)
(* Accounts, for any set of users, browsers, channels, logins and webhook  *)
(* calls: who may change a channel, which logins are accepted, and what    *)
(* becomes of the tokens.                                                  *)
(***************************************************************************)
EXTENDS Accounts, TLAPS

(***************************************************************************)
(* The link from a login cookie back to the person who agreed: a state     *)
(* cookie names a login of its own browser; a lookup that a callback       *)
(* started is for the browser and the user of its login; so is the login   *)
(* cookie it leads to.  Logins that were answered do not change any more.  *)
(***************************************************************************)
LoginsType ==
    logins \in [Login -> [pc : {"idle", "started", "agreed", "answered"},
                          browser : Browser \cup {None}, user : User \cup {None}]]

CookieType ==
    /\ stateCookie \in [Browser -> Login \cup {None}]
    /\ loginCookie \in [Browser -> User \cup {None}]

Phase == InLookup \cup {"idle", "refused", "failed", "stored", "done"}

JobsType ==
    jobs \in [Job -> [pc : Phase,
                      user : User \cup {None}, browser : Browser \cup {None},
                      token : Int, fresh : BOOLEAN, announce : BOOLEAN]]

RowType ==
    /\ users \in [User -> [token : Int, announce : BOOLEAN]] /\ issued \in Int
    /\ defs \in [Name -> [owner : User, announce : BOOLEAN] \cup {NoDef}]

LoginType == LoginsType /\ CookieType /\ JobsType /\ RowType

StateInv ==
    \A b \in Browser : stateCookie[b] # None =>
       logins[stateCookie[b]].browser = b /\ logins[stateCookie[b]].pc # "idle"

Served(l) ==
    /\ logins[l].pc = "answered"
    /\ jobs[l].user = logins[l].user /\ jobs[l].browser = logins[l].browser

JobInv == \A l \in Login : jobs[l].pc \in InLookup \cup {"stored"} => Served(l)

CookieInv ==
    \A b \in Browser : loginCookie[b] # None =>
       \E l \in Login : /\ logins[l].pc = "answered" /\ logins[l].browser = b
                        /\ logins[l].user = loginCookie[b]

AInv == LoginType /\ StateInv /\ JobInv /\ CookieInv

-----------------------------------------------------------------------------
\* A job moves on.
LEMMA JobMoves ==
    ASSUME JobsType, NEW j \in Job, NEW p \in Phase, jobs' = [jobs EXCEPT ![j].pc = p]
    PROVE  /\ JobsType'
           /\ \A k \in Job : /\ jobs'[k].user = jobs[k].user
                             /\ jobs'[k].browser = jobs[k].browser
                             /\ jobs'[k].pc = IF k = j THEN p ELSE jobs[k].pc
BY DEF JobsType

\* A job starts, or starts over.
LEMMA JobStarts ==
    ASSUME JobsType, NEW j \in Job, NEW p \in Phase, NEW u \in User \cup {None},
           NEW b \in Browser \cup {None}, NEW t \in Int, NEW f \in BOOLEAN,
           jobs' = [jobs EXCEPT ![j] = At(p, u, b, t, f)]
    PROVE  /\ JobsType'
           /\ jobs'[j].pc = p /\ jobs'[j].user = u /\ jobs'[j].browser = b
           /\ jobs'[j].token = t /\ jobs'[j].fresh = f
           /\ \A k \in Job \ {j} : jobs'[k] = jobs[k]
BY DEF JobsType, At

\* A step that leaves logins and cookies alone, and starts no lookup of a login.
LEMMA LookupPreserves ==
    ASSUME AInv, UNCHANGED <<logins, cookieVars>>, LoginType',
           \A l \in Login : jobs'[l].pc \in InLookup \cup {"stored"} =>
              /\ jobs[l].pc \in InLookup \cup {"stored"}
              /\ jobs'[l].user = jobs[l].user /\ jobs'[l].browser = jobs[l].browser
    PROVE  AInv'
BY DEF AInv, StateInv, JobInv, CookieInv, Served, cookieVars

\* State cookies are dropped at most, logins keep their browser.
LEMMA StateKept ==
    ASSUME CookieType, StateInv,
           \A b \in Browser : stateCookie'[b] \in {stateCookie[b], None},
           \A k \in Login : /\ logins'[k].browser = logins[k].browser
                            /\ logins[k].pc # "idle" => logins'[k].pc # "idle"
    PROVE  StateInv'
BY DEF CookieType, StateInv

\* Login cookies are dropped at most, logins that were answered stay.
LEMMA CookieKept ==
    ASSUME CookieInv,
           \A b \in Browser : loginCookie'[b] \in {loginCookie[b], None},
           \A k \in Login : logins[k].pc = "answered" =>
              /\ logins'[k].pc = "answered" /\ logins'[k].browser = logins[k].browser
              /\ logins'[k].user = logins[k].user
    PROVE  CookieInv'
<1>. SUFFICES ASSUME NEW b \in Browser, loginCookie'[b] # None
              PROVE  \E l \in Login : /\ logins'[l].pc = "answered" /\ logins'[l].browser = b
                                      /\ logins'[l].user = loginCookie'[b]
  BY DEF CookieInv
<1>1. PICK l \in Login : /\ logins[l].pc = "answered" /\ logins[l].browser = b
                        /\ logins[l].user = loginCookie[b]
  BY DEF CookieInv
<1>. QED  BY <1>1

\* viewOauthLogin: the browser gets the state of a login of its own.
LEMMA StartPreserves ==
    ASSUME AInv, NEW l \in Login, NEW b \in Browser, viewOauthLogin(l, b)
    PROVE  AInv'
<1>. USE AccountsAssumption DEF AInv, LoginType, viewOauthLogin
<1>1. LoginsType' /\ \A k \in Login : logins[k].pc # "idle" => logins'[k] = logins[k]
  BY DEF LoginsType
<1>2. CookieType'
  BY DEF CookieType
<1>3. JobsType' /\ RowType'
  <2>1. jobs' = jobs /\ users' = users /\ issued' = issued /\ defs' = defs
    BY DEF tokenVars
  <2>. QED  BY <2>1, Zenon DEF JobsType, RowType
<1>4. StateInv'
  BY DEF StateInv, LoginsType, CookieType
<1>5. JobInv' /\ CookieInv'
  BY <1>1, CookieKept DEF JobInv, Served
<1>. QED  BY <1>1, <1>2, <1>3, <1>4, <1>5

\* Discord's answer changes only a login that was not answered yet.
LEMMA AgreePreserves ==
    ASSUME AInv, NEW l \in Login, NEW u \in User, Agree(l, u)
    PROVE  AInv'
<1>. USE DEF AInv, LoginType, Agree, cookieVars
<1>1. /\ LoginsType'
      /\ \A k \in Login : /\ logins'[k].browser = logins[k].browser
                          /\ logins[k].pc # "idle" => logins'[k].pc # "idle"
      /\ \A k \in Login : logins[k].pc = "answered" => logins'[k] = logins[k]
  BY DEF LoginsType
<1>2. CookieType' /\ JobsType' /\ RowType'
  <2>1. /\ stateCookie' = stateCookie /\ loginCookie' = loginCookie
        /\ jobs' = jobs /\ users' = users /\ issued' = issued /\ defs' = defs
    BY DEF tokenVars
  <2>. QED  BY <2>1, Zenon DEF CookieType, JobsType, RowType
<1>3. StateInv'
  BY <1>1, StateKept
<1>4. JobInv' /\ CookieInv'
  BY <1>1, CookieKept DEF JobInv, Served
<1>. QED  BY <1>1, <1>2, <1>3, <1>4

\* The effect of a callback on the jobs.
CallbackEffect(l, b) ==
    /\ JobsType' /\ jobs'[l].browser = b
    /\ \A k \in Job \ {l} : jobs'[k] = jobs[k]
    /\ stateCookie[b] = l => /\ jobs'[l].pc = "user" /\ jobs'[l].user = logins[l].user
                             /\ jobs'[l].token = issued + 1 /\ jobs'[l].fresh
                             /\ issued' = issued + 1 /\ raced' = Racing(logins[l].user)
    /\ stateCookie[b] # l => jobs'[l].pc = "refused" /\ issued' = issued /\ raced' = raced

\* A callback has that effect.
LEMMA CallbackHasEffect ==
    ASSUME JobsType, issued \in Int, NEW l \in Login, NEW b \in Browser,
           logins[l].user \in User \cup {None}, viewOauthCB(l, b)
    PROVE  CallbackEffect(l, b)
<1>. USE DEF viewOauthCB, Callback
<1>1. /\ "user" \in Phase /\ "refused" \in Phase /\ l \in Job
      /\ TRUE \in BOOLEAN /\ FALSE \in BOOLEAN
      /\ b \in Browser \cup {None} /\ None \in User \cup {None} /\ 0 \in Int /\ issued + 1 \in Int
  BY DEF Phase, InLookup, Job
<1>2. CASE stateCookie[b] = l
  <2>1. /\ jobs' = [jobs EXCEPT ![l] = At("user", logins[l].user, b, issued + 1, TRUE)]
        /\ issued' = issued + 1 /\ raced' = Racing(logins[l].user)
    BY <1>2
  <2>2. /\ JobsType' /\ jobs'[l].pc = "user" /\ jobs'[l].user = logins[l].user
        /\ jobs'[l].browser = b /\ jobs'[l].token = issued + 1 /\ jobs'[l].fresh = TRUE
        /\ \A k \in Job \ {l} : jobs'[k] = jobs[k]
    BY ONLY <1>1, <2>1, JobsType, JobStarts, logins[l].user \in User \cup {None}, ZenonT(60)
  <2>. QED  BY <1>2, <2>1, <2>2, Zenon DEF CallbackEffect
<1>3. CASE stateCookie[b] # l
  <2>1. /\ jobs' = [jobs EXCEPT ![l] = At("refused", None, b, 0, FALSE)]
        /\ issued' = issued /\ raced' = raced
    BY <1>3
  <2>2. /\ JobsType' /\ jobs'[l].pc = "refused" /\ jobs'[l].browser = b
        /\ \A k \in Job \ {l} : jobs'[k] = jobs[k]
    BY ONLY <1>1, <2>1, JobsType DEF JobsType, At
  <2>. QED  BY <1>3, <2>1, <2>2, Zenon DEF CallbackEffect
<1>. QED  BY <1>2, <1>3

\* The callback: a login that is accepted in b was started in b.
LEMMA CallbackPreserves ==
    ASSUME AInv, NEW l \in Login, NEW b \in Browser, viewOauthCB(l, b)
    PROVE  AInv'
<1>. USE DEF AInv, LoginType, viewOauthCB, Callback, cookieVars
<1>1. /\ LoginsType'
      /\ \A k \in Login : /\ logins'[k].browser = logins[k].browser
                          /\ logins'[k].user = logins[k].user
                          /\ logins[k].pc = "answered" => logins'[k].pc = "answered"
                          /\ logins[k].pc # "idle" => logins'[k].pc # "idle"
      /\ logins'[l].pc = "answered"
      /\ logins[l].user \in User \cup {None}
  BY DEF LoginsType
<1>2. CookieType' /\ RowType'
  <2>1. /\ stateCookie' = stateCookie /\ loginCookie' = loginCookie
        /\ users' = users /\ defs' = defs
        /\ issued' = issued + 1 \/ issued' = issued
    OBVIOUS
  <2>2. issued \in Int
    BY DEF RowType
  <2>3. issued' \in Int
    BY ONLY <2>1, <2>2
  <2>. QED  BY <2>1, <2>3, Zenon DEF CookieType, RowType
<1>3. StateInv' /\ CookieInv'
  <2>1. StateInv'
    BY <1>1, StateKept
  <2>. QED  BY <1>1, <2>1, CookieKept
<1>4. /\ JobsType'
      /\ \A k \in Login \ {l} : jobs'[k] = jobs[k]
      /\ jobs'[l].pc \in InLookup \cup {"stored"} =>
           jobs'[l].user = logins[l].user /\ jobs'[l].browser = b /\ stateCookie[b] = l
  <2>1. issued \in Int /\ JobsType
    BY DEF RowType
  <2>2. CallbackEffect(l, b)
    BY ONLY <1>1, <2>1, viewOauthCB(l, b), l \in Login, b \in Browser, CallbackHasEffect
  <2>. QED  BY ONLY <2>2 DEF CallbackEffect, Job, InLookup
<1>5. stateCookie[b] = l => logins[l].browser = b
  BY AccountsAssumption DEF StateInv
<1>6. JobInv'
  BY <1>1, <1>4, <1>5 DEF JobInv, Served
<1>. QED  BY <1>1, <1>2, <1>3, <1>4, <1>6

\* The response: the login cookie gets the user of the lookup.
LEMMA RespondPreserves ==
    ASSUME AInv, NEW l \in Login, Respond(l)
    PROVE  AInv'
<1>. USE DEF AInv, LoginType, Respond
<1>1. /\ JobsType'
      /\ \A k \in Job : /\ jobs'[k].user = jobs[k].user
                        /\ jobs'[k].browser = jobs[k].browser
                        /\ jobs'[k].pc = IF k = l THEN "done" ELSE jobs[k].pc
  <2>1. "done" \in Phase /\ l \in Job
    BY DEF Phase, Job
  <2>. QED  BY <2>1, JobMoves
<1>2. LoginsType' /\ RowType'
  BY DEF LoginsType, RowType, tokenVars
<1>3. jobs[l].user \in User \cup {None}
  BY DEF JobsType, Job
<1>4. CookieType'
  BY <1>3 DEF CookieType
<1>5. StateInv'
  BY StateKept DEF CookieType
<1>6. JobInv'
  BY <1>1 DEF JobInv, Served, Job, InLookup
<1>7. ASSUME NEW b \in Browser, loginCookie'[b] # None
      PROVE  \E k \in Login : /\ logins[k].pc = "answered" /\ logins[k].browser = b
                              /\ logins[k].user = loginCookie'[b]
  <2>1. CASE b = jobs[l].browser /\ jobs[l].pc = "stored"
    <3>1. loginCookie'[b] = jobs[l].user
      BY <2>1 DEF CookieType
    <3>2. Served(l)
      BY <2>1 DEF JobInv
    <3>. QED  BY <2>1, <3>1, <3>2 DEF Served
  <2>2. CASE ~(b = jobs[l].browser /\ jobs[l].pc = "stored")
    <3>1. loginCookie'[b] = loginCookie[b]
      BY <2>2 DEF CookieType
    <3>. QED  BY <1>7, <3>1 DEF CookieInv
  <2>. QED  BY <2>1, <2>2
<1>8. CookieInv'
  BY <1>7 DEF CookieInv
<1>. QED  BY <1>1, <1>2, <1>4, <1>5, <1>6, <1>8

-----------------------------------------------------------------------------
\* The effect of a step of lookupUser on the jobs.
LEMMA LookupEffect ==
    ASSUME JobsType, issued \in Int, NEW j \in Job,
           GetUser(j) \/ GetGuilds(j) \/ SetUser(j) \/ LookupFails(j)
    PROVE  /\ JobsType' /\ jobs[j].pc \in InLookup
           /\ jobs'[j].pc \in {"guilds", "store", "stored", "failed"}
           /\ jobs'[j].user = jobs[j].user /\ jobs'[j].browser = jobs[j].browser
           /\ jobs'[j].token # jobs[j].token \/ jobs'[j].fresh # jobs[j].fresh => GetUser(j)
           /\ \A k \in Job \ {j} : jobs'[k] = jobs[k]
<1>1. {"user", "guilds", "store", "stored", "failed"} \subseteq Phase
  BY DEF Phase, InLookup
<1>2. CASE GetUser(j)
  BY <1>1, <1>2 DEF GetUser, JobsType, InLookup
<1>3. CASE GetGuilds(j)
  <2>1. PICK a \in BOOLEAN : jobs' = [jobs EXCEPT ![j].pc = "store", ![j].announce = a]
    BY <1>3 DEF GetGuilds
  <2>2. jobs[j].pc \in InLookup
    BY <1>3 DEF GetGuilds, InLookup
  <2>. QED  BY ONLY <1>1, <2>1, <2>2, JobsType, j \in Job DEF JobsType
<1>4. CASE SetUser(j)
  BY <1>1, <1>4 DEF SetUser, JobsType, InLookup
<1>5. CASE LookupFails(j)
  BY <1>1, <1>5 DEF LookupFails, JobsType, InLookup
<1>. QED  BY <1>2, <1>3, <1>4, <1>5

\* The steps of lookupUser.
LEMMA JobPreserves ==
    ASSUME AInv, NEW j \in Job, GetUser(j) \/ GetGuilds(j) \/ SetUser(j) \/ LookupFails(j)
    PROVE  AInv'
<1>. USE DEF AInv, LoginType
<1>1. UNCHANGED <<logins, cookieVars, defs>>
  BY DEF GetUser, GetGuilds, SetUser, LookupFails
<1>2. LoginsType' /\ CookieType'
  BY <1>1 DEF LoginsType, CookieType, cookieVars
<1>3. /\ JobsType'
      /\ \A k \in Job : /\ jobs'[k].user = jobs[k].user
                        /\ jobs'[k].browser = jobs[k].browser
                        /\ jobs'[k].pc # jobs[k].pc => k = j /\ jobs[j].pc \in InLookup
  BY LookupEffect DEF RowType
<1>4. RowType'
  <2>1. issued \in Int
    BY DEF RowType
  <2>2. issued' = issued \/ issued' = issued + 1
    BY DEF GetUser, GetGuilds, SetUser, LookupFails, tokenVars
  <2>3. issued' \in Int
    BY <2>1, <2>2
  <2>4. users' = users \/ \E t \in Int, f \in BOOLEAN, u \in User \cup {None} :
                              users' = [users EXCEPT ![u] = [token |-> t, announce |-> f]]
    <3>1. jobs[j].token \in Int /\ jobs[j].announce \in BOOLEAN /\ jobs[j].user \in User \cup {None}
      BY DEF JobsType
    <3>. QED  BY <3>1 DEF GetUser, GetGuilds, SetUser, LookupFails, tokenVars
  <2>5. users' \in [User -> [token : Int, announce : BOOLEAN]]
    <3>1. users \in [User -> [token : Int, announce : BOOLEAN]]
      BY DEF RowType
    <3>2. ASSUME NEW t \in Int, NEW f \in BOOLEAN, NEW u \in User \cup {None},
                 users' = [users EXCEPT ![u] = [token |-> t, announce |-> f]]
          PROVE  users' \in [User -> [token : Int, announce : BOOLEAN]]
      BY ONLY <3>1, <3>2
    <3>. QED  BY ONLY <2>4, <3>1, <3>2
  <2>. QED  BY <1>1, <2>3, <2>5 DEF RowType
<1>. QED
  BY <1>1, <1>2, <1>3, <1>4, LookupPreserves DEF Job

\* Logging out, and cookies that expire.
LEMMA LeavePreserves ==
    ASSUME AInv, NEW b \in Browser, viewOauthLogout(b) \/ ExpireState(b)
    PROVE  AInv'
<1>. USE DEF AInv, LoginType
<1>1. /\ logins' = logins /\ jobs' = jobs /\ users' = users /\ issued' = issued /\ defs' = defs
  BY DEF viewOauthLogout, ExpireState, tokenVars
<1>2. LoginsType' /\ JobsType' /\ RowType'
  BY <1>1, Zenon DEF LoginsType, JobsType, RowType
<1>3. /\ CookieType'
      /\ \A c \in Browser : /\ stateCookie'[c] \in {stateCookie[c], None}
                            /\ loginCookie'[c] \in {loginCookie[c], None}
  BY DEF CookieType, viewOauthLogout, ExpireState
<1>4. StateInv' /\ CookieInv'
  BY <1>1, <1>3, StateKept, CookieKept
<1>5. JobInv'
  BY <1>1 DEF JobInv, Served
<1>. QED  BY <1>2, <1>3, <1>4, <1>5

\* The handlers of the channel definitions.
LEMMA DefsPreserves ==
    ASSUME AInv, NEW b \in Browser, NEW n \in Name, viewDefsChange(b, n)
    PROVE  AInv'
<1>. USE DEF AInv, LoginType
<1>1. /\ logins' = logins /\ jobs' = jobs /\ users' = users /\ issued' = issued
      /\ cookieVars' = cookieVars
  BY DEF viewDefsChange, checkAuth, tokenVars
<1>2. LoginsType' /\ JobsType' /\ CookieType'
  BY <1>1, Zenon DEF LoginsType, JobsType, CookieType, cookieVars
<1>3. loginCookie[b] \in User
  BY DEF CookieType, viewDefsChange, checkAuth
<1>4. defs' \in [Name -> [owner : User, announce : BOOLEAN] \cup {NoDef}]
  <2>1. defs \in [Name -> [owner : User, announce : BOOLEAN] \cup {NoDef}]
    BY DEF RowType
  <2>2. CASE CreateChannel(n, loginCookie[b])
    BY ONLY <1>3, <2>1, <2>2 DEF CreateChannel
  <2>3. CASE UpdateChannel(n, loginCookie[b])
    <3>1. defs[n] \in [owner : User, announce : BOOLEAN]
      BY <1>3, <2>1, <2>3, AccountsAssumption DEF UpdateChannel, NoDef
    <3>2. PICK a \in BOOLEAN : defs' = [defs EXCEPT ![n].announce = a]
      BY <2>3 DEF UpdateChannel
    <3>3. [defs[n] EXCEPT !.announce = a] \in [owner : User, announce : BOOLEAN]
      BY ONLY <3>1
    <3>. QED  BY ONLY <2>1, <3>2, <3>3
  <2>4. CASE DeleteChannel(n, loginCookie[b])
    BY ONLY <2>1, <2>4 DEF DeleteChannel
  <2>. QED  BY <2>2, <2>3, <2>4 DEF viewDefsChange, checkAuth
<1>5. RowType'
  BY <1>1, <1>4, Zenon DEF RowType
<1>. QED  BY <1>1, <1>2, <1>5, LookupPreserves

\* A webhook starts, or is done.
LEMMA HookPreserves ==
    ASSUME AInv, NEW h \in Hook, Post(h) \/ \E n \in Name : Publish(h, n)
    PROVE  AInv'
<1>. USE DEF AInv, LoginType
<1>1. /\ logins' = logins /\ users' = users /\ issued' = issued /\ defs' = defs
      /\ cookieVars' = cookieVars
  BY DEF Post, Publish, tokenVars
<1>2. LoginsType' /\ CookieType' /\ RowType'
  BY <1>1, Zenon DEF LoginsType, CookieType, RowType, cookieVars
<1>3. h \in Job /\ h \notin Login
  BY AccountsAssumption DEF Job
<1>4. JobsType' /\ \A k \in Job \ {h} : jobs'[k] = jobs[k]
  <2>1. CASE Post(h)
    BY <1>3, <2>1 DEF Post, JobsType, Phase
  <2>2. ASSUME NEW n \in Name, Publish(h, n)
        PROVE  JobsType' /\ \A k \in Job \ {h} : jobs'[k] = jobs[k]
    <3>1. defs[n] \in [owner : User, announce : BOOLEAN]
      BY <2>2 DEF RowType, Publish
    <3>2. users[defs[n].owner].token \in Int
      BY <3>1 DEF RowType
    <3>3. PICK u \in User, t \in Int : jobs' = [jobs EXCEPT ![h] = At("user", u, None, t, FALSE)]
      BY <2>2, <3>1, <3>2 DEF Publish
    <3>. QED  BY ONLY <1>3, <3>3, JobsType DEF JobsType, Phase, InLookup, At
  <2>. QED  BY <2>1, <2>2
<1>5. \A l \in Login : jobs'[l] = jobs[l]
  BY <1>3, <1>4 DEF Job
<1>. QED  BY <1>1, <1>2, <1>4, <1>5, LookupPreserves

\* Every login cookie goes back to a login that was started in its browser and
\* that its user agreed to (viewOauthLogin, viewOauthCB and lookupUser).
THEOREM LoginInvariant == Spec => []AInv
<1>1. Init => AInv
  BY AccountsAssumption
     DEF Init, AInv, LoginType, LoginsType, CookieType, JobsType, RowType, StateInv, JobInv,
         CookieInv, Served, Phase, InLookup, Job, At
<1>2. AInv /\ [Next]_vars => AInv'
  <2>. SUFFICES ASSUME AInv, [Next]_vars PROVE AInv'
    OBVIOUS
  <2>1. CASE \E l \in Login : \/ \E b \in Browser : viewOauthLogin(l, b) \/ viewOauthCB(l, b)
                              \/ \E u \in User : Agree(l, u)
                              \/ Respond(l)
    BY <2>1, StartPreserves, CallbackPreserves, AgreePreserves, RespondPreserves
  <2>2. CASE \E j \in Job : GetUser(j) \/ GetGuilds(j) \/ SetUser(j) \/ LookupFails(j)
    BY <2>2, JobPreserves
  <2>3. ASSUME NEW b \in Browser, viewOauthLogout(b) \/ ExpireState(b)
        PROVE  AInv'
    BY <2>3, LeavePreserves
  <2>4. ASSUME NEW b \in Browser, NEW n \in Name, viewDefsChange(b, n)
        PROVE  AInv'
    BY <2>4, DefsPreserves
  <2>5. ASSUME NEW h \in Hook, Post(h) \/ \E n \in Name : Publish(h, n)
        PROVE  AInv'
    BY <2>5, HookPreserves
  <2>6. CASE UNCHANGED vars
    <3>1. LoginType'
      <4>1. /\ jobs' = jobs /\ users' = users /\ issued' = issued /\ defs' = defs
            /\ logins' = logins /\ stateCookie' = stateCookie /\ loginCookie' = loginCookie
        BY <2>6 DEF vars, tokenVars, cookieVars
      <4>. QED  BY <4>1, Zenon DEF AInv, LoginType, LoginsType, CookieType, JobsType, RowType
    <3>. QED  BY <2>6, <3>1, LookupPreserves DEF vars
  <2>. QED  BY <2>1, <2>2, <2>3, <2>4, <2>5, <2>6 DEF Next
<1>. QED  BY <1>1, <1>2, PTL DEF Spec

\* A channel is changed or deleted only by a request from a browser in which a login
\* was started that the owner of the channel agreed to (viewDefsChange, checkAuth,
\* viewOauthCB).
THEOREM OwnerOnlyProperty == Spec => OwnerOnly
<1>1. ASSUME AInv, [Next]_vars, NEW n \in Name, defs[n] # NoDef, defs'[n] # defs[n]
      PROVE  /\ \E b \in Browser : viewDefsChange(b, n)
             /\ \A b \in Browser : viewDefsChange(b, n) =>
                   \E l \in StartedIn(b) : logins[l].user = defs[n].owner
  <2>1. defs' # defs
    BY <1>1
  <2>2. PICK a \in Browser, m \in Name : viewDefsChange(a, m)
    BY <1>1, <2>1
       DEF Next, vars, viewOauthLogin, viewOauthCB, Callback, Agree, Respond, GetUser, GetGuilds,
           SetUser, LookupFails, viewOauthLogout, ExpireState, Post, Publish
  <2>3. m = n
    BY <1>1, <2>2
    DEF viewDefsChange, CreateChannel, UpdateChannel, DeleteChannel, AInv, LoginType, RowType
  <2>4. ASSUME NEW b \in Browser, viewDefsChange(b, n)
        PROVE  \E l \in StartedIn(b) : logins[l].user = defs[n].owner
    <3>1. loginCookie[b] # None /\ defs[n].owner = loginCookie[b]
      BY <1>1, <2>4
      DEF viewDefsChange, checkAuth, CreateChannel, UpdateChannel, DeleteChannel, AInv, LoginType, RowType
    <3>2. PICK l \in Login : logins[l].browser = b /\ logins[l].user = loginCookie[b]
      BY <1>1, <3>1 DEF AInv, CookieInv
    <3>. QED  BY <3>1, <3>2 DEF StartedIn
  <2>. QED  BY <2>2, <2>3, <2>4
<1>2. AInv /\ [Next]_vars =>
        [\A n \in Name : (defs[n] # NoDef /\ defs'[n] # defs[n]) =>
          /\ \E b \in Browser : viewDefsChange(b, n)
          /\ \A b \in Browser : viewDefsChange(b, n) =>
                \E l \in StartedIn(b) : logins[l].user = defs[n].owner]_vars
  BY <1>1
<1>. QED  BY <1>2, LoginInvariant, PTL DEF Spec, OwnerOnly

-----------------------------------------------------------------------------
(***************************************************************************)
(* The state of a login.  A login whose browser has not heard of another   *)
(* since it was started still has its state in the cookie of that browser, *)
(* so the callback finds it there.                                         *)
(***************************************************************************)
StateHeld ==
    \A l \in Login : logins[l].pc \in {"started", "agreed"} =>
       /\ logins[l].browser \in Browser
       /\ l \notin disturbed => stateCookie[logins[l].browser] = l

RefusedInv ==
    \A l \in Login : jobs[l].pc = "refused" =>
       /\ logins[l].pc = "answered"
       /\ jobs[l].browser # logins[l].browser \/ l \in disturbed

\* Steps that have nothing to do with the state of a login.
LEMMA StateUntouched ==
    ASSUME StateHeld, RefusedInv, UNCHANGED <<logins, stateCookie, disturbed>>,
           \A l \in Login : jobs'[l].pc = "refused" => jobs'[l] = jobs[l]
    PROVE  StateHeld' /\ RefusedInv'
BY DEF StateHeld, RefusedInv

\* A browser loses its state: every login started in it is disturbed.
LEMMA StateDropped ==
    ASSUME CookieType, StateHeld, RefusedInv, NEW b, logins' = logins,
           stateCookie' = [stateCookie EXCEPT ![b] = None],
           disturbed' = disturbed \cup StartedIn(b),
           \A l \in Login : jobs'[l].pc = "refused" => jobs'[l] = jobs[l]
    PROVE  StateHeld' /\ RefusedInv'
BY DEF CookieType, StateHeld, RefusedInv, StartedIn

\* The handlers of a login.
LEMMA LoginStatePreserved ==
    ASSUME AInv, StateHeld, RefusedInv, NEW l \in Login,
           \/ \E b \in Browser : viewOauthLogin(l, b) \/ viewOauthCB(l, b)
           \/ \E u \in User : Agree(l, u)
           \/ Respond(l)
    PROVE  StateHeld' /\ RefusedInv'
<1>. USE DEF AInv, LoginType
<1>1. ASSUME NEW b \in Browser, viewOauthLogin(l, b)
      PROVE  StateHeld' /\ RefusedInv'
  BY <1>1 DEF viewOauthLogin, StateHeld, RefusedInv, StartedIn, LoginsType, CookieType
<1>2. ASSUME NEW b \in Browser, viewOauthCB(l, b)
      PROVE  StateHeld' /\ RefusedInv'
  <2>1. /\ logins[l].pc = "agreed" /\ logins' = [logins EXCEPT ![l].pc = "answered"]
        /\ stateCookie' = stateCookie /\ disturbed' = disturbed
    BY <1>2 DEF viewOauthCB, Callback, cookieVars
  <2>2. /\ \A k \in Login : logins'[k].browser = logins[k].browser
        /\ \A k \in Login \ {l} : logins'[k] = logins[k]
        /\ logins'[l].pc = "answered"
    BY <2>1 DEF LoginsType
  <2>3. issued \in Int /\ logins[l].user \in User \cup {None}
    BY DEF RowType, LoginsType
  <2>4. CallbackEffect(l, b)
    BY <1>2, <2>3, CallbackHasEffect
  <2>5. /\ jobs'[l].browser = b /\ (jobs'[l].pc = "refused" => stateCookie[b] # l)
        /\ \A k \in Login \ {l} : jobs'[k] = jobs[k]
    BY <2>4 DEF CallbackEffect, Job
  <2>6. StateHeld'
    BY <2>1, <2>2 DEF StateHeld
  <2>. QED  BY <2>1, <2>2, <2>5, <2>6 DEF StateHeld, RefusedInv
<1>3. ASSUME NEW u \in User, Agree(l, u)
      PROVE  StateHeld' /\ RefusedInv'
  <2>1. /\ jobs' = jobs /\ stateCookie' = stateCookie /\ disturbed' = disturbed
        /\ \A k \in Login : logins'[k].browser = logins[k].browser
        /\ \A k \in Login \ {l} : logins'[k] = logins[k]
        /\ logins[l].pc = "started"
    BY <1>3 DEF Agree, cookieVars, LoginsType
  <2>. QED  BY <2>1 DEF StateHeld, RefusedInv
<1>4. CASE Respond(l)
  <2>1. \A k \in Login : jobs'[k].pc = "refused" => jobs'[k] = jobs[k]
    BY <1>4 DEF Respond, JobsType, Job
  <2>. QED  BY <1>4, <2>1, StateDropped DEF Respond
<1>. QED  BY <1>1, <1>2, <1>3, <1>4

\* The callback of an undisturbed login is accepted in its own browser
\* (viewOauthLogin, viewOauthCB, tokenExchange), however many logins overlap.
THEOREM OwnLoginAcceptedHolds == Spec => []OwnLoginAccepted
<1>. DEFINE OInv == StateHeld /\ RefusedInv
<1>1. Init => OInv
  BY DEF Init, StateHeld, RefusedInv, Job, At
<1>2. AInv /\ OInv /\ [Next]_vars => OInv'
  <2>. SUFFICES ASSUME AInv, OInv, [Next]_vars PROVE OInv'
    OBVIOUS
  <2>1. ASSUME NEW l \in Login, \/ \E b \in Browser : viewOauthLogin(l, b) \/ viewOauthCB(l, b)
                                \/ \E u \in User : Agree(l, u)
                                \/ Respond(l)
        PROVE  OInv'
    BY <2>1, LoginStatePreserved
  <2>2. ASSUME NEW j \in Job, GetUser(j) \/ GetGuilds(j) \/ SetUser(j) \/ LookupFails(j)
        PROVE  OInv'
    <3>1. UNCHANGED <<logins, stateCookie, disturbed>>
      BY <2>2 DEF GetUser, GetGuilds, SetUser, LookupFails, cookieVars
    <3>2. /\ jobs'[j].pc \in {"guilds", "store", "stored", "failed"}
          /\ \A k \in Job \ {j} : jobs'[k] = jobs[k]
      BY <2>2, LookupEffect DEF AInv, LoginType, RowType
    <3>. QED  BY <3>1, <3>2, StateUntouched DEF Job
  <2>3. ASSUME NEW b \in Browser, viewOauthLogout(b)
        PROVE  OInv'
    BY <2>3, StateUntouched DEF viewOauthLogout
  <2>4. ASSUME NEW b \in Browser, ExpireState(b)
        PROVE  OInv'
    BY <2>4, StateDropped DEF ExpireState, AInv, LoginType
  <2>5. ASSUME NEW b \in Browser, NEW n \in Name, viewDefsChange(b, n)
        PROVE  OInv'
    BY <2>5, StateUntouched DEF viewDefsChange, cookieVars
  <2>6. ASSUME NEW h \in Hook, Post(h) \/ \E n \in Name : Publish(h, n)
        PROVE  OInv'
    <3>1. UNCHANGED <<logins, stateCookie, disturbed>>
      BY <2>6 DEF Post, Publish, cookieVars
    <3>2. \A l \in Login : jobs'[l] = jobs[l]
      BY <2>6, AccountsAssumption DEF Post, Publish, Job, AInv, LoginType, JobsType
    <3>. QED  BY <3>1, <3>2, StateUntouched
  <2>7. CASE UNCHANGED vars
    BY <2>7, StateUntouched DEF vars, cookieVars
  <2>. QED  BY <2>1, <2>2, <2>3, <2>4, <2>5, <2>6, <2>7 DEF Next
<1>3. OInv => OwnLoginAccepted
  BY DEF RefusedInv, OwnLoginAccepted
<1>. QED  BY <1>1, <1>2, <1>3, LoginInvariant, PTL DEF Spec

-----------------------------------------------------------------------------
(***************************************************************************)
(* The tokens.  No token is held for two users, in the table or by a       *)
(* lookup; two lookups of one user at a time are noted in raced.  So while *)
(* a user is not raced, what its lookup got by an exchange was not spent   *)
(* since, and a token of the table that was spent was spent by a webhook's *)
(* lookup that is still under way.                                         *)
(***************************************************************************)
Looking(j, u) == jobs[j].pc \in InLookup /\ jobs[j].user = u
Holds(u, t) == users[u].token = t \/ \E j \in Job : Looking(j, u) /\ jobs[j].token = t
Exchanged == {"guilds", "store"}

LookupInv ==
    \A j \in Job : jobs[j].pc \in InLookup =>
       jobs[j].user \in User /\ jobs[j].token \in 1..issued /\ (j \in Login => jobs[j].fresh)

TokenInv ==
    /\ issued \in Nat /\ spent \subseteq 1..issued
    /\ \A u \in User : users[u].token \in 0..issued
    /\ \A l \in Login : logins[l].pc = "agreed" => logins[l].user \in User
    /\ LookupInv

OneOwner ==
    \A u, v \in User : \A t \in 1..issued : Holds(u, t) /\ Holds(v, t) => u = v

RacedInv ==
    \A u \in User : \A j, k \in Job : Looking(j, u) /\ Looking(k, u) /\ j # k => u \in raced

HeldInv ==
    \A j \in Job : jobs[j].pc \in Exchanged /\ jobs[j].token \in spent => jobs[j].user \in raced

KeptInv ==
    \A u \in User : users[u].token \in spent =>
       \/ u \in lost \cup raced
       \/ \E h \in Hook : jobs[h].user = u /\ jobs[h].pc \in Exchanged /\ jobs[h].fresh

TInv == TokenInv /\ OneOwner /\ RacedInv /\ HeldInv /\ KeptInv

\* A token has one owner still when only a new one is added, for one user.
LEMMA OwnersKept ==
    ASSUME TokenInv, OneOwner, issued' \in {issued, issued + 1}, NEW w,
           \A u \in User : \A t \in 1..issued' :
              Holds(u, t)' => Holds(u, t) \/ (u = w /\ t = issued + 1)
    PROVE  OneOwner'
<1>. SUFFICES ASSUME NEW u \in User, NEW v \in User, NEW t \in 1..issued', Holds(u, t)', Holds(v, t)'
              PROVE  u = v
  BY DEF OneOwner
<1>1. \A x \in User : Holds(x, t) => t <= issued
  BY DEF Holds, Looking, TokenInv, LookupInv
<1>2. CASE t <= issued
  BY <1>2 DEF OneOwner, TokenInv
<1>3. CASE t = issued + 1
  BY <1>1, <1>3 DEF TokenInv
<1>. QED  BY <1>2, <1>3 DEF TokenInv

\* Steps that change neither a token nor a lookup.
LEMMA TokensUntouched ==
    ASSUME TInv, UNCHANGED <<tokenVars, raced>>,
           \A j \in Job : jobs[j].pc \in InLookup \/ jobs'[j].pc \in InLookup => jobs'[j] = jobs[j],
           \A l \in Login : logins'[l].pc = "agreed" => logins'[l].user \in User
    PROVE  TInv'
<1>. USE DEF TInv, tokenVars
<1>1. Exchanged \subseteq InLookup /\ Hook \subseteq Job
  BY DEF Exchanged, InLookup, Job
<1>2. TokenInv' /\ RacedInv'
  BY DEF TokenInv, LookupInv, RacedInv, Looking
<1>3. \A u \in User : \A t \in 1..issued' : Holds(u, t)' => Holds(u, t)
  BY DEF Holds, Looking
<1>4. OneOwner'
  BY <1>3, OwnersKept
<1>5. HeldInv'
  BY <1>1 DEF HeldInv
<1>6. KeptInv'
  BY <1>1 DEF KeptInv
<1>. QED  BY <1>2, <1>4, <1>5, <1>6

\* A lookup gets on without a new token: GetUser, GetGuilds, or it fails.
LEMMA LookupAdvances ==
    ASSUME TInv, NEW j \in Job, jobs[j].pc \in InLookup,
           UNCHANGED <<users, issued, spent, raced, logins>>,
           jobs'[j].user = jobs[j].user, jobs'[j].token = jobs[j].token,
           jobs'[j].fresh = jobs[j].fresh, \A k \in Job \ {j} : jobs'[k] = jobs[k],
           \/ /\ jobs'[j].pc \in Exchanged /\ lost' = lost
              /\ jobs[j].token \in spent => jobs[j].pc \in Exchanged
           \/ /\ jobs'[j].pc \notin InLookup
              /\ lost' = IF j \in Hook /\ jobs[j].fresh THEN lost \cup {jobs[j].user} ELSE lost
    PROVE  TInv'
<1>. USE DEF TInv
<1>1. Exchanged \subseteq InLookup /\ Hook \subseteq Job
  BY DEF Exchanged, InLookup, Job
<1>2. TokenInv' /\ RacedInv'
  BY <1>1 DEF TokenInv, LookupInv, RacedInv, Looking
<1>3. OneOwner'
  <2>1. \A u \in User : \A t \in 1..issued' : Holds(u, t)' => Holds(u, t)
    BY <1>1 DEF Holds, Looking
  <2>. QED  BY <2>1, OwnersKept
<1>4. HeldInv'
  BY <1>1 DEF HeldInv
<1>5. KeptInv'
  <2>. SUFFICES ASSUME NEW u \in User, users[u].token \in spent, u \notin lost' \cup raced
                PROVE  \E h \in Hook : /\ jobs'[h].user = u /\ jobs'[h].pc \in Exchanged
                                       /\ jobs'[h].fresh
    BY DEF KeptInv
  <2>1. PICK h \in Hook : jobs[h].user = u /\ jobs[h].pc \in Exchanged /\ jobs[h].fresh
    BY DEF KeptInv
  <2>2. h = j => jobs'[j].pc \in Exchanged
    BY <2>1
  <2>. QED  BY <1>1, <2>1, <2>2
<1>. QED  BY <1>2, <1>3, <1>4, <1>5

\* A lookup exchanges its token: the one it had is spent, for its user only.
LEMMA RefreshPreserves ==
    ASSUME TInv, NEW j \in Job, jobs[j].pc = "user", ~jobs[j].fresh,
           UNCHANGED <<users, lost, raced, logins>>,
           issued' = issued + 1, spent' = spent \cup {jobs[j].token},
           jobs'[j].user = jobs[j].user, jobs'[j].token = issued + 1, jobs'[j].fresh,
           jobs'[j].pc = "guilds", \A k \in Job \ {j} : jobs'[k] = jobs[k]
    PROVE  TInv'
<1>. USE DEF TInv
<1>1. /\ Exchanged \subseteq InLookup /\ Hook \subseteq Job /\ "guilds" \in Exchanged
      /\ jobs[j].pc \in InLookup /\ jobs[j].pc \notin Exchanged
  BY DEF Exchanged, InLookup, Job
<1>2. /\ j \in Hook /\ jobs[j].user \in User /\ jobs[j].token \in 1..issued
      /\ issued \in Nat /\ spent \subseteq 1..issued
  BY <1>1 DEF TokenInv, LookupInv, Job
<1>3. TokenInv'
  <2>1. /\ 1..issued \subseteq 1..(issued + 1) /\ issued + 1 \in 1..(issued + 1)
        /\ 0..issued \subseteq 0..(issued + 1) /\ issued + 1 \in Nat
    BY <1>2
  <2>2. LookupInv'
    BY <1>2, <2>1, Zenon DEF TokenInv, LookupInv
  <2>. QED  BY <1>2, <2>1, <2>2 DEF TokenInv
<1>4. OneOwner'
  <2>1. \A u \in User : \A t \in 1..issued' :
           Holds(u, t)' => Holds(u, t) \/ (u = jobs[j].user /\ t = issued + 1)
    BY <1>1 DEF Holds, Looking
  <2>. QED  BY <2>1, OwnersKept
<1>5. RacedInv'
  BY <1>1 DEF RacedInv, Looking
<1>6. \A u \in User : users[u].token = jobs[j].token => u = jobs[j].user
  <2>1. Holds(jobs[j].user, jobs[j].token)
    BY <1>1 DEF Holds, Looking
  <2>. QED  BY <1>2, <2>1 DEF OneOwner, Holds
<1>7. \A k \in Job \ {j} : jobs[k].pc \in InLookup /\ jobs[k].token = jobs[j].token =>
                              jobs[k].user \in raced
  <2>. SUFFICES ASSUME NEW k \in Job \ {j}, jobs[k].pc \in InLookup, jobs[k].token = jobs[j].token
                PROVE  jobs[k].user \in raced
    OBVIOUS
  <2>1. jobs[k].user \in User
    BY DEF TokenInv, LookupInv
  <2>2. Holds(jobs[j].user, jobs[j].token) /\ Holds(jobs[k].user, jobs[j].token)
    BY <1>1 DEF Holds, Looking
  <2>3. jobs[k].user = jobs[j].user
    BY <1>2, <2>1, <2>2 DEF OneOwner
  <2>. QED  BY <1>1, <2>1, <2>3 DEF RacedInv, Looking
<1>8. HeldInv'
  <2>. SUFFICES ASSUME NEW k \in Job, jobs'[k].pc \in Exchanged, jobs'[k].token \in spent'
                PROVE  jobs'[k].user \in raced
    BY DEF HeldInv
  <2>1. k # j
    BY <1>2
  <2>. QED  BY <1>1, <1>7, <2>1 DEF HeldInv
<1>9. KeptInv'
  <2>. SUFFICES ASSUME NEW u \in User, users[u].token \in spent', u \notin lost \cup raced
                PROVE  \E h \in Hook : /\ jobs'[h].user = u /\ jobs'[h].pc \in Exchanged
                                       /\ jobs'[h].fresh
    BY DEF KeptInv
  <2>1. CASE u = jobs[j].user
    BY <1>1, <1>2, <2>1
  <2>2. CASE u # jobs[j].user
    <3>1. PICK h \in Hook : jobs[h].user = u /\ jobs[h].pc \in Exchanged /\ jobs[h].fresh
      BY <1>6, <2>2 DEF KeptInv
    <3>. QED  BY <1>1, <2>2, <3>1
  <2>. QED  BY <2>1, <2>2
<1>. QED  BY <1>3, <1>4, <1>5, <1>8, <1>9

\* SetUser stores the token of a lookup, which nobody spent unless two raced.
LEMMA StorePreserves ==
    ASSUME TInv, RowType, NEW j \in Job, jobs[j].pc = "store", NEW a,
           UNCHANGED <<issued, spent, raced, logins>>,
           users' = [users EXCEPT ![jobs[j].user] = [token |-> jobs[j].token, announce |-> a]],
           lost' = lost \ {jobs[j].user},
           jobs'[j].pc = "stored", \A k \in Job \ {j} : jobs'[k] = jobs[k]
    PROVE  TInv'
<1>. USE DEF TInv
<1>1. /\ Exchanged \subseteq InLookup /\ Hook \subseteq Job /\ "stored" \notin InLookup
      /\ jobs[j].pc \in Exchanged
  BY DEF Exchanged, InLookup, Job
<1>2. jobs[j].user \in User /\ jobs[j].token \in 1..issued /\ issued \in Nat
  BY <1>1 DEF TokenInv, LookupInv
<1>3. /\ users'[jobs[j].user].token = jobs[j].token
      /\ \A u \in User \ {jobs[j].user} : users'[u] = users[u]
  BY <1>2 DEF RowType
<1>4. TokenInv'
  BY <1>1, <1>2, <1>3 DEF TokenInv, LookupInv
<1>5. OneOwner'
  <2>1. \A u \in User : \A t \in 1..issued' : Holds(u, t)' => Holds(u, t)
    BY <1>1, <1>3 DEF Holds, Looking
  <2>. QED  BY <2>1, OwnersKept
<1>6. RacedInv' /\ HeldInv'
  BY <1>1 DEF RacedInv, HeldInv, Looking
<1>7. KeptInv'
  <2>. SUFFICES ASSUME NEW u \in User, users'[u].token \in spent, u \notin lost' \cup raced
                PROVE  \E h \in Hook : /\ jobs'[h].user = u /\ jobs'[h].pc \in Exchanged
                                       /\ jobs'[h].fresh
    BY DEF KeptInv
  <2>1. u # jobs[j].user
    BY <1>1, <1>3 DEF HeldInv
  <2>2. PICK h \in Hook : jobs[h].user = u /\ jobs[h].pc \in Exchanged /\ jobs[h].fresh
    BY <1>3, <2>1 DEF KeptInv
  <2>. QED  BY <1>1, <2>1, <2>2
<1>. QED  BY <1>4, <1>5, <1>6, <1>7

\* A lookup starts, with a token of the table or a new one.
LEMMA StartLookupPreserves ==
    ASSUME TInv, NEW j \in Job, NEW w \in User,
           jobs[j].pc \notin InLookup,
           UNCHANGED <<users, spent, lost>>, raced' = Racing(w),
           issued' \in {issued, issued + 1},
           \A l \in Login : logins'[l].pc = "agreed" => logins[l].pc = "agreed" /\ logins'[l] = logins[l],
           jobs'[j].pc = "user", jobs'[j].user = w, j \in Login => jobs'[j].fresh,
           \/ issued' = issued /\ jobs'[j].token = users[w].token /\ users[w].token # 0
           \/ issued' = issued + 1 /\ jobs'[j].token = issued + 1,
           \A k \in Job \ {j} : jobs'[k] = jobs[k]
    PROVE  TInv'
<1>. USE DEF TInv
<1>1. /\ Exchanged \subseteq InLookup /\ Hook \subseteq Job /\ "user" \notin Exchanged
      /\ Login \cap Hook = {} /\ raced \subseteq raced'
  BY AccountsAssumption DEF Exchanged, InLookup, Job, Racing
<1>2. TokenInv'
  BY <1>1 DEF TokenInv, LookupInv
<1>3. OneOwner'
  <2>1. \A u \in User : \A t \in 1..issued' :
           Holds(u, t)' => Holds(u, t) \/ (u = w /\ t = issued + 1)
    <3>. SUFFICES ASSUME NEW u \in User, NEW t \in 1..issued', Holds(u, t)', ~Holds(u, t)
                  PROVE  u = w /\ t = issued + 1
      OBVIOUS
    <3>1. PICK k \in Job : Looking(k, u)' /\ jobs'[k].token = t
      BY DEF Holds
    <3>2. k = j
      BY <3>1 DEF Holds, Looking
    <3>. QED  BY <3>1, <3>2 DEF Holds, Looking
  <2>. QED  BY <2>1, OwnersKept
<1>4. RacedInv'
  <2>. SUFFICES ASSUME NEW u \in User, NEW i \in Job, NEW k \in Job, Looking(i, u)',
                       Looking(k, u)', i # k
                PROVE  u \in raced'
    BY DEF RacedInv
  <2>1. CASE i # j /\ k # j
    BY <1>1, <2>1 DEF RacedInv, Looking
  <2>2. CASE i = j \/ k = j
    BY <2>2 DEF Racing, Looking
  <2>. QED  BY <2>1, <2>2
<1>5. HeldInv'
  BY <1>1 DEF HeldInv
<1>6. KeptInv'
  BY <1>1 DEF KeptInv
<1>. QED  BY <1>2, <1>3, <1>4, <1>5, <1>6

\* The handlers of a login: the callback that is accepted starts a lookup.
LEMMA LoginTokens ==
    ASSUME AInv, TInv, NEW l \in Login,
           \/ \E b \in Browser : viewOauthLogin(l, b) \/ viewOauthCB(l, b)
           \/ \E u \in User : Agree(l, u)
           \/ Respond(l)
    PROVE  TInv'
<1>. USE DEF AInv, LoginType
<1>1. \A k \in Login : logins[k].pc = "agreed" => logins[k].user \in User
  BY DEF TInv, TokenInv
<1>2. ASSUME NEW b \in Browser, viewOauthLogin(l, b)
      PROVE  TInv'
  <2>1. \A k \in Login : logins'[k].pc = "agreed" => logins'[k].user \in User
    BY <1>1, <1>2 DEF viewOauthLogin, LoginsType
  <2>. QED  BY <1>2, <2>1, TokensUntouched DEF viewOauthLogin
<1>3. ASSUME NEW b \in Browser, viewOauthCB(l, b)
      PROVE  TInv'
  <2>1. /\ logins[l].pc = "agreed" /\ logins' = [logins EXCEPT ![l].pc = "answered"]
        /\ UNCHANGED <<users, spent, lost>>
    BY <1>3 DEF viewOauthCB, Callback
  <2>2. \A k \in Login : logins'[k].pc = "agreed" => logins[k].pc = "agreed" /\ logins'[k] = logins[k]
    BY <2>1 DEF LoginsType
  <2>3. l \in Job /\ jobs[l].pc \notin InLookup /\ logins[l].user \in User /\ issued \in Int
    BY <1>1, <2>1 DEF JobInv, Served, Job, RowType
  <2>4. CallbackEffect(l, b)
    BY <1>3, <2>3, CallbackHasEffect
  <2>5. CASE stateCookie[b] = l
    <3>1. /\ jobs'[l].pc = "user" /\ jobs'[l].user = logins[l].user /\ jobs'[l].fresh
          /\ jobs'[l].token = issued + 1 /\ issued' = issued + 1
          /\ raced' = Racing(logins[l].user) /\ \A k \in Job \ {l} : jobs'[k] = jobs[k]
      BY <2>4, <2>5, Zenon DEF CallbackEffect
    <3>. HIDE DEF AInv, LoginType
    <3>. QED  BY <2>1, <2>2, <2>3, <3>1, StartLookupPreserves
  <2>6. CASE stateCookie[b] # l
    <3>1. /\ jobs'[l].pc = "refused" /\ UNCHANGED <<tokenVars, raced>>
          /\ \A k \in Job \ {l} : jobs'[k] = jobs[k]
      BY <2>1, <2>4, <2>6 DEF CallbackEffect, tokenVars
    <3>2. jobs'[l].pc \notin InLookup
      BY <3>1 DEF InLookup
    <3>. QED  BY <1>1, <2>2, <2>3, <3>1, <3>2, TokensUntouched
  <2>. QED  BY <2>5, <2>6
<1>4. ASSUME NEW u \in User, Agree(l, u)
      PROVE  TInv'
  <2>1. \A k \in Login : logins'[k].pc = "agreed" => logins'[k].user \in User
    BY <1>1, <1>4 DEF Agree, LoginsType
  <2>. QED  BY <1>4, <2>1, TokensUntouched DEF Agree
<1>5. CASE Respond(l)
  <2>1. /\ jobs[l].pc \notin InLookup /\ jobs'[l].pc \notin InLookup
        /\ \A k \in Job \ {l} : jobs'[k] = jobs[k]
    BY <1>5 DEF Respond, JobsType, InLookup, Job
  <2>2. UNCHANGED <<tokenVars, raced, logins>>
    BY <1>5 DEF Respond
  <2>. QED  BY <1>1, <2>1, <2>2, TokensUntouched
<1>. QED  BY <1>2, <1>3, <1>4, <1>5

\* The steps of lookupUser.
LEMMA LookupTokens ==
    ASSUME AInv, TInv, NEW j \in Job, GetUser(j) \/ GetGuilds(j) \/ SetUser(j) \/ LookupFails(j)
    PROVE  TInv'
<1>1. /\ jobs'[j].user = jobs[j].user /\ \A k \in Job \ {j} : jobs'[k] = jobs[k]
      /\ jobs[j].pc \in InLookup
      /\ jobs'[j].token # jobs[j].token \/ jobs'[j].fresh # jobs[j].fresh => GetUser(j)
  BY LookupEffect DEF AInv, LoginType, RowType
<1>2. JobsType
  BY DEF AInv, LoginType
<1>3. "guilds" \in Exchanged /\ "store" \in Exchanged /\ "failed" \notin InLookup
  BY DEF Exchanged, InLookup
<1>4. CASE GetUser(j)
  <2>1. /\ jobs[j].pc = "user" /\ jobs[j].token \notin spent
        /\ UNCHANGED <<users, lost, raced, logins>>
    BY <1>4 DEF GetUser
  <2>2. CASE jobs' = [jobs EXCEPT ![j].pc = "guilds"] /\ UNCHANGED <<issued, spent>>
    <3>1. jobs'[j].token = jobs[j].token /\ jobs'[j].fresh = jobs[j].fresh /\ jobs'[j].pc = "guilds"
      BY <1>2, <2>2 DEF JobsType
    <3>. QED  BY <1>1, <1>3, <2>1, <2>2, <3>1, LookupAdvances
  <2>3. CASE /\ ~jobs[j].fresh
             /\ issued' = issued + 1 /\ spent' = spent \cup {jobs[j].token}
             /\ jobs' = [jobs EXCEPT ![j].pc = "guilds", ![j].token = issued', ![j].fresh = TRUE]
    <3>1. jobs'[j].token = issued + 1 /\ jobs'[j].fresh = TRUE /\ jobs'[j].pc = "guilds"
      BY <1>2, <2>3 DEF JobsType
    <3>2. jobs'[j].fresh
      BY <3>1, Zenon
    <3>. QED  BY <1>1, <2>1, <2>3, <3>1, <3>2, RefreshPreserves
  <2>. QED  BY <1>4, <2>2, <2>3 DEF GetUser
<1>5. CASE GetGuilds(j)
  <2>1. /\ jobs[j].pc = "guilds"
        /\ UNCHANGED <<users, issued, spent, lost, raced, logins>>
    BY <1>5 DEF GetGuilds, tokenVars
  <2>2. PICK a \in BOOLEAN : jobs' = [jobs EXCEPT ![j].pc = "store", ![j].announce = a]
    BY <1>5 DEF GetGuilds
  <2>3. jobs'[j].token = jobs[j].token /\ jobs'[j].fresh = jobs[j].fresh /\ jobs'[j].pc = "store"
    BY <1>2, <2>2 DEF JobsType
  <2>. QED  BY <1>1, <1>3, <2>1, <2>3, LookupAdvances
<1>6. CASE SetUser(j)
  <2>1. /\ jobs[j].pc = "store" /\ UNCHANGED <<issued, spent, raced, logins>>
        /\ users' = [users EXCEPT ![jobs[j].user] =
                        [token |-> jobs[j].token, announce |-> jobs[j].announce]]
        /\ lost' = lost \ {jobs[j].user}
    BY <1>6 DEF SetUser
  <2>2. jobs'[j].pc = "stored"
    BY <1>2, <1>6 DEF SetUser, JobsType
  <2>3. RowType
    BY DEF AInv, LoginType
  <2>. QED  BY <1>1, <2>1, <2>2, <2>3, StorePreserves
<1>7. CASE LookupFails(j)
  <2>1. /\ UNCHANGED <<users, issued, spent, raced, logins>>
        /\ lost' = IF j \in Hook /\ jobs[j].fresh THEN lost \cup {jobs[j].user} ELSE lost
    BY <1>7 DEF LookupFails
  <2>2. jobs'[j].token = jobs[j].token /\ jobs'[j].fresh = jobs[j].fresh /\ jobs'[j].pc = "failed"
    BY <1>2, <1>7 DEF LookupFails, JobsType
  <2>. QED  BY <1>1, <1>3, <2>1, <2>2, LookupAdvances
<1>. QED  BY <1>4, <1>5, <1>6, <1>7

\* A webhook starts a lookup with the token of the table.
LEMMA HookTokens ==
    ASSUME AInv, TInv, NEW h \in Hook, Post(h) \/ \E n \in Name : Publish(h, n)
    PROVE  TInv'
<1>. USE DEF AInv, LoginType
<1>1. h \in Job /\ h \notin Login /\ \A k \in Login : logins[k].pc = "agreed" => logins[k].user \in User
  BY AccountsAssumption DEF Job, TInv, TokenInv
<1>2. CASE Post(h)
  <2>1. /\ jobs[h].pc \notin InLookup /\ jobs'[h].pc \notin InLookup
        /\ \A k \in Job \ {h} : jobs'[k] = jobs[k]
    BY <1>1, <1>2 DEF Post, JobsType, InLookup
  <2>. QED  BY <1>1, <1>2, <2>1, TokensUntouched DEF Post
<1>3. ASSUME NEW n \in Name, Publish(h, n)
      PROVE  TInv'
  <2>1. defs[n].owner \in User
    BY <1>3 DEF RowType, Publish
  <2>2. PICK u \in User : /\ users[u].token # 0 /\ raced' = Racing(u)
                          /\ jobs' = [jobs EXCEPT ![h] = At("user", u, None, users[u].token, FALSE)]
    BY <1>3, <2>1 DEF Publish
  <2>3. /\ jobs[h].pc \notin InLookup /\ UNCHANGED <<users, issued, spent, lost, logins>>
    BY <1>3 DEF Publish, tokenVars, InLookup
  <2>4. /\ jobs'[h].pc = "user" /\ jobs'[h].user = u /\ jobs'[h].token = users[u].token
        /\ \A k \in Job \ {h} : jobs'[k] = jobs[k]
    BY <1>1, <2>2 DEF JobsType, At
  <2>. QED  BY <1>1, <2>2, <2>3, <2>4, StartLookupPreserves
<1>. QED  BY <1>2, <1>3

\* A token that was exchanged does not stay in the table once its lookup is over,
\* unless the lookup failed or two lookups of the user overlapped (lookupUser, SetUser).
THEOREM TokenKeptHolds == Spec => []TokenKept
<1>1. Init => TInv
  <2>. SUFFICES ASSUME Init PROVE TInv
    OBVIOUS
  <2>1. \A j \in Job : jobs[j].pc \notin InLookup /\ jobs[j].pc \notin Exchanged
    BY DEF Init, At, InLookup, Exchanged
  <2>2. issued = 0 /\ spent = {} /\ \A u \in User : users[u].token = 0
    BY DEF Init
  <2>3. \A l \in Login : logins[l].pc = "idle"
    BY DEF Init
  <2>. QED  BY <2>1, <2>2, <2>3
            DEF TInv, TokenInv, LookupInv, OneOwner, RacedInv, HeldInv, KeptInv, Looking
<1>2. AInv /\ TInv /\ [Next]_vars => TInv'
  <2>. SUFFICES ASSUME AInv, TInv, [Next]_vars PROVE TInv'
    OBVIOUS
  <2>1. ASSUME NEW l \in Login, \/ \E b \in Browser : viewOauthLogin(l, b) \/ viewOauthCB(l, b)
                                \/ \E u \in User : Agree(l, u)
                                \/ Respond(l)
        PROVE  TInv'
    BY <2>1, LoginTokens
  <2>2. ASSUME NEW j \in Job, GetUser(j) \/ GetGuilds(j) \/ SetUser(j) \/ LookupFails(j)
        PROVE  TInv'
    BY <2>2, LookupTokens
  <2>3. ASSUME UNCHANGED <<tokenVars, raced, jobs, logins>>
        PROVE  TInv'
    <3>1. \A l \in Login : logins[l].pc = "agreed" => logins[l].user \in User
      BY DEF TInv, TokenInv
    <3>. QED  BY <2>3, <3>1, TokensUntouched
  <2>4. ASSUME NEW b \in Browser, \/ viewOauthLogout(b) \/ ExpireState(b)
                                  \/ \E n \in Name : viewDefsChange(b, n)
        PROVE  TInv'
    BY <2>3, <2>4 DEF viewOauthLogout, ExpireState, viewDefsChange
  <2>5. ASSUME NEW h \in Hook, Post(h) \/ \E n \in Name : Publish(h, n)
        PROVE  TInv'
    BY <2>5, HookTokens
  <2>6. CASE UNCHANGED vars
    BY <2>3, <2>6 DEF vars
  <2>. QED  BY <2>1, <2>2, <2>4, <2>5, <2>6 DEF Next
<1>3. TInv => TokenKept
  BY DEF TInv, HeldInv, KeptInv, TokenKept, Exchanged, Job
<1>. QED  BY <1>1, <1>2, <1>3, LoginInvariant, PTL DEF Spec

=============================================================================
