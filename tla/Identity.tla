------------------------------ MODULE Identity ------------------------------
(***************************************************************************)
(* Accounts, sessions and demo workspaces.  A login opens a session; its   *)
(* refresh token is exchanged for the next one by refresh-session and ends *)
(* by logout-session.  The account of the demo is shared by all visitors:  *)
(* a login to it resolves the browser's own copy of the seed workspace,    *)
(* and deletes the copies whose time is over.  Transactions are READ       *)
(* COMMITTED: what a request read may be stale when it writes, so reading  *)
(* and committing are separate actions wherever that can matter.           *)
(***************************************************************************)
EXTENDS Integers, FiniteSets

CONSTANTS
  Members,       \* people who may register an account of their own
  Browsers,      \* demo session ids: one per visitor of the demo
  Ips,           \* addresses logins come from
  Sessions,      \* ids of session rows, 1..n
  Requests,      \* requests the API processes serve at once
  Seed,          \* the seed workspace
  DemoUser,      \* the demo's account
  None,
  AccessTtl, RefreshTtl, DemoTtl,
  RateWindow,    \* SESSION_RATE_WINDOW_MS
  MaxPerIp,      \* DEMO_MAX_SESSIONS_PER_IP_PER_HOUR
  CleanupLimit,  \* sessions one login cleans up, 250
  MaxTime,       \* bound: the clock
  MaxClones,     \* bound: copies made for one browser
  MaxTokens      \* bound: refresh tokens of one session

Users == Members \cup {DemoUser}
CloneIds == Browsers \X (1..MaxClones)
Workspaces == Members \cup {Seed} \cup CloneIds
Tokens == Sessions \X (1..MaxTokens)

VARIABLES
  now,         \* the clock the processes share
  users,       \* accounts that exist
  workspaces,  \* workspaces that exist; a member's own has the member's name
  demo,        \* demo_sessions rows, by browser
  session,     \* sessions rows
  request,     \* where each request stands
  copies,      \* how many copies each browser has had
  redeemed,    \* history: how often each refresh token was exchanged
  access,      \* access tokens handed out, with the session they name
  loggedOut    \* history: refresh tokens a logout was answered for

vars == <<now, users, workspaces, demo, session, request, copies, redeemed, access,
          loggedOut>>

\* "counted" is history: no login its own did not count committed before it, and its
\* address is the one it was counted for.
DemoRow == [workspace : CloneIds, ip : Ips, expires : Nat, created : Nat, counted : BOOLEAN]
SessionRow ==
  [user : Users, workspace : Workspaces \cup {None}, token : Nat, revoked : BOOLEAN,
   expires : Nat, home : Workspaces]
Idle == [op |-> "idle"]
AccessToken == [session : Sessions, workspace : Workspaces, expires : Nat]
\* "touched" is history: the demo sessions opened or renewed since this login listed.
Login ==
  [op : {"login", "login_commit"}, browser : Browsers, ip : Ips, now : Nat,
   doomed : SUBSET CloneIds, found : CloneIds \cup {None}, counted : SUBSET Browsers,
   touched : SUBSET Browsers]
Refresh == [op : {"refresh"}, session : Sessions, token : Nat, workspace : Workspaces]

\* DEMO_SESSION_TTL_HOURS is at least one hour, and that is the rate window; what identifies
\* a user, a workspace or a row tells it from the others.
ASSUME IdentityAssumption ==
  /\ {AccessTtl, RefreshTtl, DemoTtl, RateWindow, MaxPerIp, CleanupLimit} \subseteq Nat \ {0}
  /\ {MaxTime, MaxClones} \cup Sessions \subseteq Nat /\ MaxTokens \in Nat \ {0}
  /\ RateWindow <= DemoTtl
  /\ IsFiniteSet(Requests) /\ IsFiniteSet(Browsers)
  /\ Seed \notin Members \cup CloneIds /\ Members \cap CloneIds = {}
  /\ DemoUser \notin Workspaces
  /\ None \notin Workspaces \cup Browsers \cup Sessions \cup Users
  /\ None \notin DemoRow /\ None \notin SessionRow

\* Every variable keeps its type, and what a row refers to exists (the foreign keys).
TypeOK ==
  /\ now \in 0..MaxTime
  /\ users \subseteq Users
  /\ workspaces \subseteq Workspaces
  /\ demo \in [Browsers -> DemoRow \cup {None}]
  /\ session \in [Sessions -> SessionRow \cup {None}]
  /\ request \in [Requests -> {Idle} \cup Login \cup Refresh]
  /\ copies \in [Browsers -> 0..MaxClones]
  /\ redeemed \in [Tokens -> Nat]
  /\ access \subseteq AccessToken
  /\ loggedOut \subseteq Tokens
  /\ \A b \in Browsers : demo[b] # None => demo[b].workspace \in workspaces
  /\ \A s \in Sessions : session[s] # None => session[s].workspace \in workspaces \cup {None}

Init ==
  /\ now = 0
  /\ users = {}
  /\ workspaces = {}
  /\ demo = [b \in Browsers |-> None]
  /\ session = [s \in Sessions |-> None]
  /\ request = [r \in Requests |-> Idle]
  /\ copies = [b \in Browsers |-> 0]
  /\ redeemed = [t \in Tokens |-> 0]
  /\ access = {}
  /\ loggedOut = {}

Done(r) == request' = [request EXCEPT ![r] = Idle]

\* ensureActiveSession: neither revoked nor expired.
Active(s) == session[s] # None /\ ~session[s].revoked /\ session[s].expires > now

\* The workspaces a user is a member of: his own, or the seed and every copy of it.
MemberOf(u) == IF u = DemoUser THEN workspaces \ Members ELSE workspaces \cap {u}

\* findPrimaryWorkspaceForUser: copies for visitors are not primary.
PrimaryWorkspace(u) ==
  IF u = DemoUser /\ Seed \in workspaces THEN Seed
  ELSE IF u \in workspaces THEN u ELSE None

NewSession(u, w) ==
  [user |-> u, workspace |-> w, token |-> 1, revoked |-> FALSE,
   expires |-> now + RefreshTtl, home |-> w]

\* Ids are random: the next one stands for any that no row has.
IsNext(s) == session[s] = None /\ \A p \in Sessions : session[p] = None => s <= p

\* issueAccessToken: the workspace and the session are claims of the token.
Issue(s, w) ==
  access' = access \cup {[session |-> s, workspace |-> w, expires |-> now + AccessTtl]}

---------------------------------------------------------------------------
(***************************************************************************)
(* Accounts.                                                               *)
(***************************************************************************)

\* Serializable, and the email is unique: a second registration is refused.
RegisterUser(u) ==
  /\ u \in Members \ users
  /\ users' = users \cup {u}
  /\ workspaces' = workspaces \cup {u}
  /\ UNCHANGED <<now, demo, session, request, copies, redeemed, access, loggedOut>>

\* Everything the seed writes is written while it holds the row of the demo's user.
SeedDemoWorkspace ==
  /\ users' = users \cup {DemoUser}
  /\ workspaces' = workspaces \cup {Seed}
  /\ UNCHANGED <<now, demo, session, request, copies, redeemed, access, loggedOut>>

\* A member's workspace is never deleted: nothing this login read can become stale.
LoginUser(s, u) ==
  /\ u \in users \cap Members
  /\ IsNext(s)
  /\ PrimaryWorkspace(u) # None
  /\ session' = [session EXCEPT ![s] = NewSession(u, PrimaryWorkspace(u))]
  /\ Issue(s, PrimaryWorkspace(u))
  /\ UNCHANGED <<now, users, workspaces, demo, request, copies, redeemed, loggedOut>>

---------------------------------------------------------------------------
(***************************************************************************)
(* A visitor's login: one transaction.                                     *)
(***************************************************************************)

\* Seeded regression: a session in its last instant is listed.
ExpiredSoon(t) == {b \in Browsers : demo[b] # None /\ demo[b].expires <= t + 1}
ExpiredBy(t) == {b \in Browsers : demo[b] # None /\ demo[b].expires <= t}

\* The first CleanupLimit expired sessions, the oldest first.
CleanupList(t, list) ==
  /\ list \subseteq ExpiredBy(t)
  /\ Cardinality(list) <= CleanupLimit
  /\ list # ExpiredBy(t) => Cardinality(list) = CleanupLimit
  /\ \A b \in list, c \in ExpiredBy(t) \ list : demo[b].expires <= demo[c].expires

\* The password is right; the login takes its time and lists what has expired.
BeginDemoLogin(r) ==
  /\ request[r] = Idle
  /\ DemoUser \in users
  /\ \E b \in Browsers, ip \in Ips, list \in SUBSET Browsers :
       /\ CleanupList(now, list)
       /\ request' = [request EXCEPT
            ![r] = [op |-> "login", browser |-> b, ip |-> ip, now |-> now,
                    doomed |-> {demo[c].workspace : c \in list}, found |-> None,
                    counted |-> {}, touched |-> {}]]
  /\ UNCHANGED <<now, users, workspaces, demo, session, copies, redeemed, access,
                 loggedOut>>

\* demoSession.count of those not deleted by this transaction.
CountedFor(ip, since, doomed) ==
  {b \in Browsers : /\ demo[b] # None
                    /\ demo[b].workspace \notin doomed
                    /\ demo[b].ip = ip
                    /\ demo[b].created >= since}

\* Seeded regression: one session too many.
UpToIpLimit(used) == Cardinality(used) <= MaxPerIp
WithinIpLimit(used) == Cardinality(used) < MaxPerIp

\* A session that has not expired is kept; one that has is deleted and replaced.
\* A refused login rolls everything back, the clean-up too.
FindDemoSession(r) ==
  /\ request[r].op = "login"
  /\ LET q == request[r]
         row == IF demo[q.browser] = None \/ demo[q.browser].workspace \in q.doomed
                THEN None ELSE demo[q.browser]
         old == IF row = None THEN {} ELSE {row.workspace}
         kept == row # None /\ row.expires > q.now
         used == CountedFor(q.ip, q.now - RateWindow, q.doomed \cup old)
         allowed == WithinIpLimit(used) /\ Seed \in workspaces
     IN request' = [request EXCEPT
          ![r] = IF kept THEN [q EXCEPT !.op = "login_commit", !.found = row.workspace]
                 ELSE IF allowed THEN [q EXCEPT !.op = "login_commit", !.doomed = @ \cup old,
                                                    !.counted = used]
                 ELSE Idle]
  /\ UNCHANGED <<now, users, workspaces, demo, session, copies, redeemed, access,
                 loggedOut>>

\* demo_sessions and sessions rows of deleted workspaces: CASCADE and SET NULL.
Cascade(doomed) ==
  [b \in Browsers |-> IF demo[b] # None /\ demo[b].workspace \in doomed THEN None ELSE demo[b]]
SetNull(doomed) ==
  [s \in Sessions |-> IF session[s] # None /\ session[s].workspace \in doomed
                      THEN [session[s] EXCEPT !.workspace = None] ELSE session[s]]

Opened(r, b) ==
  request' = [p \in Requests |->
    IF p = r THEN Idle
    ELSE IF request[p].op \in {"login", "login_commit"}
      THEN [request[p] EXCEPT !.touched = @ \cup {b}]
    ELSE request[p]]

\* The row is updated by its id: if its workspace went meanwhile, the update throws.
RenewDemoSession(r, s) ==
  LET q == request[r]  b == q.browser IN
  /\ q.op = "login_commit" /\ q.found # None
  /\ IsNext(s)
  /\ demo[b] # None /\ demo[b].workspace = q.found
  /\ workspaces' = workspaces \ q.doomed
  /\ demo' = [Cascade(q.doomed) EXCEPT ![b] = [demo[b] EXCEPT !.ip = q.ip,
                                                !.expires = q.now + DemoTtl,
                                                !.counted = @ /\ demo[b].ip = q.ip]]
  /\ session' = [SetNull(q.doomed) EXCEPT ![s] = NewSession(DemoUser, q.found)]
  /\ Issue(s, q.found)
  /\ Opened(r, b)
  /\ UNCHANGED <<now, users, copies, redeemed, loggedOut>>

\* The session key is unique: if another login made the row meanwhile, the insert throws.
CreateDemoSession(r, s) ==
  LET q == request[r]  b == q.browser  w == <<b, copies[b] + 1>> IN
  /\ q.op = "login_commit" /\ q.found = None
  /\ IsNext(s)
  /\ copies[b] < MaxClones
  /\ Cascade(q.doomed)[b] = None
  /\ copies' = [copies EXCEPT ![b] = @ + 1]
  /\ workspaces' = (workspaces \ q.doomed) \cup {w}
  /\ demo' = [Cascade(q.doomed) EXCEPT
       ![b] = [workspace |-> w, ip |-> q.ip, expires |-> q.now + DemoTtl,
               created |-> now,
               counted |-> CountedFor(q.ip, q.now - RateWindow, q.doomed) \subseteq q.counted]]
  /\ session' = [SetNull(q.doomed) EXCEPT ![s] = NewSession(DemoUser, w)]
  /\ Issue(s, w)
  /\ Opened(r, b)
  /\ UNCHANGED <<now, users, redeemed, loggedOut>>

DemoLoginThrows(r) ==
  LET q == request[r]  b == q.browser IN
  /\ q.op = "login_commit"
  /\ IF q.found # None THEN ~(demo[b] # None /\ demo[b].workspace = q.found)
                       ELSE Cascade(q.doomed)[b] # None
  /\ Done(r)
  /\ UNCHANGED <<now, users, workspaces, demo, session, copies, redeemed, access,
                 loggedOut>>

---------------------------------------------------------------------------
(***************************************************************************)
(* Refresh and logout.                                                     *)
(***************************************************************************)

\* Any refresh token handed out may be presented, by several requests at once.
Presented(s) == IF session[s] = None THEN {} ELSE 1..session[s].token

\* A session whose workspace is gone falls back to the primary workspace.
RefreshWorkspace(s) ==
  LET row == session[s] IN
  IF row.workspace = None THEN PrimaryWorkspace(row.user)
  ELSE IF row.workspace \in MemberOf(row.user) THEN row.workspace ELSE None

FindRefreshedSession(r) ==
  /\ request[r] = Idle
  /\ \E s \in Sessions : \E t \in Presented(s) :
       /\ Active(s)
       /\ t = session[s].token
       /\ session[s].token < MaxTokens
       /\ RefreshWorkspace(s) # None
       /\ request' = [request EXCEPT
            ![r] = [op |-> "refresh", session |-> s, token |-> t,
                    workspace |-> RefreshWorkspace(s)]]
  /\ UNCHANGED <<now, users, workspaces, demo, session, copies, redeemed, access,
                 loggedOut>>

\* Seeded regressions: a condition of the update is left out.
RotatableByAnyToken(q) == Active(q.session)
RotatableIfRevoked(q) ==
  /\ session[q.session].expires > now
  /\ session[q.session].token = q.token

\* rotateRefreshToken: the conditions of the update.
Rotatable(q) == Active(q.session) /\ session[q.session].token = q.token

\* The audit entry refers to the workspace: if that went meanwhile, all is rolled back.
RotateRefreshToken(r) ==
  LET q == request[r] IN
  /\ q.op = "refresh"
  /\ Rotatable(q)
  /\ q.workspace \in workspaces
  /\ session' = [session EXCEPT ![q.session].token = @ + 1,
                                ![q.session].expires = now + RefreshTtl]
  /\ redeemed' = [redeemed EXCEPT ![<<q.session, q.token>>] = @ + 1]
  /\ Issue(q.session, q.workspace)
  /\ Done(r)
  /\ UNCHANGED <<now, users, workspaces, demo, copies, loggedOut>>

RefreshRejected(r) ==
  /\ request[r].op = "refresh"
  /\ ~Rotatable(request[r]) \/ request[r].workspace \notin workspaces
  /\ Done(r)
  /\ UNCHANGED <<now, users, workspaces, demo, session, copies, redeemed, access,
                 loggedOut>>

\* The update revokes by the hash of the token presented; the answer is the same
\* whether it found a row or not.
LogoutSession(s, t) ==
  /\ t \in Presented(s)
  /\ session' = IF session[s].token = t THEN [session EXCEPT ![s].revoked = TRUE] ELSE session
  /\ loggedOut' = loggedOut \cup {<<s, t>>}
  /\ UNCHANGED <<now, users, workspaces, demo, request, copies, redeemed, access>>

---------------------------------------------------------------------------
(***************************************************************************)
(* Requests of a session.  Admitting one changes nothing.                  *)
(***************************************************************************)

\* Seeded regression: membership is not looked up.
AdmitsNonMembers(a) ==
  /\ a.expires > now
  /\ Active(a.session)
  /\ session[a.session].workspace \in {None, a.workspace}

\* get-authenticated-user: the token's workspace is the session's, if that still has
\* one, and the user is a member of it.
Admits(a) ==
  /\ a.expires > now
  /\ Active(a.session)
  /\ session[a.session].workspace \in {None, a.workspace}
  /\ a.workspace \in MemberOf(session[a.session].user)

\* A transaction that fails, or whose process dies, leaves nothing behind.
TransactionFails(r) ==
  /\ request[r].op \in {"login", "login_commit", "refresh"}
  /\ Done(r)
  /\ UNCHANGED <<now, users, workspaces, demo, session, copies, redeemed, access,
                 loggedOut>>

\* Access tokens that have expired are of no use to anyone.
Tick ==
  /\ now < MaxTime
  /\ now' = now + 1
  /\ access' = {a \in access : a.expires > now'}
  /\ UNCHANGED <<users, workspaces, demo, session, request, copies, redeemed, loggedOut>>

Next ==
  \/ \E u \in Members : RegisterUser(u)
  \/ SeedDemoWorkspace
  \/ \E s \in Sessions, u \in Members : LoginUser(s, u)
  \/ \E r \in Requests :
       \/ BeginDemoLogin(r) \/ FindDemoSession(r) \/ DemoLoginThrows(r)
       \/ \E s \in Sessions : RenewDemoSession(r, s) \/ CreateDemoSession(r, s)
       \/ FindRefreshedSession(r) \/ RotateRefreshToken(r) \/ RefreshRejected(r)
       \/ TransactionFails(r)
  \/ \E s \in Sessions : \E t \in Presented(s) : LogoutSession(s, t)
  \/ Tick

Spec == Init /\ [][Next]_vars

---------------------------------------------------------------------------
(***************************************************************************)
(* Properties.                                                             *)
(***************************************************************************)

\* Two refreshes that present one token: at most one is given the next token, however
\* they overlap, and a logout in between leaves none (refresh-session, rotateRefreshToken).
RedeemedOnce == \A t \in Tokens : redeemed[t] <= 1

\* A token that was presented to a logout buys nothing afterwards: a refresh that had
\* found the session active before the logout does not get through (logout-session).
LoggedOutTokenIsDead ==
  [][\A t \in loggedOut : redeemed'[t] = redeemed[t]]_vars

\* A visitor's copy is deleted when its time is over, never while he is using it. The
\* exception is what READ COMMITTED allows: the copy was renewed after the login that
\* deletes it had listed it (cleanupExpiredSessions).
DeletesOnlyExpiredCopies ==
  [][\A b \in DOMAIN demo :
       /\ demo[b] # None
       /\ demo[b].workspace \notin workspaces'
       => \/ demo[b].expires <= now
          \/ \E r \in DOMAIN request : /\ request[r].op = "login_commit"
                                       /\ request'[r] = Idle
                                       /\ b \in request[r].touched]_vars

\* One address opens at most MaxPerIp copies an hour. The exceptions: copies made while
\* another login that was not counted committed, for nothing serializes the logins of
\* one address, and copies renewed from another address, for a renewal rewrites the
\* address that is counted (resolveSessionWorkspace).
DemoLoginsBounded ==
  \A ip \in Ips :
    Cardinality({b \in Browsers : /\ demo[b] # None
                                  /\ demo[b].ip = ip /\ demo[b].counted
                                  /\ demo[b].created >= now - RateWindow}) <= MaxPerIp

\* A request is admitted to the workspace its session was opened for as long as that exists,
\* and never to one that is another user's or another visitor's, or that was deleted
\* (get-authenticated-user). Which requests of a session are admitted once its workspace is
\* gone is not said here but by VisitorsShareNothing, which the code does not keep.
CallsKeepTheirWorkspace ==
  \A a \in access :
    Admits(a) =>
      LET home == session[a.session].home IN
      /\ home \in workspaces => a.workspace = home
      /\ a.workspace \in Members \cup CloneIds => a.workspace = home /\ home \in workspaces

\* docs/security.md:21: "Demo sessions resolve to isolated demo workspaces during login. After
\* login, all endpoints use the issued JWT workspace scope"; line 55: "Session-scoped demo
\* workspaces prevent shared mutable data between browser sessions". Requests of two visitors are
\* never admitted to one workspace.
VisitorsShareNothing ==
  \A a, b \in access :
    LET s == session[a.session]  t == session[b.session] IN
    /\ Admits(a) /\ Admits(b)
    /\ s.user = DemoUser /\ t.user = DemoUser
    /\ s.home[1] # t.home[1]
    => a.workspace # b.workspace
=============================================================================
