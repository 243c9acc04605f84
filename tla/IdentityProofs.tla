--------------------------- MODULE IdentityProofs ---------------------------
(***************************************************************************)
(* Theorems about accounts, sessions and demo workspaces: refresh tokens   *)
(* are exchanged once and not after a logout, requests keep the workspace  *)
(* their session was opened for, a visitor's copy is deleted when its time *)
(* is over, and one address opens a bounded number of them.  They rest on  *)
(* one inductive invariant, IdentityInv.                                   *)
(***************************************************************************)
EXTENDS Identity, FiniteSetTheorems, TLAPS

\* A token is one of its session's, was exchanged at most once and only if there is a later
\* one by now, and one that was presented to a logout is of no use to a refresh.
TokenInv ==
  /\ \A s \in Sessions : session[s] # None => session[s].token \in 1..MaxTokens
  /\ \A s \in Sessions, t \in 1..MaxTokens :
       redeemed[<<s, t>>] # 0 =>
         redeemed[<<s, t>>] = 1 /\ session[s] # None /\ session[s].token > t
  /\ \A s \in Sessions, t \in 1..MaxTokens :
       <<s, t>> \in loggedOut =>
         session[s] # None /\ (session[s].revoked \/ session[s].token > t)

\* A copy is its browser's, and was one of those made for it.
CopyInv ==
  \A b \in Browsers :
    demo[b] # None => demo[b].workspace[1] = b /\ demo[b].workspace[2] <= copies[b]

\* A session names the workspace it was opened for until that is gone for ever, which only a
\* visitor's copy is.
SessionInv ==
  \A s \in Sessions :
    session[s] # None =>
      /\ session[s].user = DemoUser =>
           session[s].home \in CloneIds /\ session[s].home[2] <= copies[session[s].home[1]]
      /\ session[s].user # DemoUser => session[s].home = session[s].user
      /\ session[s].home \in workspaces => session[s].workspace = session[s].home
      /\ session[s].home \notin workspaces =>
           session[s].user = DemoUser /\ session[s].workspace = None

\* The workspace the session was opened for, or the seed once that is gone.
Fits(s, w) ==
  /\ session[s] # None
  /\ \/ w = session[s].home
     \/ session[s].home \notin workspaces /\ w = Seed /\ Seed \in workspaces
AccessInv == \A a \in access : Fits(a.session, a.workspace)

\* A refresh will hand out a workspace that fits its session.
RefreshOK(q) == q.token \in 1..(MaxTokens - 1) /\ Fits(q.session, q.workspace)

\* What a login will delete had expired when it listed it, or was renewed since; what it will
\* keep it does not delete; and it counted fewer copies than its address may open.
LoginOK(q) ==
  /\ q.now <= now
  /\ Cardinality(q.counted) < MaxPerIp
  /\ q.found \notin q.doomed /\ (q.op = "login" => q.found = None)
  /\ \A b \in Browsers :
       demo[b] # None /\ demo[b].workspace \in q.doomed =>
         demo[b].expires <= q.now \/ b \in q.touched
RequestInv ==
  \A r \in Requests :
    /\ request[r] \in Refresh => RefreshOK(request[r])
    /\ request[r] \in Login => LoginOK(request[r])

\* The copies an address opened in the last hour that count.
Recent(ip) ==
  {b \in Browsers : /\ demo[b] # None
                    /\ demo[b].ip = ip /\ demo[b].counted
                    /\ demo[b].created >= now - RateWindow}
BoundInv == \A ip \in Ips : Cardinality(Recent(ip)) <= MaxPerIp

IdentityInv ==
  TypeOK /\ TokenInv /\ CopyInv /\ SessionInv /\ AccessInv /\ RequestInv /\ BoundInv

---------------------------------------------------------------------------

LEMMA IdentityConstants ==
  /\ AccessTtl \in Nat /\ RefreshTtl \in Nat /\ DemoTtl \in Nat /\ RateWindow \in Nat
  /\ MaxPerIp \in Nat \ {0} /\ MaxTime \in Nat /\ MaxClones \in Nat /\ MaxTokens \in Nat \ {0}
  /\ IsFiniteSet(Browsers) /\ Sessions \subseteq Nat
  /\ Seed \notin Members \cup CloneIds /\ Members \cap CloneIds = {} /\ DemoUser \notin Workspaces
  /\ None \notin Workspaces /\ None \notin Sessions /\ None \notin DemoRow /\ None \notin SessionRow
BY IdentityAssumption

LEMMA RequestKinds ==
  /\ \A q \in Login : q.op \in {"login", "login_commit"}
  /\ \A q \in Refresh : q.op = "refresh"
  /\ Idle \notin Login /\ Idle \notin Refresh
BY DEF Login, Refresh, Idle

LEMMA IdentityInit == Init => IdentityInv
<1>. SUFFICES ASSUME Init PROVE IdentityInv OBVIOUS
<1>. USE DEF Init
<1>1. TypeOK BY IdentityConstants DEF TypeOK, Idle
<1>2. TokenInv /\ CopyInv /\ SessionInv /\ AccessInv
  BY DEF TokenInv, CopyInv, SessionInv, AccessInv, Tokens
<1>3. RequestInv BY RequestKinds DEF RequestInv
<1>4. BoundInv
  <2>1. \A ip \in Ips : Recent(ip) = {} BY DEF Recent
  <2>. QED BY <2>1, FS_EmptySet, IdentityConstants DEF BoundInv
<1>. QED BY <1>1, <1>2, <1>3, <1>4 DEF IdentityInv

\* A request that takes its next step without a commit.
LEMMA RequestPreserves ==
  ASSUME IdentityInv, NEW r \in Requests, NEW q \in {Idle} \cup Login \cup Refresh,
         request' = [request EXCEPT ![r] = q],
         UNCHANGED <<now, users, workspaces, demo, session, copies, redeemed, access, loggedOut>>,
         q \in Refresh => RefreshOK(q), q \in Login => LoginOK(q)
  PROVE  IdentityInv'
<1>1. /\ request' \in [Requests -> {Idle} \cup Login \cup Refresh]
      /\ \A p \in Requests : request'[p] = IF p = r THEN q ELSE request[p]
  BY DEF IdentityInv, TypeOK
<1>2. TypeOK' BY <1>1 DEF IdentityInv, TypeOK
<1>3. TokenInv' /\ CopyInv' /\ SessionInv' /\ AccessInv'
  BY DEF IdentityInv, TokenInv, CopyInv, SessionInv, AccessInv, Fits
<1>4. \A p \in Requests :
        /\ request'[p] \in Refresh => RefreshOK(request'[p])
        /\ request'[p] \in Login => LoginOK(request'[p])
  BY <1>1 DEF IdentityInv, RequestInv
<1>5. RequestInv' BY <1>4 DEF RequestInv, RefreshOK, LoginOK, Fits
<1>6. BoundInv' BY DEF IdentityInv, BoundInv, Recent
<1>. QED BY <1>2, <1>3, <1>5, <1>6 DEF IdentityInv

LEMMA LoginTypes ==
  ASSUME IdentityInv, NEW r \in Requests
  PROVE  /\ request[r].op \in {"login", "login_commit"} => request[r] \in Login /\ LoginOK(request[r])
         /\ request[r].op = "refresh" => request[r] \in Refresh /\ RefreshOK(request[r])
<1>1. request[r] \in {Idle} \cup Login \cup Refresh BY DEF IdentityInv, TypeOK
<1>. QED BY <1>1, RequestKinds DEF IdentityInv, RequestInv, Idle

\* A login lists what has expired.
LEMMA BeginDemoLoginPreserves ==
  ASSUME IdentityInv, NEW r \in Requests, BeginDemoLogin(r)
  PROVE  IdentityInv'
<1>1. PICK b \in Browsers, ip \in Ips, list \in SUBSET Browsers :
        /\ CleanupList(now, list)
        /\ request' = [request EXCEPT
             ![r] = [op |-> "login", browser |-> b, ip |-> ip, now |-> now,
                     doomed |-> {demo[c].workspace : c \in list}, found |-> None,
                     counted |-> {}, touched |-> {}]]
  BY DEF BeginDemoLogin
<1>2. PICK doomed : doomed = {demo[c].workspace : c \in list} OBVIOUS
<1>3. \A c \in list : c \in Browsers /\ demo[c] # None /\ demo[c].expires <= now
  BY <1>1 DEF CleanupList, ExpiredBy
<1>4. \A c \in Browsers : demo[c] # None => demo[c] \in DemoRow /\ demo[c].workspace \in CloneIds
  BY DEF IdentityInv, TypeOK, DemoRow
<1>5. doomed \subseteq CloneIds BY <1>2, <1>3, <1>4
<1>6. \A c \in Browsers : demo[c] # None /\ demo[c].workspace \in doomed => demo[c].expires <= now
  <2>1. ASSUME NEW c \in Browsers, demo[c] # None, NEW d \in list,
               demo[c].workspace = demo[d].workspace
        PROVE  c = d
    BY <1>3, <2>1 DEF IdentityInv, CopyInv
  <2>. QED BY <1>2, <1>3, <2>1
<1>7. PICK q : q = [op |-> "login", browser |-> b, ip |-> ip, now |-> now, doomed |-> doomed,
                    found |-> None, counted |-> {}, touched |-> {}]
  OBVIOUS
<1>8. now \in Nat BY DEF IdentityInv, TypeOK
<1>9. q \in Login BY <1>5, <1>7, <1>8 DEF Login
<1>10. q.now = now /\ q.counted = {} /\ q.found = None /\ q.doomed = doomed BY <1>7
<1>11. None \notin doomed BY <1>5, IdentityConstants DEF Workspaces
<1>12. LoginOK(q)
  BY <1>6, <1>8, <1>10, <1>11, FS_EmptySet, IdentityConstants DEF LoginOK
<1>. QED
  BY <1>1, <1>2, <1>7, <1>9, <1>12, RequestKinds, RequestPreserves DEF BeginDemoLogin

\* It finds the session of its browser, or counts those of its address.
LEMMA FindDemoSessionPreserves ==
  ASSUME IdentityInv, NEW r \in Requests, FindDemoSession(r)
  PROVE  IdentityInv'
<1>1. PICK q : q = request[r] OBVIOUS
<1>2. q \in Login /\ LoginOK(q) BY <1>1, LoginTypes DEF FindDemoSession
<1>3. PICK row : row = IF demo[q.browser] = None \/ demo[q.browser].workspace \in q.doomed
                       THEN None ELSE demo[q.browser]
  OBVIOUS
<1>4. PICK old : old = IF row = None THEN {} ELSE {row.workspace} OBVIOUS
<1>5. PICK used : used = CountedFor(q.ip, q.now - RateWindow, q.doomed \cup old) OBVIOUS
<1>6. PICK p :
        /\ request' = [request EXCEPT ![r] = p]
        /\ \/ row # None /\ row.expires > q.now
              /\ p = [q EXCEPT !.op = "login_commit", !.found = row.workspace]
           \/ /\ ~(row # None /\ row.expires > q.now) /\ WithinIpLimit(used)
              /\ p = [q EXCEPT !.op = "login_commit", !.doomed = @ \cup old, !.counted = used]
           \/ p = Idle
  BY <1>1, <1>3, <1>4, <1>5 DEF FindDemoSession
<1>7. row # None =>
        /\ q.browser \in Browsers /\ row = demo[q.browser] /\ row \in DemoRow
        /\ row.workspace \in CloneIds /\ row.workspace \notin q.doomed
        /\ row.workspace[1] = q.browser /\ row.expires \in Nat
  BY <1>2, <1>3 DEF IdentityInv, TypeOK, CopyInv, DemoRow, Login
<1>8. old \subseteq CloneIds BY <1>4, <1>7
<1>9. CASE /\ row # None
           /\ p = [q EXCEPT !.op = "login_commit", !.found = row.workspace]
  <2>1. p \in Login BY <1>2, <1>7, <1>9 DEF Login
  <2>2. /\ p.now = q.now /\ p.counted = q.counted /\ p.doomed = q.doomed
        /\ p.touched = q.touched /\ p.found = row.workspace /\ p.op = "login_commit"
    BY <1>2, <1>9 DEF Login
  <2>3. LoginOK(p) BY <1>2, <1>7, <1>9, <2>2 DEF LoginOK
  <2>. QED BY <1>6, <2>1, <2>3, RequestKinds, RequestPreserves DEF FindDemoSession
<1>10. CASE /\ ~(row # None /\ row.expires > q.now) /\ WithinIpLimit(used)
            /\ p = [q EXCEPT !.op = "login_commit", !.doomed = @ \cup old, !.counted = used]
  <2>1. used \subseteq Browsers BY <1>5 DEF CountedFor
  <2>2. p \in Login BY <1>2, <1>8, <1>10, <2>1 DEF Login
  <2>3. /\ p.now = q.now /\ p.counted = used /\ p.doomed = q.doomed \cup old
        /\ p.touched = q.touched /\ p.found = q.found /\ p.op = "login_commit"
    BY <1>2, <1>10 DEF Login
  <2>4. p.found \notin p.doomed
    <3>1. q.found = None BY <1>1, <1>2 DEF FindDemoSession, LoginOK
    <3>. QED BY <1>2, <1>8, <2>3, <3>1, IdentityConstants DEF Login, Workspaces
  <2>5. \A b \in Browsers :
          demo[b] # None /\ demo[b].workspace \in p.doomed =>
            demo[b].expires <= p.now \/ b \in p.touched
    <3>1. ASSUME NEW b \in Browsers, demo[b] # None, demo[b].workspace \in old
          PROVE  demo[b].expires <= q.now
      <4>1. row # None /\ demo[b].workspace = row.workspace BY <1>4, <3>1
      <4>2. b = q.browser BY <1>7, <3>1, <4>1 DEF IdentityInv, CopyInv
      <4>3. q.now \in Nat BY <1>2 DEF Login
      <4>. QED BY <1>7, <1>10, <4>1, <4>2, <4>3
    <3>. QED BY <1>2, <2>3, <3>1 DEF LoginOK
  <2>6. LoginOK(p) BY <1>2, <1>10, <2>3, <2>4, <2>5 DEF LoginOK, WithinIpLimit
  <2>. QED BY <1>6, <2>2, <2>6, RequestKinds, RequestPreserves DEF FindDemoSession
<1>11. CASE p = Idle BY <1>6, <1>11, RequestKinds, RequestPreserves DEF FindDemoSession
<1>. QED BY <1>6, <1>9, <1>10, <1>11

\* A refresh finds an active session and the workspace it will name.
LEMMA FindRefreshedSessionPreserves ==
  ASSUME IdentityInv, NEW r \in Requests, FindRefreshedSession(r)
  PROVE  IdentityInv'
<1>0. PICK s \in Sessions : \E t \in Presented(s) :
        /\ Active(s) /\ t = session[s].token /\ session[s].token < MaxTokens
        /\ RefreshWorkspace(s) # None
        /\ request' = [request EXCEPT
             ![r] = [op |-> "refresh", session |-> s, token |-> t,
                     workspace |-> RefreshWorkspace(s)]]
  BY DEF FindRefreshedSession
<1>1. PICK t \in Presented(s) :
        /\ Active(s) /\ t = session[s].token /\ session[s].token < MaxTokens
        /\ RefreshWorkspace(s) # None
        /\ request' = [request EXCEPT
             ![r] = [op |-> "refresh", session |-> s, token |-> t,
                     workspace |-> RefreshWorkspace(s)]]
  BY <1>0
<1>2. session[s] # None /\ session[s] \in SessionRow
  BY <1>1 DEF Active, IdentityInv, TypeOK
<1>3. t \in 1..(MaxTokens - 1)
  BY <1>1, <1>2, IdentityConstants DEF IdentityInv, TokenInv
<1>4. PICK w : w = RefreshWorkspace(s) OBVIOUS
<1>5. w \in Workspaces /\ Fits(s, w)
  <2>1. workspaces \subseteq Workspaces BY DEF IdentityInv, TypeOK
  <2>2. CASE session[s].workspace = None
    <3>1. session[s].home \notin workspaces /\ session[s].user = DemoUser
      BY <1>2, <2>1, <2>2, IdentityConstants DEF IdentityInv, SessionInv
    <3>2. w = PrimaryWorkspace(DemoUser) BY <1>4, <2>2, <3>1 DEF RefreshWorkspace
    <3>3. w = Seed /\ Seed \in workspaces
      BY <1>1, <1>4, <2>1, <3>2, IdentityConstants DEF PrimaryWorkspace
    <3>. QED BY <1>2, <2>1, <3>1, <3>3 DEF Fits
  <2>3. CASE session[s].workspace # None
    <3>1. w = session[s].workspace BY <1>1, <1>4, <2>3 DEF RefreshWorkspace
    <3>2. session[s].workspace = session[s].home
      BY <1>2, <2>3 DEF IdentityInv, SessionInv
    <3>. QED BY <1>2, <2>3, <3>1, <3>2 DEF Fits, SessionRow
  <2>. QED BY <2>2, <2>3
<1>6. PICK q : q = [op |-> "refresh", session |-> s, token |-> t, workspace |-> w] OBVIOUS
<1>7. q \in Refresh BY <1>3, <1>5, <1>6, IdentityConstants DEF Refresh
<1>8. q.session = s /\ q.token = t /\ q.workspace = w BY <1>6
<1>9. RefreshOK(q) BY <1>3, <1>5, <1>8 DEF RefreshOK
<1>. QED
  BY <1>1, <1>4, <1>6, <1>7, <1>9, RequestKinds, RequestPreserves DEF FindRefreshedSession

LEMMA EndsPreserve ==
  ASSUME IdentityInv, NEW r \in Requests,
         DemoLoginThrows(r) \/ RefreshRejected(r) \/ TransactionFails(r)
  PROVE  IdentityInv'
<1>1. /\ request' = [request EXCEPT ![r] = Idle]
      /\ UNCHANGED <<now, users, workspaces, demo, session, copies, redeemed, access, loggedOut>>
  BY DEF DemoLoginThrows, RefreshRejected, TransactionFails, Done
<1>. QED BY <1>1, RequestKinds, RequestPreserves

---------------------------------------------------------------------------

\* No session goes or changes the workspace it was opened for; of those, what is gone stays gone.
Steady ==
  /\ \A s \in Sessions :
       session[s] # None =>
         /\ session'[s] # None /\ session'[s].home = session[s].home
         /\ session[s].home \notin workspaces => session[s].home \notin workspaces'
  /\ Seed \in workspaces => Seed \in workspaces'

LEMMA SteadyFits ==
  ASSUME Steady, NEW s \in Sessions, NEW w, Fits(s, w) PROVE Fits(s, w)'
BY DEF Steady, Fits

\* What a request has found stays right while others commit, but for the demo's rows.
LEMMA SteadyRequests ==
  ASSUME IdentityInv, Steady, UNCHANGED demo, now' \in Nat, now <= now',
         \A r \in Requests : request'[r] \in {Idle, request[r]}
  PROVE  RequestInv'
<1>. SUFFICES ASSUME NEW r \in Requests
              PROVE  /\ (request[r] \in Refresh => RefreshOK(request[r]))'
                     /\ (request[r] \in Login => LoginOK(request[r]))'
  BY DEF RequestInv
<1>1. PICK q : q = request'[r] OBVIOUS
<1>2. CASE q = Idle BY <1>1, <1>2, RequestKinds DEF Login, Refresh
<1>3. CASE q = request[r]
  <2>1. ASSUME q \in Refresh PROVE RefreshOK(q)'
    <3>1. RefreshOK(q) /\ q.session \in Sessions
      BY <1>3, <2>1 DEF IdentityInv, RequestInv, Refresh
    <3>. QED BY <3>1, SteadyFits DEF RefreshOK
  <2>2. ASSUME q \in Login PROVE LoginOK(q)'
    <3>1. LoginOK(q) /\ q.now \in Nat /\ now \in Nat
      BY <1>3, <2>2 DEF IdentityInv, RequestInv, Login, TypeOK
    <3>. QED BY <3>1 DEF LoginOK
  <2>. QED BY <1>1, <2>1, <2>2 DEF RefreshOK, LoginOK, Fits, Login, Refresh
<1>. QED BY <1>1, <1>2, <1>3

LEMMA SteadyAccess ==
  ASSUME IdentityInv, Steady, \A a \in access' : a \in access \/ Fits(a.session, a.workspace)'
  PROVE  AccessInv'
<1>1. \A a \in access : a.session \in Sessions /\ Fits(a.session, a.workspace)
  BY DEF IdentityInv, TypeOK, AccessInv, AccessToken
<1>. QED BY <1>1, SteadyFits DEF AccessInv

\* The workspaces of members and of the seed are there from some time on.
LEMMA WorkspaceMade ==
  ASSUME IdentityInv, SeedDemoWorkspace \/ \E u \in Members : RegisterUser(u)
  PROVE  IdentityInv'
<1>1. PICK w \in Members \cup {Seed}, u \in Users :
        /\ workspaces' = workspaces \cup {w} /\ users' = users \cup {u}
        /\ UNCHANGED <<now, demo, session, request, copies, redeemed, access, loggedOut>>
  BY DEF RegisterUser, SeedDemoWorkspace, Users
<1>2. TypeOK' BY <1>1 DEF IdentityInv, TypeOK, Workspaces
<1>3. TokenInv' /\ CopyInv' BY <1>1 DEF IdentityInv, TokenInv, CopyInv
<1>4. \A s \in Sessions :
        session[s] # None /\ session[s].home \notin workspaces => session[s].home # w
  BY IdentityConstants DEF IdentityInv, SessionInv
<1>5. SessionInv' BY <1>1, <1>4 DEF IdentityInv, SessionInv
<1>6. Steady BY <1>1, <1>4 DEF Steady
<1>7. now \in Nat BY DEF IdentityInv, TypeOK
<1>8. RequestInv' BY <1>1, <1>6, <1>7, SteadyRequests
<1>9. AccessInv' BY <1>1, <1>6, SteadyAccess
<1>10. BoundInv' BY <1>1 DEF IdentityInv, BoundInv, Recent
<1>. QED BY <1>2, <1>3, <1>5, <1>8, <1>9, <1>10 DEF IdentityInv

LEMMA NewSessionRow ==
  ASSUME IdentityInv, NEW u \in Users, NEW w \in Workspaces, NEW row, row = NewSession(u, w)
  PROVE  /\ row \in SessionRow /\ row # None
         /\ row.user = u /\ row.home = w /\ row.workspace = w /\ row.token = 1
<1>1. PICK end : end = now + RefreshTtl OBVIOUS
<1>2. end \in Nat BY <1>1, IdentityConstants DEF IdentityInv, TypeOK
<1>3. row = [user |-> u, workspace |-> w, token |-> 1, revoked |-> FALSE, expires |-> end,
             home |-> w]
  BY <1>1 DEF NewSession
<1>4. row \in SessionRow BY <1>2, <1>3 DEF SessionRow
<1>5. row.user = u /\ row.home = w /\ row.workspace = w /\ row.token = 1 BY <1>3
<1>6. row # None BY <1>4, IdentityConstants
<1>. QED BY <1>4, <1>5, <1>6

\* A member's login opens a session for the member's own workspace.
LEMMA LoginUserPreserves ==
  ASSUME IdentityInv, NEW s \in Sessions, NEW u \in Members, LoginUser(s, u)
  PROVE  IdentityInv'
<1>1. /\ u \in users /\ session[s] = None /\ PrimaryWorkspace(u) # None
      /\ session' = [session EXCEPT ![s] = NewSession(u, PrimaryWorkspace(u))]
      /\ access' = access \cup
           {[session |-> s, workspace |-> PrimaryWorkspace(u), expires |-> now + AccessTtl]}
      /\ UNCHANGED <<now, users, workspaces, demo, request, copies, redeemed, loggedOut>>
  BY DEF LoginUser, IsNext, Issue
<1>2. u # DemoUser /\ u \in Workspaces /\ u \in Users
  BY IdentityConstants DEF Workspaces, Users
<1>3. PrimaryWorkspace(u) = u /\ u \in workspaces
  BY <1>1, <1>2 DEF PrimaryWorkspace
<1>4. PICK row : row = NewSession(u, u) OBVIOUS
<1>5. now \in Nat /\ now + RefreshTtl \in Nat /\ now + AccessTtl \in Nat
  BY IdentityConstants DEF IdentityInv, TypeOK
<1>6. /\ row \in SessionRow /\ row.user = u /\ row.home = u /\ row.workspace = u /\ row.token = 1
      /\ row # None
  BY <1>2, <1>4, NewSessionRow
<1>7. /\ session' \in [Sessions -> SessionRow \cup {None}]
      /\ \A p \in Sessions : session'[p] = IF p = s THEN row ELSE session[p]
  BY <1>1, <1>3, <1>4, <1>6 DEF IdentityInv, TypeOK
<1>8. PICK a : a = [session |-> s, workspace |-> u, expires |-> now + AccessTtl] OBVIOUS
<1>9. a \in AccessToken /\ a.session = s /\ a.workspace = u /\ access' = access \cup {a}
  BY <1>1, <1>2, <1>3, <1>5, <1>8 DEF AccessToken
<1>10. TypeOK' BY <1>1, <1>3, <1>6, <1>7, <1>9 DEF IdentityInv, TypeOK
<1>11. TokenInv' BY <1>1, <1>6, <1>7, IdentityConstants DEF IdentityInv, TokenInv
<1>12. CopyInv' /\ BoundInv' BY <1>1 DEF IdentityInv, CopyInv, BoundInv, Recent
<1>13. SessionInv' BY <1>1, <1>2, <1>3, <1>6, <1>7 DEF IdentityInv, SessionInv
<1>14. Steady BY <1>1, <1>7 DEF Steady
<1>15. RequestInv' BY <1>1, <1>5, <1>14, SteadyRequests
<1>16. Fits(a.session, a.workspace)' BY <1>6, <1>7, <1>9 DEF Fits
<1>17. AccessInv' BY <1>9, <1>14, <1>16, SteadyAccess
<1>. QED BY <1>10, <1>11, <1>12, <1>13, <1>15, <1>17 DEF IdentityInv

\* The session gets its next token, and the access token names what the refresh found.
LEMMA RotatePreserves ==
  ASSUME IdentityInv, NEW r \in Requests, RotateRefreshToken(r)
  PROVE  IdentityInv'
<1>1. PICK q : q = request[r] OBVIOUS
<1>2. q \in Refresh /\ RefreshOK(q) BY <1>1, LoginTypes DEF RotateRefreshToken
<1>3. PICK s : s = q.session OBVIOUS
<1>4. PICK row : row = [session[s] EXCEPT !.token = @ + 1, !.expires = now + RefreshTtl] OBVIOUS
<1>5. /\ s \in Sessions /\ q.workspace \in Workspaces /\ q.token \in 1..(MaxTokens - 1)
      /\ Fits(s, q.workspace) /\ session[s] # None
  BY <1>2, <1>3 DEF Refresh, RefreshOK, Fits
<1>6. /\ session[s].token = q.token /\ ~session[s].revoked
      /\ session' = [session EXCEPT ![s] = row]
      /\ redeemed' = [redeemed EXCEPT ![<<s, q.token>>] = @ + 1]
      /\ access' = access \cup
           {[session |-> s, workspace |-> q.workspace, expires |-> now + AccessTtl]}
      /\ request' = [request EXCEPT ![r] = Idle]
      /\ UNCHANGED <<now, users, workspaces, demo, copies, loggedOut>>
  BY <1>1, <1>3, <1>4, <1>5
  DEF RotateRefreshToken, Rotatable, Active, Issue, Done, IdentityInv, TypeOK
<1>7. now \in Nat /\ now + RefreshTtl \in Nat /\ now + AccessTtl \in Nat
  BY IdentityConstants DEF IdentityInv, TypeOK
<1>8. session[s] \in SessionRow BY <1>5 DEF IdentityInv, TypeOK
<1>9. /\ row \in SessionRow /\ row.user = session[s].user /\ row.home = session[s].home
      /\ row.workspace = session[s].workspace /\ row.token = q.token + 1
  <2>1. PICK next \in Nat, end \in Nat : next = q.token + 1 /\ end = now + RefreshTtl
    BY <1>5, <1>7, IdentityConstants
  <2>2. row = [session[s] EXCEPT !.token = next, !.expires = end] BY <1>4, <1>6, <2>1
  <2>3. row \in SessionRow BY <1>8, <2>2 DEF SessionRow
  <2>4. /\ row.user = session[s].user /\ row.home = session[s].home
        /\ row.workspace = session[s].workspace /\ row.token = next
    BY <1>8, <2>2 DEF SessionRow
  <2>. QED BY <2>1, <2>3, <2>4
<1>10. row # None BY <1>9, IdentityConstants
<1>11. /\ session' \in [Sessions -> SessionRow \cup {None}]
       /\ \A p \in Sessions : session'[p] = IF p = s THEN row ELSE session[p]
  BY <1>5, <1>6, <1>9 DEF IdentityInv, TypeOK
<1>12. PICK a : a = [session |-> s, workspace |-> q.workspace, expires |-> now + AccessTtl]
  OBVIOUS
<1>13. a \in AccessToken /\ a.session = s /\ a.workspace = q.workspace
       /\ access' = access \cup {a}
  BY <1>5, <1>6, <1>7, <1>12 DEF AccessToken
<1>14. <<s, q.token>> \in Tokens BY <1>5, IdentityConstants DEF Tokens
<1>15. /\ redeemed' \in [Tokens -> Nat]
       /\ \A t \in Tokens :
            redeemed'[t] = IF t = <<s, q.token>> THEN redeemed[t] + 1 ELSE redeemed[t]
  BY <1>6, <1>14 DEF IdentityInv, TypeOK
<1>16. request' \in [Requests -> {Idle} \cup Login \cup Refresh] BY <1>6 DEF IdentityInv, TypeOK
<1>17. TypeOK'
  BY <1>5, <1>6, <1>9, <1>11, <1>13, <1>15, <1>16 DEF IdentityInv, TypeOK
<1>18. TokenInv'
  <2>1. ASSUME NEW p \in Sessions, session'[p] # None PROVE session'[p].token \in 1..MaxTokens
    BY <1>5, <1>9, <1>11, <2>1, IdentityConstants DEF IdentityInv, TokenInv
  <2>2. ASSUME NEW p \in Sessions, NEW t \in 1..MaxTokens, redeemed'[<<p, t>>] # 0
        PROVE  redeemed'[<<p, t>>] = 1 /\ session'[p] # None /\ session'[p].token > t
    <3>1. <<p, t>> \in Tokens BY DEF Tokens
    <3>2. redeemed[<<p, t>>] # 0 =>
            redeemed[<<p, t>>] = 1 /\ session[p] # None /\ session[p].token > t
      BY DEF IdentityInv, TokenInv
    <3>3. CASE p = s /\ t = q.token
      BY <1>5, <1>6, <1>9, <1>10, <1>11, <1>15, <3>1, <3>2, <3>3
    <3>4. CASE ~(p = s /\ t = q.token)
      <4>1. redeemed'[<<p, t>>] = redeemed[<<p, t>>] BY <1>15, <3>1, <3>4
      <4>. QED BY <1>5, <1>6, <1>9, <1>10, <1>11, <2>2, <3>2, <4>1
    <3>. QED BY <3>3, <3>4
  <2>3. ASSUME NEW p \in Sessions, NEW t \in 1..MaxTokens, <<p, t>> \in loggedOut'
        PROVE  session'[p] # None /\ (session'[p].revoked \/ session'[p].token > t)
    <3>1. session[p] # None /\ (session[p].revoked \/ session[p].token > t)
      BY <1>6, <2>3 DEF IdentityInv, TokenInv
    <3>. QED BY <1>5, <1>6, <1>9, <1>10, <1>11, <3>1
  <2>. QED BY <2>1, <2>2, <2>3 DEF TokenInv
<1>19. CopyInv' /\ BoundInv' BY <1>6 DEF IdentityInv, CopyInv, BoundInv, Recent
<1>20. SessionInv' BY <1>5, <1>6, <1>9, <1>11 DEF IdentityInv, SessionInv
<1>21. Steady BY <1>5, <1>6, <1>9, <1>10, <1>11 DEF Steady
<1>22. \A p \in Requests : request'[p] \in {Idle, request[p]} BY <1>6 DEF IdentityInv, TypeOK
<1>23. RequestInv' BY <1>6, <1>7, <1>21, <1>22, SteadyRequests
<1>24. AccessInv' BY <1>5, <1>13, <1>21, SteadyFits, SteadyAccess
<1>. QED BY <1>17, <1>18, <1>19, <1>20, <1>23, <1>24 DEF IdentityInv

\* The session whose current token is presented is revoked.
LEMMA LogoutPreserves ==
  ASSUME IdentityInv, NEW s \in Sessions, NEW t \in Presented(s), LogoutSession(s, t)
  PROVE  IdentityInv'
<1>1. /\ session[s] # None /\ session[s] \in SessionRow /\ t \in 1..session[s].token
  BY DEF Presented, IdentityInv, TypeOK
<1>2. t \in 1..MaxTokens /\ <<s, t>> \in Tokens
  BY <1>1, IdentityConstants DEF IdentityInv, TokenInv, Tokens
<1>3. PICK row : row = [session[s] EXCEPT !.revoked = TRUE] OBVIOUS
<1>4. /\ row \in SessionRow /\ row.user = session[s].user /\ row.home = session[s].home
      /\ row.workspace = session[s].workspace /\ row.token = session[s].token /\ row.revoked
  BY <1>1, <1>3 DEF SessionRow
<1>5. /\ session' = (IF session[s].token = t THEN [session EXCEPT ![s] = row] ELSE session)
      /\ loggedOut' = loggedOut \cup {<<s, t>>}
      /\ UNCHANGED <<now, users, workspaces, demo, request, copies, redeemed, access>>
  BY <1>1, <1>3 DEF LogoutSession, IdentityInv, TypeOK
<1>6. row # None BY <1>4, IdentityConstants
<1>7. /\ session' \in [Sessions -> SessionRow \cup {None}]
      /\ \A p \in Sessions :
           session'[p] = IF p = s /\ session[s].token = t THEN row ELSE session[p]
  BY <1>4, <1>5 DEF IdentityInv, TypeOK
<1>8. TypeOK' BY <1>1, <1>2, <1>4, <1>5, <1>7 DEF IdentityInv, TypeOK
<1>9. TokenInv'
  <2>1. ASSUME NEW p \in Sessions, NEW u \in 1..MaxTokens, <<p, u>> \in loggedOut'
        PROVE  session'[p] # None /\ (session'[p].revoked \/ session'[p].token > u)
    <3>1. CASE <<p, u>> \in loggedOut
      BY <1>4, <1>6, <1>7, <3>1 DEF IdentityInv, TokenInv
    <3>2. CASE p = s /\ u = t
      <4>1. CASE session[s].token = t BY <1>4, <1>6, <1>7, <3>2, <4>1
      <4>2. CASE session[s].token # t
        <5>1. session[s].token \in Nat BY <1>1 DEF SessionRow
        <5>. QED BY <1>1, <1>7, <3>2, <4>2, <5>1
      <4>. QED BY <4>1, <4>2
    <3>. QED BY <1>5, <2>1, <3>1, <3>2
  <2>2. /\ \A p \in Sessions : session'[p] # None => session'[p].token \in 1..MaxTokens
        /\ \A p \in Sessions, u \in 1..MaxTokens :
             redeemed'[<<p, u>>] # 0 =>
               redeemed'[<<p, u>>] = 1 /\ session'[p] # None /\ session'[p].token > u
    BY <1>1, <1>4, <1>5, <1>6, <1>7 DEF IdentityInv, TokenInv
  <2>. QED BY <2>1, <2>2 DEF TokenInv
<1>10. CopyInv' /\ BoundInv' BY <1>5 DEF IdentityInv, CopyInv, BoundInv, Recent
<1>11. SessionInv' BY <1>1, <1>4, <1>5, <1>7 DEF IdentityInv, SessionInv
<1>12. Steady BY <1>1, <1>4, <1>5, <1>6, <1>7 DEF Steady
<1>13. now \in Nat BY DEF IdentityInv, TypeOK
<1>14. RequestInv' BY <1>5, <1>12, <1>13, SteadyRequests
<1>15. AccessInv' BY <1>5, <1>12, SteadyAccess
<1>. QED BY <1>8, <1>9, <1>10, <1>11, <1>14, <1>15 DEF IdentityInv

LEMMA TickPreserves == ASSUME IdentityInv, Tick PROVE IdentityInv'
<1>1. /\ now < MaxTime /\ now' = now + 1 /\ access' \subseteq access
      /\ UNCHANGED <<users, workspaces, demo, session, request, copies, redeemed, loggedOut>>
  BY DEF Tick
<1>2. now \in 0..MaxTime /\ now' \in 0..MaxTime /\ now' \in Nat /\ now <= now'
  BY <1>1, IdentityConstants DEF IdentityInv, TypeOK
<1>3. TypeOK' BY <1>1, <1>2 DEF IdentityInv, TypeOK
<1>4. TokenInv' /\ CopyInv' /\ SessionInv'
  BY <1>1 DEF IdentityInv, TokenInv, CopyInv, SessionInv
<1>5. Steady BY <1>1 DEF Steady
<1>6. RequestInv' BY <1>1, <1>2, <1>5, SteadyRequests
<1>7. AccessInv' BY <1>1, <1>5, SteadyAccess
<1>8. BoundInv'
  <2>1. ASSUME NEW ip \in Ips PROVE Cardinality(Recent(ip)') <= MaxPerIp
    <3>1. Recent(ip)' \subseteq Recent(ip)
      <4>1. ASSUME NEW b \in Browsers, demo[b] # None, demo[b].created >= now' - RateWindow
            PROVE  demo[b].created >= now - RateWindow
        <5>1. demo[b].created \in Nat BY <4>1 DEF IdentityInv, TypeOK, DemoRow
        <5>. QED BY <1>1, <1>2, <4>1, <5>1, IdentityConstants
      <4>. QED BY <1>1, <4>1 DEF Recent
    <3>2. IsFiniteSet(Recent(ip)) BY FS_Subset, IdentityConstants DEF Recent
    <3>3. Cardinality(Recent(ip)') <= Cardinality(Recent(ip)) BY <3>1, <3>2, FS_Subset
    <3>4. Cardinality(Recent(ip)) \in Nat /\ Cardinality(Recent(ip)') \in Nat
      BY <3>1, <3>2, FS_Subset, FS_CardinalityType
    <3>. QED BY <3>3, <3>4, IdentityConstants DEF IdentityInv, BoundInv
  <2>. QED BY <2>1 DEF BoundInv
<1>. QED BY <1>3, <1>4, <1>6, <1>7, <1>8 DEF IdentityInv

---------------------------------------------------------------------------
(***************************************************************************)
(* A visitor's login commits: it opens or renews the copy w, with row as   *)
(* its demo session, and deletes what it has listed.                       *)
(***************************************************************************)
Commits(q, r, s, w, row) ==
  /\ q = request[r] /\ q.op = "login_commit" /\ session[s] = None
  /\ w \in CloneIds /\ w[1] = q.browser /\ w[2] <= copies'[q.browser]
  /\ w \in workspaces \ q.doomed \/ w[2] > copies[q.browser]
  /\ workspaces' = (workspaces \ q.doomed) \cup {w}
  /\ copies' \in [Browsers -> 0..MaxClones] /\ \A b \in Browsers : copies[b] <= copies'[b]
  /\ row \in DemoRow /\ row.workspace = w
  /\ demo' = [Cascade(q.doomed) EXCEPT ![q.browser] = row]
  /\ session' = [SetNull(q.doomed) EXCEPT ![s] = NewSession(DemoUser, w)]
  /\ Issue(s, w)
  /\ Opened(r, q.browser)
  /\ UNCHANGED <<now, users, redeemed, loggedOut>>

\* The row counts where the login had counted all there were, or it counted already.
CountsRightly(q, row) ==
  row.counted =>
    \/ /\ row.ip = q.ip
       /\ CountedFor(q.ip, q.now - RateWindow, q.doomed) \subseteq q.counted
    \/ /\ demo[q.browser] # None /\ demo[q.browser].counted
       /\ demo[q.browser].ip = row.ip /\ demo[q.browser].created = row.created

LEMMA CommitSessions ==
  ASSUME IdentityInv, NEW r \in Requests, NEW s \in Sessions, NEW q, NEW w, NEW row,
         Commits(q, r, s, w, row)
  PROVE  /\ q \in Login /\ LoginOK(q)
         /\ session' \in [Sessions -> SessionRow \cup {None}]
         /\ \A p \in Sessions \ {s} :
              /\ session[p] = None => session'[p] = None
              /\ session[p] # None =>
                   /\ session'[p] # None
                   /\ session'[p].user = session[p].user /\ session'[p].home = session[p].home
                   /\ session'[p].token = session[p].token
                   /\ session'[p].revoked = session[p].revoked
                   /\ session'[p].workspace =
                        IF session[p].workspace \in q.doomed THEN None ELSE session[p].workspace
         /\ session'[s] # None /\ session'[s].user = DemoUser /\ session'[s].home = w
         /\ session'[s].workspace = w /\ session'[s].token = 1
<1>1. q \in Login /\ LoginOK(q) BY LoginTypes DEF Commits
<1>2. DemoUser \in Users /\ w \in Workspaces BY DEF Commits, Users, Workspaces
<1>3. PICK new : new = NewSession(DemoUser, w) OBVIOUS
<1>4. /\ new \in SessionRow /\ new # None
      /\ new.user = DemoUser /\ new.home = w /\ new.workspace = w /\ new.token = 1
  BY <1>2, <1>3, NewSessionRow
<1>5. ASSUME NEW p \in Sessions, session[p] # None
      PROVE  LET gone == [session[p] EXCEPT !.workspace = None] IN
             /\ gone \in SessionRow /\ gone # None
             /\ gone.user = session[p].user /\ gone.home = session[p].home
             /\ gone.token = session[p].token /\ gone.revoked = session[p].revoked
             /\ gone.workspace = None
  <2>1. session[p] \in SessionRow BY <1>5 DEF IdentityInv, TypeOK
  <2>2. PICK gone : gone = [session[p] EXCEPT !.workspace = None] OBVIOUS
  <2>3. gone \in SessionRow BY <2>1, <2>2 DEF SessionRow
  <2>4. gone # None BY <2>3, IdentityConstants
  <2>5. /\ gone.user = session[p].user /\ gone.home = session[p].home
        /\ gone.token = session[p].token /\ gone.revoked = session[p].revoked
        /\ gone.workspace = None
    BY <2>1, <2>2 DEF SessionRow
  <2>. QED BY <2>2, <2>3, <2>4, <2>5
<1>6. PICK nulled : nulled = SetNull(q.doomed) OBVIOUS
<1>7. /\ nulled \in [Sessions -> SessionRow \cup {None}]
      /\ \A p \in Sessions :
           nulled[p] = IF session[p] # None /\ session[p].workspace \in q.doomed
                       THEN [session[p] EXCEPT !.workspace = None] ELSE session[p]
  BY <1>5, <1>6 DEF SetNull, IdentityInv, TypeOK
<1>8. session' = [nulled EXCEPT ![s] = new] BY <1>3, <1>6 DEF Commits
<1>9. /\ session' \in [Sessions -> SessionRow \cup {None}]
      /\ \A p \in Sessions : session'[p] = IF p = s THEN new ELSE nulled[p]
  BY <1>4, <1>7, <1>8
<1>10. session'[s] = new BY <1>9
<1>11. ASSUME NEW p \in Sessions \ {s}
       PROVE  /\ session[p] = None => session'[p] = None
              /\ session[p] # None =>
                   /\ session'[p] # None
                   /\ session'[p].user = session[p].user /\ session'[p].home = session[p].home
                   /\ session'[p].token = session[p].token
                   /\ session'[p].revoked = session[p].revoked
                   /\ session'[p].workspace =
                        IF session[p].workspace \in q.doomed THEN None ELSE session[p].workspace
  <2>1. session'[p] = nulled[p] BY <1>9
  <2>2. CASE session[p] # None /\ session[p].workspace \in q.doomed
    <3>1. nulled[p] = [session[p] EXCEPT !.workspace = None] BY <1>7, <2>2
    <3>. QED BY <1>5, <2>1, <2>2, <3>1
  <2>3. CASE ~(session[p] # None /\ session[p].workspace \in q.doomed)
    <3>1. nulled[p] = session[p] BY <1>7, <2>3
    <3>. QED BY <2>1, <2>3, <3>1
  <2>. QED BY <2>2, <2>3
<1>. QED BY <1>1, <1>4, <1>9, <1>10, <1>11

LEMMA CommitDemo ==
  ASSUME IdentityInv, NEW r \in Requests, NEW s \in Sessions, NEW q \in Login, NEW w, NEW row,
         Commits(q, r, s, w, row)
  PROVE  /\ demo' \in [Browsers -> DemoRow \cup {None}]
         /\ demo'[q.browser] = row /\ row # None
         /\ \A b \in Browsers \ {q.browser} :
              demo'[b] = IF demo[b] # None /\ demo[b].workspace \in q.doomed THEN None ELSE demo[b]
<1>1. row # None /\ q.browser \in Browsers BY IdentityConstants DEF Commits, Login
<1>2. /\ Cascade(q.doomed) \in [Browsers -> DemoRow \cup {None}]
      /\ \A b \in Browsers :
           Cascade(q.doomed)[b] =
             IF demo[b] # None /\ demo[b].workspace \in q.doomed THEN None ELSE demo[b]
  BY DEF Cascade, IdentityInv, TypeOK
<1>. QED BY <1>1, <1>2 DEF Commits

\* The workspaces that sessions were opened for and that are gone do not come back.
LEMMA CommitHomes ==
  ASSUME IdentityInv, NEW r \in Requests, NEW s \in Sessions, NEW q \in Login, NEW w, NEW row,
         Commits(q, r, s, w, row), NEW p \in Sessions, session[p] # None
  PROVE  /\ session[p].home \in workspaces' <=>
              session[p].home \in workspaces /\ session[p].home \notin q.doomed
         /\ session[p].home \in q.doomed => session[p].user = DemoUser
<1>1. /\ session[p].user = DemoUser =>
           session[p].home \in CloneIds /\ session[p].home[2] <= copies[session[p].home[1]]
      /\ session[p].user # DemoUser => session[p].home \in Members
  BY DEF IdentityInv, SessionInv, TypeOK, SessionRow, Users
<1>2. session[p].home \in q.doomed => session[p].user = DemoUser
  BY <1>1, IdentityConstants DEF Login
<1>3. session[p].home = w => w \in workspaces \ q.doomed
  <2>1. ASSUME session[p].home = w, w[2] > copies[q.browser] PROVE FALSE
    <3>1. w \in CloneIds /\ w[1] = q.browser /\ q.browser \in Browsers BY DEF Commits, Login
    <3>2. session[p].user = DemoUser BY <1>1, <2>1, <3>1, IdentityConstants
    <3>3. w[2] <= copies[q.browser] BY <1>1, <2>1, <3>1, <3>2
    <3>4. w[2] \in Nat /\ copies[q.browser] \in Nat
      BY <3>1 DEF CloneIds, IdentityInv, TypeOK
    <3>. QED BY <2>1, <3>3, <3>4
  <2>. QED BY <2>1 DEF Commits
<1>. QED BY <1>2, <1>3 DEF Commits

LEMMA CommitRequests ==
  ASSUME IdentityInv, NEW r \in Requests, NEW s \in Sessions, NEW q \in Login, NEW w, NEW row,
         Commits(q, r, s, w, row), Steady
  PROVE  request' \in [Requests -> {Idle} \cup Login \cup Refresh] /\ RequestInv'
<1>. DEFINE touched(l) == [l EXCEPT !.touched = @ \cup {q.browser}]
<1>1. q.browser \in Browsers BY DEF Login
<1>2. \A l \in Login :
        /\ touched(l) \in Login
        /\ touched(l).now = l.now /\ touched(l).counted = l.counted /\ touched(l).op = l.op
        /\ touched(l).found = l.found /\ touched(l).doomed = l.doomed
        /\ touched(l).touched = l.touched \cup {q.browser}
  BY <1>1 DEF Login
<1>3. \A p \in Requests :
        request'[p] = IF p = r THEN Idle
                      ELSE IF request[p].op \in {"login", "login_commit"}
                        THEN touched(request[p]) ELSE request[p]
  BY DEF Commits, Opened
<1>. HIDE DEF touched
<1>4. ASSUME NEW p \in Requests
      PROVE  /\ request'[p] \in {Idle} \cup Login \cup Refresh
             /\ request'[p] \in Refresh => request'[p] = request[p]
             /\ request'[p] \in Login => request[p] \in Login /\ request'[p] = touched(request[p])
  <2>1. request[p] \in {Idle} \cup Login \cup Refresh BY DEF IdentityInv, TypeOK
  <2>2. request[p] \in Login <=> request[p].op \in {"login", "login_commit"}
    BY <2>1, RequestKinds DEF Idle
  <2>3. CASE p = r BY <1>3, <2>3, RequestKinds
  <2>4. CASE p # r /\ request[p] \in Login BY <1>2, <1>3, <2>2, <2>4, RequestKinds
  <2>5. CASE p # r /\ request[p] \notin Login BY <1>3, <2>1, <2>2, <2>5
  <2>. QED BY <2>3, <2>4, <2>5
<1>5. request' \in [Requests -> {Idle} \cup Login \cup Refresh]
  BY <1>4 DEF Commits, Opened
<1>6. ASSUME NEW l \in Refresh, RefreshOK(l) PROVE RefreshOK(l)'
  BY <1>6, SteadyFits DEF RefreshOK, Refresh
<1>7. ASSUME NEW l \in Login, LoginOK(l) PROVE LoginOK(touched(l))'
  <2>1. PICK n \in Login : n = touched(l) BY <1>2
  <2>2. \A b \in Browsers :
          demo'[b] # None /\ demo'[b].workspace \in n.doomed =>
            demo'[b].expires <= n.now \/ b \in n.touched
    BY <1>2, <1>7, <2>1, CommitDemo DEF LoginOK
  <2>3. now' = now BY DEF Commits
  <2>4. LoginOK(n)' BY <1>2, <1>7, <2>1, <2>2, <2>3 DEF LoginOK
  <2>. QED BY <2>1, <2>4 DEF LoginOK, touched
<1>8. ASSUME NEW p \in Requests
      PROVE  /\ (request[p] \in Refresh => RefreshOK(request[p]))'
             /\ (request[p] \in Login => LoginOK(request[p]))'
  <2>1. PICK new, old : new = request'[p] /\ old = request[p] OBVIOUS
  <2>2. (old \in Refresh => RefreshOK(old)) /\ (old \in Login => LoginOK(old))
    BY <2>1 DEF IdentityInv, RequestInv
  <2>3. new \in Refresh => RefreshOK(new)' BY <1>4, <1>6, <2>1, <2>2
  <2>4. new \in Login => LoginOK(new)' BY <1>4, <1>7, <2>1, <2>2
  <2>. QED BY <2>1, <2>3, <2>4 DEF RefreshOK, LoginOK, Fits, Login, Refresh
<1>. QED BY <1>5, <1>8 DEF RequestInv

LEMMA CommitBound ==
  ASSUME IdentityInv, NEW r \in Requests, NEW s \in Sessions, NEW q \in Login, NEW w, NEW row,
         Commits(q, r, s, w, row), CountsRightly(q, row), LoginOK(q)
  PROVE  BoundInv'
<1>. SUFFICES ASSUME NEW ip \in Ips PROVE Cardinality(Recent(ip)') <= MaxPerIp
  BY DEF BoundInv
<1>1. /\ demo'[q.browser] = row /\ row # None
      /\ \A b \in Browsers \ {q.browser} :
           demo'[b] = IF demo[b] # None /\ demo[b].workspace \in q.doomed THEN None ELSE demo[b]
  BY CommitDemo
<1>2. now' = now /\ now \in Nat /\ q.now \in Nat /\ q.now <= now /\ q.browser \in Browsers
  BY DEF Commits, IdentityInv, TypeOK, Login, LoginOK
<1>3. PICK now1, old : now1 = Recent(ip)' /\ old = Recent(ip) OBVIOUS
<1>4. /\ now1 = {b \in Browsers : /\ demo'[b] # None /\ demo'[b].ip = ip /\ demo'[b].counted
                                  /\ demo'[b].created >= now - RateWindow}
      /\ old = {b \in Browsers : /\ demo[b] # None /\ demo[b].ip = ip /\ demo[b].counted
                                 /\ demo[b].created >= now - RateWindow}
  BY <1>2, <1>3 DEF Recent
<1>5. /\ IsFiniteSet(old) /\ IsFiniteSet(now1)
      /\ Cardinality(old) \in Nat /\ Cardinality(now1) \in Nat
  BY <1>4, FS_Subset, FS_CardinalityType, IdentityConstants
<1>6. CASE now1 \subseteq old
  <2>1. Cardinality(now1) <= Cardinality(old) BY <1>5, <1>6, FS_Subset
  <2>2. Cardinality(old) <= MaxPerIp BY <1>3 DEF IdentityInv, BoundInv
  <2>. QED BY <1>3, <1>5, <2>1, <2>2, IdentityConstants
<1>7. CASE ~(now1 \subseteq old)
  <2>1. PICK b \in now1 : b \notin old BY <1>7
  <2>2. b = q.browser BY <1>1, <1>4, <2>1
  <2>3. row.counted /\ row.ip = ip BY <1>1, <1>4, <2>1, <2>2
  <2>4. ~(/\ demo[q.browser] # None /\ demo[q.browser].counted
          /\ demo[q.browser].ip = row.ip /\ demo[q.browser].created = row.created)
    BY <1>1, <1>4, <2>1, <2>2
  <2>5. row.ip = q.ip /\ CountedFor(q.ip, q.now - RateWindow, q.doomed) \subseteq q.counted
    BY <2>3, <2>4 DEF CountsRightly
  <2>6. now1 \subseteq q.counted \cup {q.browser}
    <3>1. ASSUME NEW c \in now1, c # q.browser
          PROVE  c \in CountedFor(q.ip, q.now - RateWindow, q.doomed)
      <4>1. /\ c \in Browsers /\ demo[c] # None /\ demo[c].workspace \notin q.doomed
            /\ demo[c].ip = q.ip /\ demo[c].created >= now - RateWindow
        BY <1>1, <1>4, <2>3, <2>5, <3>1
      <4>2. demo[c].created \in Nat BY <4>1 DEF IdentityInv, TypeOK, DemoRow
      <4>3. demo[c].created >= q.now - RateWindow BY <1>2, <4>1, <4>2, IdentityConstants
      <4>. QED BY <4>1, <4>3 DEF CountedFor
    <3>. QED BY <2>5, <3>1
  <2>7. /\ IsFiniteSet(q.counted) /\ Cardinality(q.counted) \in Nat
        /\ Cardinality(q.counted) < MaxPerIp
    BY FS_Subset, FS_CardinalityType, IdentityConstants DEF Login, LoginOK
  <2>8. /\ IsFiniteSet(q.counted \cup {q.browser})
        /\ Cardinality(q.counted \cup {q.browser}) \in Nat
        /\ Cardinality(q.counted \cup {q.browser}) <= Cardinality(q.counted) + 1
    <3>1. ASSUME NEW S, IsFiniteSet(S), NEW x
          PROVE  /\ IsFiniteSet(S \cup {x}) /\ Cardinality(S \cup {x}) \in Nat
                 /\ Cardinality(S \cup {x}) <= Cardinality(S) + 1
      <4>1. /\ IsFiniteSet(S \cup {x}) /\ Cardinality(S) \in Nat
            /\ \/ x \in S /\ Cardinality(S \cup {x}) = Cardinality(S)
               \/ x \notin S /\ Cardinality(S \cup {x}) = Cardinality(S) + 1
        BY <3>1, FS_AddElement, FS_CardinalityType
      <4>. QED BY <4>1
    <3>. QED BY <2>7, <3>1
  <2>9. Cardinality(now1) <= Cardinality(q.counted \cup {q.browser}) BY <2>6, <2>8, FS_Subset
  <2>. QED BY <1>3, <1>5, <2>7, <2>8, <2>9, IdentityConstants
<1>. QED BY <1>6, <1>7

LEMMA CommitPreserves ==
  ASSUME IdentityInv, NEW r \in Requests, NEW s \in Sessions, NEW q, NEW w, NEW row,
         Commits(q, r, s, w, row), CountsRightly(q, row)
  PROVE  IdentityInv'
<1>1. q \in Login /\ LoginOK(q) BY CommitSessions
<1>2. /\ q.browser \in Browsers /\ q.doomed \subseteq CloneIds /\ w \in CloneIds
      /\ w \in Workspaces /\ None \notin q.doomed
  BY <1>1, IdentityConstants DEF Commits, Login, Workspaces
<1>3. /\ demo' \in [Browsers -> DemoRow \cup {None}]
      /\ demo'[q.browser] = row /\ row # None
      /\ \A b \in Browsers \ {q.browser} :
           demo'[b] = IF demo[b] # None /\ demo[b].workspace \in q.doomed THEN None ELSE demo[b]
  BY <1>1, CommitDemo
<1>4. ASSUME NEW p \in Sessions, session[p] # None
      PROVE  /\ p # s /\ session'[p] # None
             /\ session'[p].user = session[p].user /\ session'[p].home = session[p].home
             /\ session'[p].token = session[p].token
             /\ session'[p].revoked = session[p].revoked
             /\ session'[p].workspace =
                  IF session[p].workspace \in q.doomed THEN None ELSE session[p].workspace
  <2>1. p \in Sessions \ {s} BY <1>4 DEF Commits
  <2>. QED BY <1>4, <2>1, CommitSessions
<1>5. ASSUME NEW p \in Sessions, session[p] = None, session'[p] # None PROVE p = s
  BY <1>5, CommitSessions
<1>6. /\ session'[s] # None /\ session'[s].user = DemoUser /\ session'[s].home = w
      /\ session'[s].workspace = w /\ session'[s].token = 1
  BY CommitSessions
<1>7. /\ w \in workspaces' /\ workspaces' = (workspaces \ q.doomed) \cup {w}
      /\ session[s] = None
      /\ UNCHANGED <<now, users, redeemed, loggedOut>>
  BY DEF Commits
<1>8. Steady
  <2>1. Seed \in workspaces => Seed \in workspaces' BY <1>2, <1>7, IdentityConstants
  <2>2. ASSUME NEW p \in Sessions, session[p] # None, session[p].home \notin workspaces
        PROVE  session[p].home \notin workspaces'
    BY <1>1, <2>2, CommitHomes
  <2>. QED BY <1>4, <2>1, <2>2 DEF Steady
<1>9. request' \in [Requests -> {Idle} \cup Login \cup Refresh] /\ RequestInv'
  BY <1>1, <1>8, CommitRequests
<1>10. PICK a : a = [session |-> s, workspace |-> w, expires |-> now + AccessTtl] OBVIOUS
<1>11. a \in AccessToken /\ a.session = s /\ a.workspace = w /\ access' = access \cup {a}
  <2>1. now + AccessTtl \in Nat BY IdentityConstants DEF IdentityInv, TypeOK
  <2>. QED BY <1>2, <1>10, <2>1 DEF Commits, Issue, AccessToken
<1>12. AccessInv'
  <2>1. Fits(a.session, a.workspace)' BY <1>6, <1>11 DEF Fits
  <2>. QED BY <1>8, <1>11, <2>1, SteadyAccess
<1>13. TypeOK'
  <2>1. workspaces' \subseteq Workspaces BY <1>2, <1>7 DEF IdentityInv, TypeOK
  <2>2. session' \in [Sessions -> SessionRow \cup {None}] BY CommitSessions
  <2>3. copies' \in [Browsers -> 0..MaxClones] BY DEF Commits
  <2>4. ASSUME NEW b \in Browsers, demo'[b] # None PROVE demo'[b].workspace \in workspaces'
    BY <1>3, <1>7, <2>4 DEF IdentityInv, TypeOK, Commits
  <2>5. ASSUME NEW p \in Sessions, session'[p] # None
        PROVE  session'[p].workspace \in workspaces' \cup {None}
    BY <1>4, <1>5, <1>6, <1>7, <2>5 DEF IdentityInv, TypeOK
  <2>6. access' \subseteq AccessToken BY <1>11 DEF IdentityInv, TypeOK
  <2>. QED
    BY <1>3, <1>7, <1>9, <2>1, <2>2, <2>3, <2>4, <2>5, <2>6 DEF IdentityInv, TypeOK
<1>14. TokenInv'
  BY <1>4, <1>5, <1>6, <1>7, IdentityConstants DEF IdentityInv, TokenInv
<1>15. \A b \in Browsers : /\ copies[b] \in Nat /\ copies'[b] \in Nat /\ copies[b] <= copies'[b]
                           /\ demo[b] # None => demo[b].workspace[2] \in Nat
  BY DEF Commits, IdentityInv, TypeOK, DemoRow, CloneIds
<1>16. CopyInv'
  <2>1. ASSUME NEW b \in Browsers, demo'[b] # None
        PROVE  demo'[b].workspace[1] = b /\ demo'[b].workspace[2] <= copies'[b]
    <3>1. CASE b = q.browser BY <1>3, <3>1 DEF Commits
    <3>2. CASE b # q.browser
      BY <1>3, <1>15, <2>1, <3>2 DEF IdentityInv, CopyInv
    <3>. QED BY <3>1, <3>2
  <2>. QED BY <2>1 DEF CopyInv
<1>17. SessionInv'
  <2>1. ASSUME NEW p \in Sessions, session[p] # None
        PROVE  /\ session'[p].user = DemoUser =>
                    session'[p].home \in CloneIds
                    /\ session'[p].home[2] <= copies'[session'[p].home[1]]
               /\ session'[p].user # DemoUser => session'[p].home = session'[p].user
               /\ session'[p].home \in workspaces' => session'[p].workspace = session'[p].home
               /\ session'[p].home \notin workspaces' =>
                    session'[p].user = DemoUser /\ session'[p].workspace = None
    <3>1. /\ session[p].home \in workspaces' <=>
               session[p].home \in workspaces /\ session[p].home \notin q.doomed
          /\ session[p].home \in q.doomed => session[p].user = DemoUser
      BY <1>1, <2>1, CommitHomes
    <3>2. /\ session[p].user = DemoUser =>
               session[p].home \in CloneIds /\ session[p].home[2] <= copies[session[p].home[1]]
          /\ session[p].user # DemoUser => session[p].home = session[p].user
          /\ session[p].home \in workspaces => session[p].workspace = session[p].home
          /\ session[p].home \notin workspaces =>
               session[p].user = DemoUser /\ session[p].workspace = None
      BY <2>1 DEF IdentityInv, SessionInv
    <3>3. session[p].user = DemoUser => session[p].home[2] <= copies'[session[p].home[1]]
      <4>1. ASSUME NEW h \in CloneIds, h[2] <= copies[h[1]] PROVE h[2] <= copies'[h[1]]
        <5>1. h[1] \in Browsers /\ h[2] \in Nat BY DEF CloneIds
        <5>. QED BY <1>15, <4>1, <5>1
      <4>. QED BY <3>2, <4>1
    <3>. QED BY <1>2, <1>4, <2>1, <3>1, <3>2, <3>3
  <2>2. w[2] <= copies'[w[1]] BY DEF Commits
  <2>. QED BY <1>2, <1>5, <1>6, <1>7, <2>1, <2>2 DEF SessionInv
<1>18. BoundInv' BY <1>1, CommitBound
<1>. QED BY <1>9, <1>12, <1>13, <1>14, <1>16, <1>17, <1>18 DEF IdentityInv

\* The copy the login found is renewed: it counts if it counted for the same address.
LEMMA RenewPreserves ==
  ASSUME IdentityInv, NEW r \in Requests, NEW s \in Sessions, RenewDemoSession(r, s)
  PROVE  IdentityInv'
<1>1. PICK q : q = request[r] OBVIOUS
<1>2. PICK b, w : b = q.browser /\ w = q.found OBVIOUS
<1>3. /\ q.op = "login_commit" /\ w # None /\ session[s] = None
      /\ demo[b] # None /\ demo[b].workspace = w
      /\ workspaces' = workspaces \ q.doomed
      /\ demo' = [Cascade(q.doomed) EXCEPT
           ![b] = [demo[b] EXCEPT !.ip = q.ip, !.expires = q.now + DemoTtl,
                                  !.counted = @ /\ demo[b].ip = q.ip]]
      /\ session' = [SetNull(q.doomed) EXCEPT ![s] = NewSession(DemoUser, w)]
      /\ Issue(s, w) /\ Opened(r, b)
      /\ UNCHANGED <<now, users, copies, redeemed, loggedOut>>
  BY <1>1, <1>2 DEF RenewDemoSession, IsNext
<1>4. q \in Login /\ LoginOK(q) BY <1>1, <1>3, LoginTypes
<1>5. /\ b \in Browsers /\ demo[b] \in DemoRow /\ w \in CloneIds /\ w \in workspaces
      /\ w[1] = b /\ w[2] <= copies[b] /\ w \notin q.doomed
  BY <1>2, <1>3, <1>4 DEF Login, LoginOK, IdentityInv, TypeOK, CopyInv, DemoRow
<1>6. PICK counts : counts = (demo[b].counted /\ demo[b].ip = q.ip) OBVIOUS
<1>7. counts \in BOOLEAN BY <1>6
<1>8. PICK end \in Nat : end = q.now + DemoTtl BY <1>4, IdentityConstants DEF Login
<1>9. PICK row : row = [demo[b] EXCEPT !.ip = q.ip, !.expires = end, !.counted = counts]
  OBVIOUS
<1>10. q.ip \in Ips BY <1>4 DEF Login
<1>11. row \in DemoRow BY <1>5, <1>7, <1>8, <1>9, <1>10 DEF DemoRow
<1>12. /\ row.workspace = w /\ row.ip = q.ip /\ row.counted = counts
       /\ row.created = demo[b].created
  BY <1>3, <1>5, <1>9 DEF DemoRow
<1>13. demo' = [Cascade(q.doomed) EXCEPT ![b] = row] BY <1>3, <1>6, <1>8, <1>9
<1>14. /\ copies' \in [Browsers -> 0..MaxClones] /\ \A c \in Browsers : copies[c] <= copies'[c]
  BY <1>3 DEF IdentityInv, TypeOK
<1>15. Commits(q, r, s, w, row)
  <2>1. workspaces' = (workspaces \ q.doomed) \cup {w} BY <1>3, <1>5
  <2>2. w[2] <= copies'[b] BY <1>3, <1>5
  <2>. QED BY <1>1, <1>2, <1>3, <1>5, <1>11, <1>12, <1>13, <1>14, <2>1, <2>2 DEF Commits
<1>16. CountsRightly(q, row) BY <1>2, <1>3, <1>6, <1>12 DEF CountsRightly
<1>. QED BY <1>15, <1>16, CommitPreserves

\* A new copy is opened: it counts if no login committed that this one had not counted.
LEMMA CreatePreserves ==
  ASSUME IdentityInv, NEW r \in Requests, NEW s \in Sessions, CreateDemoSession(r, s)
  PROVE  IdentityInv'
<1>1. PICK q : q = request[r] OBVIOUS
<1>2. PICK b : b = q.browser OBVIOUS
<1>3. PICK w : w = <<b, copies[b] + 1>> OBVIOUS
<1>4. PICK counts :
        counts = (CountedFor(q.ip, q.now - RateWindow, q.doomed) \subseteq q.counted)
  OBVIOUS
<1>5. q \in Login /\ LoginOK(q) BY <1>1, LoginTypes DEF CreateDemoSession
<1>6. PICK end \in Nat : end = q.now + DemoTtl BY <1>5, IdentityConstants DEF Login
<1>7. PICK row : row = [workspace |-> w, ip |-> q.ip, expires |-> end, created |-> now,
                        counted |-> counts]
  OBVIOUS
<1>8. /\ q.op = "login_commit" /\ session[s] = None /\ copies[b] < MaxClones
      /\ copies' = [copies EXCEPT ![b] = @ + 1]
      /\ workspaces' = (workspaces \ q.doomed) \cup {w}
      /\ demo' = [Cascade(q.doomed) EXCEPT ![b] = row]
      /\ session' = [SetNull(q.doomed) EXCEPT ![s] = NewSession(DemoUser, w)]
      /\ Issue(s, w) /\ Opened(r, b)
      /\ UNCHANGED <<now, users, redeemed, loggedOut>>
  BY <1>1, <1>2, <1>3, <1>4, <1>6, <1>7 DEF CreateDemoSession, IsNext
<1>9. b \in Browsers /\ q.ip \in Ips BY <1>2, <1>5 DEF Login
<1>10. /\ \A c \in Browsers : copies[c] \in 0..MaxClones
       /\ copies[b] + 1 \in 1..MaxClones
  BY <1>8, <1>9, IdentityConstants DEF IdentityInv, TypeOK
<1>11. /\ w \in CloneIds /\ w[1] = b /\ w[2] = copies[b] + 1
  BY <1>3, <1>9, <1>10 DEF CloneIds
<1>12. /\ copies' \in [Browsers -> 0..MaxClones] /\ copies'[b] = copies[b] + 1
       /\ \A c \in Browsers : copies[c] <= copies'[c]
  <2>1. copies[b] + 1 \in 0..MaxClones BY <1>10, IdentityConstants
  <2>. QED BY <1>8, <1>9, <1>10, <2>1 DEF IdentityInv, TypeOK
<1>13. now \in Nat /\ counts \in BOOLEAN BY <1>4 DEF IdentityInv, TypeOK
<1>14. row \in DemoRow BY <1>6, <1>7, <1>9, <1>11, <1>13 DEF DemoRow
<1>15. row.workspace = w /\ row.ip = q.ip /\ row.counted = counts BY <1>7
<1>16. w[2] <= copies'[b] /\ w[2] > copies[b] BY <1>9, <1>10, <1>11, <1>12
<1>17. Commits(q, r, s, w, row)
  BY <1>1, <1>2, <1>8, <1>11, <1>12, <1>14, <1>15, <1>16 DEF Commits
<1>18. CountsRightly(q, row) BY <1>4, <1>15 DEF CountsRightly
<1>. QED BY <1>17, <1>18, CommitPreserves

---------------------------------------------------------------------------

LEMMA IdentityStep == IdentityInv /\ [Next]_vars => IdentityInv'
<1>. SUFFICES ASSUME IdentityInv, [Next]_vars PROVE IdentityInv' OBVIOUS
<1>1. CASE SeedDemoWorkspace \/ \E u \in Members : RegisterUser(u) BY <1>1, WorkspaceMade
<1>2. CASE \E s \in Sessions, u \in Members : LoginUser(s, u) BY <1>2, LoginUserPreserves
<1>3. ASSUME NEW r \in Requests, BeginDemoLogin(r) PROVE IdentityInv'
  BY <1>3, BeginDemoLoginPreserves
<1>4. ASSUME NEW r \in Requests, FindDemoSession(r) PROVE IdentityInv'
  BY <1>4, FindDemoSessionPreserves
<1>5. ASSUME NEW r \in Requests, DemoLoginThrows(r) \/ RefreshRejected(r) \/ TransactionFails(r)
      PROVE  IdentityInv'
  BY <1>5, EndsPreserve
<1>6. ASSUME NEW r \in Requests, NEW s \in Sessions, RenewDemoSession(r, s) PROVE IdentityInv'
  BY <1>6, RenewPreserves
<1>7. ASSUME NEW r \in Requests, NEW s \in Sessions, CreateDemoSession(r, s) PROVE IdentityInv'
  BY <1>7, CreatePreserves
<1>8. ASSUME NEW r \in Requests, FindRefreshedSession(r) PROVE IdentityInv'
  BY <1>8, FindRefreshedSessionPreserves
<1>9. ASSUME NEW r \in Requests, RotateRefreshToken(r) PROVE IdentityInv'
  BY <1>9, RotatePreserves
<1>10. CASE \E s \in Sessions : \E t \in Presented(s) : LogoutSession(s, t)
  BY <1>10, LogoutPreserves
<1>11. CASE Tick BY <1>11, TickPreserves
<1>12. CASE UNCHANGED vars
  BY <1>12
  DEF vars, IdentityInv, TypeOK, TokenInv, CopyInv, SessionInv, AccessInv, Fits, RequestInv,
      RefreshOK, LoginOK, BoundInv, Recent
<1>. QED
  BY <1>1, <1>2, <1>3, <1>4, <1>5, <1>6, <1>7, <1>8, <1>9, <1>10, <1>11, <1>12 DEF Next

LEMMA IdentityInvariant == Spec => []IdentityInv
BY IdentityInit, IdentityStep, PTL DEF Spec

\* Every row, request and token keeps its type, and what a row refers to exists: the foreign
\* keys of demo_sessions and sessions hold through every cascade.
THEOREM IdentityTypes == Spec => []TypeOK
<1>1. IdentityInv => TypeOK BY DEF IdentityInv
<1>. QED BY <1>1, IdentityInvariant, PTL

\* Requests that present one refresh token: at most one is given the next token
\* (refresh-session, rotateRefreshToken).
THEOREM TokensAreRedeemedOnce == Spec => []RedeemedOnce
<1>1. IdentityInv => RedeemedOnce
  <2>. SUFFICES ASSUME IdentityInv, NEW t \in Tokens PROVE redeemed[t] <= 1
    BY DEF RedeemedOnce
  <2>1. PICK s \in Sessions, n \in 1..MaxTokens : t = <<s, n>> BY DEF Tokens
  <2>2. redeemed[t] = 0 \/ redeemed[t] = 1 BY <2>1 DEF IdentityInv, TokenInv
  <2>. QED BY <2>2
<1>. QED BY <1>1, IdentityInvariant, PTL

\* One address opens a bounded number of copies an hour that a login could have counted
\* (resolveSessionWorkspace).
THEOREM DemoLoginsStayBounded == Spec => []DemoLoginsBounded
<1>1. IdentityInv => DemoLoginsBounded
  BY DEF IdentityInv, BoundInv, Recent, DemoLoginsBounded
<1>. QED BY <1>1, IdentityInvariant, PTL

\* A request is admitted to the workspace its session was opened for as long as that exists, and
\* never to one that is somebody else's or was deleted (get-authenticated-user).
THEOREM CallsStayInTheirWorkspace == Spec => []CallsKeepTheirWorkspace
<1>1. IdentityInv => CallsKeepTheirWorkspace
  <2>. SUFFICES ASSUME IdentityInv, NEW a \in access, Admits(a), NEW home,
                       home = session[a.session].home
                PROVE  /\ home \in workspaces => a.workspace = home
                       /\ a.workspace \in Members \cup CloneIds
                            => a.workspace = home /\ home \in workspaces
    BY DEF CallsKeepTheirWorkspace
  <2>1. a.session \in Sessions /\ Fits(a.session, a.workspace)
    BY DEF IdentityInv, TypeOK, AccessInv, AccessToken
  <2>2. /\ session[a.session] # None
        /\ a.workspace \in MemberOf(session[a.session].user)
        /\ session[a.session].workspace \in {None, a.workspace}
    BY DEF Admits, Active
  <2>3. a.workspace \in workspaces BY <2>2 DEF MemberOf
  <2>4. ASSUME home \in workspaces PROVE a.workspace = home
    <3>1. session[a.session].workspace = home BY <2>1, <2>2, <2>4 DEF IdentityInv, SessionInv
    <3>. QED BY <2>1, <2>4, <3>1 DEF Fits
  <2>5. ASSUME home \notin workspaces PROVE a.workspace = Seed
    BY <2>1, <2>3, <2>5 DEF Fits
  <2>. QED BY <2>3, <2>4, <2>5, IdentityConstants
<1>. QED BY <1>1, IdentityInvariant, PTL

\* A refresh token that was presented to a logout is not exchanged afterwards, by a refresh
\* that had found the session active before neither (logout-session, rotateRefreshToken).
THEOREM LoggedOutTokensStayDead == Spec => LoggedOutTokenIsDead
<1>1. IdentityInv /\ [Next]_vars => [\A t \in loggedOut : redeemed'[t] = redeemed[t]]_vars
  <2>. SUFFICES ASSUME IdentityInv, Next, NEW t \in loggedOut
                PROVE  redeemed'[t] = redeemed[t]
    OBVIOUS
  <2>1. CASE redeemed' = redeemed BY <2>1
  <2>2. CASE redeemed' # redeemed
    <3>1. PICK r \in Requests : RotateRefreshToken(r)
      BY <2>2
      DEF Next, RegisterUser, SeedDemoWorkspace, LoginUser, BeginDemoLogin, FindDemoSession,
          DemoLoginThrows, RenewDemoSession, CreateDemoSession, FindRefreshedSession,
          RefreshRejected, TransactionFails, LogoutSession, Tick
    <3>2. PICK q : q = request[r] OBVIOUS
    <3>3. q \in Refresh /\ RefreshOK(q) BY <3>1, <3>2, LoginTypes DEF RotateRefreshToken
    <3>4. /\ redeemed' = [redeemed EXCEPT ![<<q.session, q.token>>] = @ + 1]
          /\ ~session[q.session].revoked /\ session[q.session].token = q.token
      BY <3>1, <3>2 DEF RotateRefreshToken, Rotatable, Active
    <3>5. PICK s \in Sessions, n \in 1..MaxTokens : t = <<s, n>>
      BY DEF IdentityInv, TypeOK, Tokens
    <3>6. session[s].revoked \/ session[s].token > n BY <3>5 DEF IdentityInv, TokenInv
    <3>7. t # <<q.session, q.token>> BY <3>3, <3>4, <3>5, <3>6 DEF RefreshOK
    <3>. QED BY <3>4, <3>7 DEF IdentityInv, TypeOK
  <2>. QED BY <2>1, <2>2
<1>. QED BY <1>1, IdentityInvariant, PTL DEF Spec, LoggedOutTokenIsDead

\* A visitor's copy is deleted when its time is over, or, as READ COMMITTED allows, when it was
\* renewed after the login that deletes it had listed it (cleanupExpiredSessions).
THEOREM CopiesAreDeletedInTime == Spec => DeletesOnlyExpiredCopies
<1>1. IdentityInv /\ [Next]_vars =>
        [\A b \in DOMAIN demo :
           /\ demo[b] # None
           /\ demo[b].workspace \notin workspaces'
           => \/ demo[b].expires <= now
              \/ \E r \in DOMAIN request : /\ request[r].op = "login_commit"
                                           /\ request'[r] = Idle
                                           /\ b \in request[r].touched]_vars
  <2>. SUFFICES ASSUME IdentityInv, Next, NEW b \in DOMAIN demo,
                       demo[b] # None, demo[b].workspace \notin workspaces'
                PROVE  \/ demo[b].expires <= now
                       \/ \E r \in DOMAIN request : /\ request[r].op = "login_commit"
                                                    /\ request'[r] = Idle
                                                    /\ b \in request[r].touched
    OBVIOUS
  <2>1. DOMAIN demo = Browsers /\ DOMAIN request = Requests BY DEF IdentityInv, TypeOK
  <2>2. demo[b].workspace \in workspaces /\ demo[b] \in DemoRow
    BY <2>1 DEF IdentityInv, TypeOK
  <2>3. PICK r \in Requests, s \in Sessions : RenewDemoSession(r, s) \/ CreateDemoSession(r, s)
    BY <2>2
    DEF Next, RegisterUser, SeedDemoWorkspace, LoginUser, BeginDemoLogin, FindDemoSession,
        DemoLoginThrows, FindRefreshedSession, RotateRefreshToken, RefreshRejected,
        TransactionFails, LogoutSession, Tick
  <2>4. PICK q : q = request[r] OBVIOUS
  <2>5. q.op = "login_commit" /\ workspaces \ q.doomed \subseteq workspaces'
    BY <2>3, <2>4 DEF RenewDemoSession, CreateDemoSession
  <2>6. request'[r] = Idle BY <2>3 DEF RenewDemoSession, CreateDemoSession, Opened
  <2>7. q \in Login /\ LoginOK(q) BY <2>4, <2>5, LoginTypes
  <2>8. demo[b].expires <= q.now \/ b \in q.touched
    BY <2>1, <2>2, <2>5, <2>7 DEF LoginOK
  <2>9. demo[b].expires \in Nat /\ q.now \in Nat /\ now \in Nat /\ q.now <= now
    BY <2>2, <2>7 DEF DemoRow, Login, LoginOK, IdentityInv, TypeOK
  <2>. QED BY <2>1, <2>4, <2>5, <2>6, <2>8, <2>9
<1>. QED BY <1>1, IdentityInvariant, PTL DEF Spec, DeletesOnlyExpiredCopies
=============================================================================
