------------------------------ MODULE Gateway ------------------------------
(***************************************************************************)
(* The HTTP front of the SaaS API (internal/server, internal/middleware,   *)
(* internal/auth, internal/tenant, internal/audit, internal/bootstrap and  *)
(* cmd/api): the chain of middlewares a request goes through, the tokens,  *)
(* the fixed-window rate limiter, the creation of tenants, the audit log   *)
(* with its bounded queue and its writer, and the order of the shutdown.   *)
(*                                                                         *)
(* A request is the list of what its route still has to do, one step for   *)
(* each access to shared state.  A tenant is known by its slug and has one *)
(* user.  What a handler does for its own service is the subject of the    *)
(* other modules: here it answers, fails, panics or never returns.         *)
(***************************************************************************)
EXTENDS Integers, Sequences, FiniteSets

CONSTANTS
    Requests,       \* requests, each made at most once
    Slugs,          \* slugs of tenants
    DefaultSlug,    \* defaultTenantSlug, the seeded tenant
    Limit,          \* requests per window of every policy; 0 is no limit
    Window,         \* length of a window
    AccessTTL,      \* life of an access token
    RefreshTTL,     \* life of a refresh token
    QueueSize,      \* capacity of the audit queue
    MaxTime,        \* bound: the clock
    None

ASSUME GatewayAssumption ==
    /\ DefaultSlug \in Slugs
    /\ Limit \in Nat /\ Window \in Nat
    /\ AccessTTL \in Nat /\ RefreshTTL \in Nat
    /\ QueueSize \in Nat \ {0}
    /\ MaxTime \in Nat
    /\ None \notin Requests \cup Slugs \cup {"seed", "owner", "admin", "operator", "viewer"}

VARIABLES
    now,        \* the clock
    phase,      \* where main and its shutdown goroutine are
    deadline,   \* the context of the shutdown has expired
    req,        \* request -> how far it is
    limits,     \* key -> entry of MemoryRateLimitStore
    queue,      \* the audit queue
    writer,     \* the goroutine that writes audit entries
    tenants,    \* slug -> row of tenants: who created it
    users,      \* slug -> row of users: the role
    issued,     \* tokens handed out
    \* What happened.
    written,    \* rows of audit_logs, oldest first
    reported,   \* audit entries the log reports as dropped or failed
    passed      \* requests the limiter let through, with the time

processVars == <<phase, deadline>>
auditVars   == <<queue, writer, written, reported>>
limitVars   == <<limits, passed>>
dataVars    == <<tenants, users, issued>>
vars == <<now, processVars, req, auditVars, limitVars, dataVars>>

Roles == {"owner", "admin", "operator", "viewer"}
readRoles  == Roles
opRoles    == Roles \ {"viewer"}
adminRoles == {"owner", "admin"}

(***************************************************************************)
(* The routes.  A route of the protected group has the roles it needs, the *)
(* policy of its limiter, and whether the audit middleware records it:     *)
(* reads and searches are not recorded.                                    *)
(***************************************************************************)
Protected(roles, policy, audited) ==
    [roles |-> roles, policy |-> policy, audited |-> audited,
     chain |-> <<"guard", "resolve", "roles">>
                  \o (IF policy = "none" THEN <<>> ELSE <<"limitTenant", "limitInstance">>)
                  \o <<"handle">> \o (IF audited THEN <<"audit">> ELSE <<>>)]
Public(chain) ==
    [roles |-> Roles, policy |-> "login", audited |-> FALSE, chain |-> chain]

LoginRoute   == Public(<<"limitIP", "login">>)
RefreshRoute == Public(<<"limitIP", "refresh">>)
TenantRoute  == Public(<<"platform", "checkSlug", "insertTenant", "insertUser">>)

Routes ==
    [login |-> LoginRoute, refresh |-> RefreshRoute, createTenant |-> TenantRoute,
     logout    |-> Protected(Roles, "none", TRUE),
     read      |-> Protected(readRoles, "none", FALSE),
     configure |-> Protected(adminRoles, "none", TRUE),
     operate   |-> Protected(opRoles, "none", TRUE),
     send      |-> Protected(opRoles, "message", TRUE),
     search    |-> Protected(readRoles, "search", FALSE),
     listJobs  |-> Protected(readRoles, "broadcast", FALSE),
     broadcast |-> Protected(opRoles, "broadcast", TRUE),
     dispatch  |-> Protected(opRoles, "webhook", TRUE)]

Policies == {"login", "message", "search", "broadcast", "webhook"}
Key(policy, scope, subject) == <<policy, scope, subject>>
Keys == {Key(p, s, t) : p \in Policies, s \in {"tenant", "instance", "ip"}, t \in Slugs}

Token(type, slug, role, expiry) ==
    [type |-> type, tenant |-> slug, role |-> role, expiry |-> expiry]
Tokens ==
    [type : {"access", "refresh"}, tenant : Slugs, role : Roles,
     expiry : 0 .. MaxTime + AccessTTL + RefreshTTL]

\* What a request presents: a token, the API key of a tenant, the token of
\* one of its instances, a slug with the right or a wrong password or
\* platform key, or nothing that is valid.
Presented(type, slug) == Token(type, slug, "viewer", 0)
Credentials ==
    issued \cup {Presented(k, s) : k \in {"apiKey", "instanceToken", "good", "bad"}, s \in Slugs}

\* None is neither a credential nor a window.
ASSUME NoneAssumption ==
    /\ None \notin [type : {"access", "refresh", "apiKey", "instanceToken", "good", "bad"},
                    tenant : Slugs, role : Roles, expiry : Nat]
    /\ None \notin [count : Nat, end : Nat]

NotMade == [route |-> "none", todo |-> <<>>, cred |-> None, role |-> None,
            began |-> 0, had |-> {}, status |-> "none", audited |-> FALSE]

Init ==
    /\ now = 0 /\ phase = "boot" /\ deadline = FALSE
    /\ req = [r \in Requests |-> NotMade]
    /\ limits = [k \in Keys |-> None]
    /\ queue = <<>> /\ writer = [state |-> "select", entry |-> None]
    /\ tenants = [s \in Slugs |-> None]
    /\ users = [s \in Slugs |-> None]
    /\ issued = {}
    /\ written = <<>> /\ reported = {} /\ passed = {}

Running == phase \notin {"boot", "exited"}

(***************************************************************************)
(* The start: SeedDefaultTenant inserts the tenant and its owner in one    *)
(* transaction when they are missing, and a failure ends the process.      *)
(***************************************************************************)
runDefaultSeed ==
    /\ tenants' = [tenants EXCEPT ![DefaultSlug] = IF @ = None THEN "seed" ELSE @]
    /\ users' = [users EXCEPT ![DefaultSlug] = IF @ = None THEN "owner" ELSE @]

Boot ==
    /\ phase = "boot"
    /\ \/ phase' = "up" /\ runDefaultSeed
       \/ phase' = "exited" /\ UNCHANGED <<tenants, users>>
    /\ UNCHANGED <<now, deadline, req, auditVars, limitVars, issued>>

(***************************************************************************)
(* A request.                                                              *)
(***************************************************************************)
At(r, step) == Running /\ req[r].todo # <<>> /\ Head(req[r].todo) = step

Begin(r, route, cred) ==
    /\ phase = "up" /\ req[r].route = "none"
    /\ req' = [req EXCEPT ![r] =
         [route |-> route, todo |-> Routes[route].chain, cred |-> cred, role |-> None,
          began |-> now, had |-> {users[cred.tenant]}, status |-> "running",
          audited |-> FALSE]]
    /\ UNCHANGED <<now, processVars, auditVars, limitVars, dataVars>>

\* The next middleware runs.
Continue(r) == [req[r] EXCEPT !.todo = Tail(@)]

\* The request is answered, and what comes after c.Next() in the audit
\* middleware is left to do.
Answer(r, status) ==
    [req[r] EXCEPT !.status = status,
                   !.todo = IF Routes[req[r].route].audited THEN <<"audit">> ELSE <<>>]

\* The request is over: it never came to the audit middleware, or it panicked
\* through it.
Abort(r, status) == [req[r] EXCEPT !.status = status, !.todo = <<>>]

Progress(r, x) == req' = [req EXCEPT ![r] = x]

(***************************************************************************)
(* Authentication.  The role is read from the user's row, not from the     *)
(* claims of the token.                                                    *)
(***************************************************************************)
parseClaims(cred, type) == cred.type = type /\ now <= cred.expiry

\* Variant: the role is the one the token was issued with.
AuthenticateByClaims(cred) ==
    IF parseClaims(cred, "access") THEN cred.role ELSE None

Authenticate(cred) ==
    CASE cred.type = "apiKey" /\ tenants[cred.tenant] # None -> "admin"
      [] cred.type = "instanceToken" /\ tenants[cred.tenant] # None -> "admin"
      [] parseClaims(cred, "access") /\ users[cred.tenant] # None -> users[cred.tenant]
      [] OTHER -> None

Guard(r) ==
    LET role == Authenticate(req[r].cred)
    IN  /\ At(r, "guard")
        /\ \/ role # None /\ Progress(r, [Continue(r) EXCEPT !.role = role])
           \/ role = None /\ Progress(r, Abort(r, "unauthorized"))
        /\ UNCHANGED <<now, processVars, auditVars, limitVars, dataVars>>

\* The tenant's row is read, and the tenant headers of the request must match
\* it when there are any.
Resolve(r) ==
    /\ At(r, "resolve")
    /\ \/ tenants[req[r].cred.tenant] # None /\ Progress(r, Continue(r))
       \/ Progress(r, Abort(r, "forbidden"))
    /\ UNCHANGED <<now, processVars, auditVars, limitVars, dataVars>>

RequireRoles(r) ==
    /\ At(r, "roles")
    /\ Progress(r, IF req[r].role \in Routes[req[r].route].roles
                     THEN Continue(r) ELSE Answer(r, "forbidden"))
    /\ UNCHANGED <<now, processVars, auditVars, limitVars, dataVars>>

PlatformGuard(r) ==
    /\ At(r, "platform")
    /\ Progress(r, IF req[r].cred.type = "good" THEN Continue(r) ELSE Abort(r, "forbidden"))
    /\ UNCHANGED <<now, processVars, auditVars, limitVars, dataVars>>

\* The tokens GeneratePair makes; a RefreshTTL of 0 makes no refresh token.
GeneratePair(slug) ==
    {Token("access", slug, users[slug], now + AccessTTL)} \cup
    (IF RefreshTTL > 0 THEN {Token("refresh", slug, users[slug], now + RefreshTTL)} ELSE {})

issueTokens(r, slug) ==
    /\ issued' = issued \cup GeneratePair(slug)
    /\ Progress(r, Abort(r, "ok"))

Login(r) ==
    LET cred == req[r].cred
    IN  /\ At(r, "login")
        /\ \/ /\ cred.type = "good" /\ users[cred.tenant] # None
              /\ issueTokens(r, cred.tenant)
           \/ /\ ~ (cred.type = "good" /\ users[cred.tenant] # None)
              /\ Progress(r, Abort(r, "unauthorized")) /\ UNCHANGED issued
        /\ UNCHANGED <<now, processVars, auditVars, limitVars, tenants, users>>

Refresh(r) ==
    LET cred == req[r].cred
        valid == parseClaims(cred, "refresh") /\ users[cred.tenant] # None
    IN  /\ At(r, "refresh")
        /\ \/ valid /\ issueTokens(r, cred.tenant)
           \/ ~ valid /\ Progress(r, Abort(r, "unauthorized")) /\ UNCHANGED issued
        /\ UNCHANGED <<now, processVars, auditVars, limitVars, tenants, users>>

\* An operator of the installation changes a user's role in the database; no
\* code of the API does.
EditUser(s, role) ==
    /\ Running
    /\ users[s] # None /\ role # users[s]
    /\ users' = [users EXCEPT ![s] = role]
    /\ req' = [r \in Requests |->
                 IF req[r].cred # None /\ req[r].cred.tenant = s
                   THEN [req[r] EXCEPT !.had = @ \cup {role}] ELSE req[r]]
    /\ UNCHANGED <<now, processVars, auditVars, limitVars, tenants, issued>>

(***************************************************************************)
(* The rate limiter.  A window of a key begins with its first request and  *)
(* is over when the clock is past its end; a refused request counts too.   *)
(* Every call first prunes all the windows that are over.                  *)
(***************************************************************************)
\* Variant: the windows that are not over are the ones dropped.
PruneOpen == [k \in Keys |-> IF limits[k] # None /\ now <= limits[k].end
                               THEN None ELSE limits[k]]

pruneExpired == [k \in Keys |-> IF limits[k] # None /\ now > limits[k].end
                                  THEN None ELSE limits[k]]

Count(key) == IF pruneExpired[key] = None THEN [count |-> 1, end |-> now + Window]
                                          ELSE [pruneExpired[key] EXCEPT !.count = @ + 1]

Allow(r, key, refused) ==
    IF Limit = 0
      THEN Progress(r, Continue(r)) /\ UNCHANGED limitVars
      ELSE /\ limits' = [pruneExpired EXCEPT ![key] = Count(key)]
           /\ \/ /\ Count(key).count <= Limit
                 /\ Progress(r, Continue(r))
                 /\ passed' = passed \cup {[key |-> key, req |-> r, at |-> now]}
              \/ /\ Count(key).count > Limit
                 /\ Progress(r, refused)
                 /\ UNCHANGED passed

PolicyOf(r) == Routes[req[r].route].policy

LimitByIP(r) ==
    /\ At(r, "limitIP")
    /\ Allow(r, Key("login", "ip", DefaultSlug), Abort(r, "limited"))
    /\ UNCHANGED <<now, processVars, auditVars, dataVars>>

\* The tenant's budget; a body that cannot be read is refused before it.
LimitTenant(r) ==
    /\ At(r, "limitTenant")
    /\ \/ Allow(r, Key(PolicyOf(r), "tenant", req[r].cred.tenant), Answer(r, "limited"))
       \/ Progress(r, Answer(r, "invalid")) /\ UNCHANGED limitVars
    /\ UNCHANGED <<now, processVars, auditVars, dataVars>>

\* The budget of the instance, when the request names one.
LimitInstance(r) ==
    /\ At(r, "limitInstance")
    /\ \/ Allow(r, Key(PolicyOf(r), "instance", req[r].cred.tenant), Answer(r, "limited"))
       \/ Progress(r, Continue(r)) /\ UNCHANGED limitVars
    /\ UNCHANGED <<now, processVars, auditVars, dataVars>>

(***************************************************************************)
(* Handlers.  A panic is caught by the recovery middleware, outside of the *)
(* audit middleware, which then records nothing.                           *)
(***************************************************************************)
Handle(r) ==
    /\ At(r, "handle")
    /\ \E x \in {Answer(r, "ok"), Answer(r, "failed"), Abort(r, "panic")} : Progress(r, x)
    /\ UNCHANGED <<now, processVars, auditVars, limitVars, dataVars>>

(***************************************************************************)
(* tenant.Service.Create: the slug is looked up, the tenant is inserted    *)
(* under a unique index, and then its user, in statements of their own.    *)
(***************************************************************************)
CheckSlug(r) ==
    /\ At(r, "checkSlug")
    /\ Progress(r, IF tenants[req[r].cred.tenant] = None
                     THEN Continue(r) ELSE Abort(r, "conflict"))
    /\ UNCHANGED <<now, processVars, auditVars, limitVars, dataVars>>

\* Variant: the insert takes the place of the row that has the slug.
InsertTenantOver(r) ==
    /\ At(r, "insertTenant")
    /\ tenants' = [tenants EXCEPT ![req[r].cred.tenant] = r]
    /\ Progress(r, Continue(r))
    /\ UNCHANGED <<now, processVars, auditVars, limitVars, users, issued>>

InsertTenant(r) ==
    /\ At(r, "insertTenant")
    /\ \/ /\ tenants[req[r].cred.tenant] = None
          /\ tenants' = [tenants EXCEPT ![req[r].cred.tenant] = r]
          /\ Progress(r, Continue(r))
       \/ Progress(r, Abort(r, "failed")) /\ UNCHANGED tenants
    /\ UNCHANGED <<now, processVars, auditVars, limitVars, users, issued>>

InsertUser(r) ==
    /\ At(r, "insertUser")
    /\ \/ /\ users' = [users EXCEPT ![req[r].cred.tenant] = "admin"]
          /\ Progress(r, Abort(r, "ok"))
       \/ Progress(r, Abort(r, "failed")) /\ UNCHANGED users
    /\ UNCHANGED <<now, processVars, auditVars, limitVars, tenants, issued>>

(***************************************************************************)
(* The audit log.  Record never blocks: a full queue drops the entry with  *)
(* a warning.                                                              *)
(***************************************************************************)
Record(r) ==
    /\ At(r, "audit")
    /\ \/ Len(queue) < QueueSize /\ queue' = Append(queue, r) /\ UNCHANGED reported
       \/ Len(queue) = QueueSize /\ reported' = reported \cup {r} /\ UNCHANGED queue
    /\ Progress(r, [Abort(r, req[r].status) EXCEPT !.audited = TRUE])
    /\ UNCHANGED <<now, processVars, writer, written, limitVars, dataVars>>

Cancelled == phase \in {"cancelled", "stopped"}

\* The writer's select takes an entry, or sees that the context is done; when
\* both are ready it may do either.  Draining takes what is there and ends at
\* the first look that finds the queue empty.
WriterTake ==
    /\ Running
    /\ writer.state \in {"select", "drain"} /\ writer.entry = None
    /\ queue # <<>>
    /\ writer' = [writer EXCEPT !.entry = Head(queue)]
    /\ queue' = Tail(queue)
    /\ UNCHANGED <<now, processVars, req, written, reported, limitVars, dataVars>>

WriterDone ==
    /\ Running
    /\ writer.entry = None
    /\ \/ writer.state = "select" /\ Cancelled /\ writer' = [writer EXCEPT !.state = "drain"]
       \/ writer.state = "drain" /\ queue = <<>> /\ writer' = [writer EXCEPT !.state = "ended"]
    /\ UNCHANGED <<now, processVars, req, queue, written, reported, limitVars, dataVars>>

\* The insert, with a context of its own; a failure is logged.
Write ==
    /\ Running
    /\ writer.entry # None
    /\ writer' = [writer EXCEPT !.entry = None]
    /\ \/ written' = Append(written, writer.entry) /\ UNCHANGED reported
       \/ reported' = reported \cup {writer.entry} /\ UNCHANGED written
    /\ UNCHANGED <<now, processVars, req, queue, limitVars, dataVars>>

(***************************************************************************)
(* The end of the process: the server stops taking requests and waits for  *)
(* those under way, then the context of the workers is cancelled, then the *)
(* workers are waited for, and the stores are closed.  One deadline covers *)
(* all of it.                                                              *)
(***************************************************************************)
Signal ==
    /\ phase = "up"
    /\ phase' = "closing"
    /\ UNCHANGED <<now, deadline, req, auditVars, limitVars, dataVars>>

Deadline ==
    /\ phase \in {"closing", "cancelled"} /\ ~ deadline
    /\ deadline' = TRUE
    /\ UNCHANGED <<now, phase, req, auditVars, limitVars, dataVars>>

NoneUnderWay == \A r \in Requests : req[r].todo = <<>>

\* Variant: the workers' context is cancelled before the requests are over.
ShutdownAtOnce ==
    /\ phase = "closing"
    /\ phase' = "cancelled"
    /\ UNCHANGED <<now, deadline, req, auditVars, limitVars, dataVars>>

\* Variant: nothing bounds the wait for the requests.
ShutdownPatient ==
    /\ phase = "closing"
    /\ NoneUnderWay
    /\ phase' = "cancelled"
    /\ UNCHANGED <<now, deadline, req, auditVars, limitVars, dataVars>>

Shutdown ==
    /\ phase = "closing"
    /\ NoneUnderWay \/ deadline
    /\ phase' = "cancelled"
    /\ UNCHANGED <<now, deadline, req, auditVars, limitVars, dataVars>>

\* Application.Stop: every service is waited for until it is done or the
\* deadline has passed.
Stop ==
    /\ phase = "cancelled"
    /\ writer.state = "ended" \/ deadline
    /\ phase' = "stopped"
    /\ UNCHANGED <<now, deadline, req, auditVars, limitVars, dataVars>>

\* The stores are closed and main returns.
Exit ==
    /\ phase = "stopped"
    /\ phase' = "exited"
    /\ UNCHANGED <<now, deadline, req, auditVars, limitVars, dataVars>>

Tick ==
    /\ Running /\ now < MaxTime
    /\ now' = now + 1
    /\ UNCHANGED <<processVars, req, auditVars, limitVars, dataVars>>

Middleware(r) ==
    \/ Guard(r) \/ Resolve(r) \/ RequireRoles(r) \/ PlatformGuard(r)
    \/ LimitByIP(r) \/ LimitTenant(r) \/ LimitInstance(r)
    \/ Login(r) \/ Refresh(r)
    \/ CheckSlug(r) \/ InsertTenant(r) \/ InsertUser(r)
    \/ Record(r)

Next ==
    \/ Boot
    \/ \E r \in Requests :
         \/ \E route \in DOMAIN Routes, cred \in Credentials : Begin(r, route, cred)
         \/ Middleware(r)
         \/ Handle(r)
    \/ \E s \in Slugs, role \in Roles : EditUser(s, role)
    \/ WriterTake \/ WriterDone \/ Write
    \/ Signal \/ Deadline \/ Shutdown \/ Stop \/ Exit
    \/ Tick

\* A handler may take for ever; the goroutines of main and of the writer, and
\* the deadline's timer, run.
Fairness ==
    /\ \A r \in Requests : WF_vars(Middleware(r))
    /\ WF_vars(WriterTake) /\ WF_vars(WriterDone) /\ WF_vars(Write)
    /\ WF_vars(Deadline) /\ WF_vars(Shutdown) /\ WF_vars(Stop) /\ WF_vars(Exit)

Spec == Init /\ [][Next]_vars /\ Fairness

-----------------------------------------------------------------------------
(***************************************************************************)
(* Properties.                                                             *)
(***************************************************************************)
Steps == {"guard", "resolve", "roles", "limitTenant", "limitInstance", "limitIP",
          "handle", "audit", "login", "refresh", "platform", "checkSlug",
          "insertTenant", "insertUser"}
Statuses == {"none", "running", "ok", "failed", "panic", "unauthorized", "forbidden",
             "limited", "invalid", "conflict"}

\* Types, the clock of no window or token is beyond what it can be, the queue
\* keeps to its capacity, and the rows name who made them.
TypeOK ==
    /\ now \in 0 .. MaxTime
    /\ phase \in {"boot", "up", "closing", "cancelled", "stopped", "exited"}
    /\ deadline \in BOOLEAN
    /\ \A r \in Requests :
         /\ req[r].route \in {"none"} \cup DOMAIN Routes
         /\ req[r].todo \in Seq(Steps)
         /\ req[r].role \in Roles \cup {None}
         /\ req[r].status \in Statuses
         /\ req[r].began \in 0 .. now
    /\ \A k \in Keys : limits[k] # None => limits[k].count > 0 /\ limits[k].end <= now + Window
    /\ queue \in Seq(Requests) /\ Len(queue) <= QueueSize
    /\ writer.state \in {"select", "drain", "ended"}
    /\ writer.entry \in Requests \cup {None}
    /\ tenants \in [Slugs -> {None, "seed"} \cup Requests]
    /\ users \in [Slugs -> {None} \cup Roles]
    /\ issued \subseteq Tokens
    /\ written \in Seq(Requests) /\ reported \subseteq Requests

\* Whatever the instants at which requests meet in the store, no key is let
\* through more often than twice the limit in any stretch as long as a
\* window: the limiter's windows are fixed, so a stretch meets two of them at
\* the most (MemoryRateLimitStore.Allow, pruneExpired).
BurstBounded ==
    Limit > 0 =>
        \A k \in {p.key : p \in passed}, t \in 0 .. MaxTime :
            Cardinality({p \in passed : p.key = k /\ p.at \in t .. t + Window}) <= 2 * Limit

\* A handler behind the guard runs for a bearer only if the token was an
\* access token that had not expired when the request came, and if the user
\* had one of the route's roles in the database at some moment of the
\* request: a role taken away before the request came is no longer honoured,
\* whatever the token says (Service.Authenticate, RequireRoles).
EntitledOnly ==
    \A r \in Requests :
        /\ req[r].status \in {"ok", "failed", "panic"}
        /\ "guard" \in {Routes[req[r].route].chain[1]}
        /\ req[r].cred.type \notin {"apiKey", "instanceToken"}
        => /\ req[r].cred.type = "access"
           /\ req[r].cred.expiry >= req[r].began
           /\ req[r].had \cap Routes[req[r].route].roles # {}

\* A creation of a tenant that was answered with success owns its slug for
\* ever, with the user that came with it: of two creations that both found
\* the slug free only one succeeds (tenant.Service.Create).
CreatedOwnsSlug ==
    \A r \in Requests :
        req[r].route = "createTenant" /\ req[r].status = "ok" =>
            tenants[req[r].cred.tenant] = r /\ users[req[r].cred.tenant] # None

Occurrences(r) ==
    Cardinality({i \in DOMAIN written : written[i] = r}) + (IF r \in reported THEN 1 ELSE 0)

\* A shutdown that keeps to its deadline loses no audit entry: at the end of
\* the process every entry that was recorded is in the table or reported in
\* the log, once (audit.Service.Start and Stop, the order of main's shutdown).
AuditKept ==
    phase = "exited" /\ ~ deadline =>
        \A r \in Requests : req[r].audited => Occurrences(r) = 1

\* A signal ends the process, whatever the handlers under way do (main,
\* Server.Shutdown, Application.Stop).
ShutdownEnds == phase = "closing" ~> phase = "exited"
=============================================================================
