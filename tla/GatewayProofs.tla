---------------------------- MODULE GatewayProofs ----------------------------
(***************************************************************************)
(* Proofs about the HTTP front: who gets through to a handler, who owns a  *)
(* slug, how often the limiter lets a key through, and that the audit log  *)
(* loses nothing, for any number of requests, tenants, limits and times.   *)
(***************************************************************************)
EXTENDS Gateway, SequenceTheorems, FiniteSetTheorems, TLAPS

-----------------------------------------------------------------------------
(* The inductive invariant.                                                *)

Phases == {"boot", "up", "closing", "cancelled", "stopped", "exited"}
CredentialTypes == {"access", "refresh", "apiKey", "instanceToken", "good", "bad"}
Bearer == [type : CredentialTypes, tenant : Slugs, role : Roles, expiry : Nat]
Entry == [count : Nat, end : Nat]
Pass == [key : Keys, req : Requests, at : Nat]
Request ==
    [route : {"none"} \cup DOMAIN Routes, todo : Seq(Steps), cred : Bearer \cup {None},
     role : Roles \cup {None}, began : Nat, had : SUBSET (Roles \cup {None}),
     status : Statuses, audited : BOOLEAN]

Types ==
    /\ now \in 0 .. MaxTime /\ phase \in Phases /\ deadline \in BOOLEAN
    /\ req \in [Requests -> Request]
    /\ limits \in [Keys -> Entry \cup {None}]
    /\ passed \subseteq Pass
    /\ queue \in Seq(Requests) /\ Len(queue) <= QueueSize
    /\ writer \in [state : {"select", "drain", "ended"}, entry : Requests \cup {None}]
    /\ tenants \in [Slugs -> {None, "seed"} \cup Requests]
    /\ users \in [Slugs -> {None} \cup Roles]
    /\ issued \subseteq Tokens
    /\ written \in Seq(Requests) /\ reported \subseteq Requests

\* In a list of steps, a step of S has a step of T before it.
Guarded(t, S, T) ==
    \A i \in 1..Len(t) : t[i] \in S => \E j \in 1..(i - 1) : t[j] \in T

\* A list has only steps of S.
Within(t, S) == \A i \in 1..Len(t) : t[i] \in S

\* The guard of a route comes first, or it is over.
GuardFirst(t) == \A i \in 1..Len(t) : t[i] = "guard" => i = 1

TokenSteps == {"limitIP", "login", "refresh"}
CreateSteps == {"platform", "checkSlug", "insertTenant", "insertUser"}
LimitSteps == {"limitTenant", "limitInstance"}
GuardSteps == {"guard", "resolve", "roles", "handle", "audit"} \cup LimitSteps

\* The routes that have no guard, and the steps a route may have.
Open == {"login", "refresh", "createTenant"}
Kind(route) ==
    IF route = "createTenant" THEN CreateSteps
    ELSE IF route \in Open THEN TokenSteps ELSE GuardSteps

\* A request and its list.
ListInv(r) ==
    LET route == req[r].route
    IN  /\ route = "none" => req[r] = NotMade
        /\ route # "none" =>
              /\ req[r].cred # None
              /\ Within(req[r].todo, Kind(route))
              /\ Routes[route].policy = "none" => Within(req[r].todo, GuardSteps \ LimitSteps)
        /\ req[r].audited => req[r].todo = <<>>
        /\ req[r].began <= now

\* A creation of a tenant that comes to the user's row has the slug, which no
\* one else can take.
CreateInv(r) ==
    LET slug == req[r].cred.tenant
    IN  req[r].route = "createTenant" =>
          /\ \/ Guarded(req[r].todo, {"insertUser"}, {"insertTenant"})
             \/ tenants[slug] = r /\ users[slug] = None
          /\ req[r].status = "ok" => tenants[slug] = r /\ users[slug] # None

\* The bearer of a token has a user, and the request knows the user's roles.
BearerInv(r) ==
    req[r].route # "none" /\ req[r].cred.type \in {"access", "refresh"} =>
        users[req[r].cred.tenant] # None /\ users[req[r].cred.tenant] \in req[r].had

\* What the guard and RequireRoles have made sure of.
Admitted(r) ==
    /\ req[r].cred.type = "access" /\ req[r].cred.expiry >= req[r].began
    /\ req[r].role \in req[r].had
Permitted(r) == req[r].role \in Routes[req[r].route].roles

GuardInv(r) ==
    /\ req[r].route \notin Open \cup {"none"}
    /\ req[r].cred.type \notin {"apiKey", "instanceToken"}
    =>
        /\ GuardFirst(req[r].todo)
        /\ req[r].todo # <<>> /\ req[r].todo[1] = "guard" =>
              req[r].status = "running" /\ Guarded(req[r].todo, {"handle"}, {"roles"})
        /\ Guarded(req[r].todo, {"handle"}, {"guard"}) \/ Admitted(r)
        /\ Guarded(req[r].todo, {"handle"}, {"roles"}) \/ Permitted(r)
        /\ req[r].status \in {"ok", "failed", "panic"} => Admitted(r) /\ Permitted(r)

RowsInv ==
    /\ \A s \in Slugs : users[s] # None => tenants[s] # None
    /\ \A t \in issued : users[t.tenant] # None

RequestInv ==
    /\ \A r \in Requests : ListInv(r) /\ CreateInv(r) /\ BearerInv(r) /\ GuardInv(r)
    /\ RowsInv
    /\ phase = "boot" =>
          /\ \A r \in Requests : req[r] = NotMade
          /\ \A s \in Slugs : tenants[s] = None /\ users[s] = None

\* An entry of the audit log is in one place, once.
In(s, e) == \E i \in 1..Len(s) : s[i] = e
Once(s) == \A i, j \in 1..Len(s) : s[i] = s[j] => i = j

PlaceInv(r) ==
    /\ req[r].audited <=> In(queue, r) \/ writer.entry = r \/ In(written, r) \/ r \in reported
    /\ In(queue, r) => writer.entry # r /\ ~In(written, r) /\ r \notin reported
    /\ writer.entry = r => ~In(written, r) /\ r \notin reported
    /\ In(written, r) => r \notin reported

\* How far the shutdown is says what is over.
ShutdownInv ==
    /\ writer.state # "select" => phase \in {"cancelled", "stopped", "exited"}
    /\ ~deadline =>
          /\ phase \in {"cancelled", "stopped"} => NoneUnderWay
          /\ phase = "stopped" => writer.state = "ended"
          /\ writer.state = "ended" => queue = <<>> /\ writer.entry = None
          /\ phase = "exited" => \/ writer.state = "ended"
                                 \/ \A r \in Requests : req[r] = NotMade

AuditInv ==
    /\ \A r \in Requests : PlaceInv(r)
    /\ Once(queue) /\ Once(written)
    /\ ShutdownInv

\* The last window of a key began at s: the requests let through since then,
\* those of the stretch before it, and those of any stretch.
Among(P, k, a, b) == {p \in P : p.key = k /\ a <= p.at /\ p.at <= b}
Passes(k, a, b) == Among(passed, k, a, b)
WindowInv(k, s) ==
    /\ s <= now
    /\ \A p \in passed : p.key = k => p.at <= s + Window /\ p.at <= now
    /\ Cardinality(Passes(k, s, s + Window)) <= Limit
    /\ Cardinality(Passes(k, s - Window, s - 1)) <= Limit
    /\ IF limits[k] = None
         THEN s + Window < now \/ Passes(k, s - Window, s + Window) = {}
         ELSE /\ limits[k].end = s + Window
              /\ Cardinality(Passes(k, s, s + Window)) <= limits[k].count

LimitInv ==
    /\ IsFiniteSet(passed)
    /\ Limit > 0 => \A k \in Keys : \E s \in Int : WindowInv(k, s)
    /\ Limit > 0 => \A k \in Keys, t \in Int : Cardinality(Passes(k, t, t + Window)) <= 2 * Limit

GatewayInv == Types /\ RequestInv /\ AuditInv /\ LimitInv

-----------------------------------------------------------------------------
(* The limiter: counting.                                                  *)

LEMMA AmongFinite ==
    ASSUME NEW P, IsFiniteSet(P), NEW k, NEW a, NEW b
    PROVE  IsFiniteSet(Among(P, k, a, b)) /\ Cardinality(Among(P, k, a, b)) \in Nat
<1>1. Among(P, k, a, b) \subseteq P
    BY DEF Among
<1>2. IsFiniteSet(Among(P, k, a, b))
    BY <1>1, FS_Subset
<1> QED
    BY <1>2, FS_CardinalityType

\* One request more among those let through.
LEMMA AmongAdd ==
    ASSUME NEW P, IsFiniteSet(P), NEW q, NEW k, NEW a, NEW b
    PROVE  Cardinality(Among(P \cup {q}, k, a, b)) <= Cardinality(Among(P, k, a, b)) + 1
<1> DEFINE S == Among(P, k, a, b)
           T == Among(P \cup {q}, k, a, b)
<1>1. IsFiniteSet(S) /\ Cardinality(S) \in Nat
    BY AmongFinite
<1>2. T \in SUBSET (S \cup {q})
    BY DEF Among
<1> HIDE DEF S, T
<1>3. /\ IsFiniteSet(S \cup {q})
      /\ Cardinality(S \cup {q}) = IF q \in S THEN Cardinality(S) ELSE Cardinality(S) + 1
    BY <1>1, FS_AddElement
<1>4. IsFiniteSet(T) /\ Cardinality(T) <= Cardinality(S \cup {q})
    BY <1>2, <1>3, FS_Subset
<1>5. Cardinality(T) \in Nat
    BY <1>4, FS_CardinalityType
<1>6. Cardinality(T) <= Cardinality(S) + 1
    BY <1>1, <1>3, <1>4, <1>5
<1> QED
    BY <1>6 DEF S, T

\* A stretch inside another holds no more, and one covered by two no more
\* than both.
LEMMA AmongWithin ==
    ASSUME NEW P, IsFiniteSet(P), NEW k, NEW a, NEW b, NEW c, NEW d,
           Among(P, k, a, b) \subseteq Among(P, k, c, d)
    PROVE  Cardinality(Among(P, k, a, b)) <= Cardinality(Among(P, k, c, d))
BY AmongFinite, FS_Subset

LEMMA AmongCovered ==
    ASSUME NEW P, IsFiniteSet(P), NEW k, NEW a, NEW b, NEW c, NEW d, NEW e, NEW f,
           Among(P, k, a, b) \subseteq Among(P, k, c, d) \cup Among(P, k, e, f)
    PROVE  Cardinality(Among(P, k, a, b))
              <= Cardinality(Among(P, k, c, d)) + Cardinality(Among(P, k, e, f))
<1> DEFINE A == Among(P, k, a, b)
           S == Among(P, k, c, d)
           T == Among(P, k, e, f)
<1>1. /\ IsFiniteSet(A) /\ Cardinality(A) \in Nat
      /\ IsFiniteSet(S) /\ Cardinality(S) \in Nat
      /\ IsFiniteSet(T) /\ Cardinality(T) \in Nat
    BY AmongFinite
<1>2. A \in SUBSET (S \cup T)
    OBVIOUS
<1> HIDE DEF A, S, T
<1>3. IsFiniteSet(S \cap T) /\ Cardinality(S \cap T) \in Nat
  <2>1. S \cap T \in SUBSET S
      OBVIOUS
  <2>2. IsFiniteSet(S \cap T)
      BY <1>1, <2>1, FS_Subset
  <2> QED
      BY <2>2, FS_CardinalityType
<1>4. /\ IsFiniteSet(S \cup T)
      /\ Cardinality(S \cup T) = Cardinality(S) + Cardinality(T) - Cardinality(S \cap T)
    BY <1>1, FS_Union
<1>5. Cardinality(A) <= Cardinality(S \cup T)
    BY <1>2, <1>4, FS_Subset
<1>6. Cardinality(A) <= Cardinality(S) + Cardinality(T)
    BY <1>1, <1>3, <1>4, <1>5
<1> QED
    BY <1>6 DEF A, S, T

\* The limiter counts a request.
LEMMA AllowKeeps ==
    ASSUME Types, LimitInv, NEW r \in Requests, NEW key \in Keys, NEW refused,
           Allow(r, key, refused), now' = now
    PROVE  LimitInv'
<1>1. /\ now \in Nat /\ Window \in Nat /\ Limit \in Nat
      /\ limits \in [Keys -> Entry \cup {None}] /\ passed \subseteq Pass
      /\ IsFiniteSet(passed)
    BY GatewayAssumption DEF Types, LimitInv
<1>2. CASE Limit = 0
  <2>1. passed' = passed
      BY <1>2 DEF Allow, limitVars
  <2> QED
      BY <1>1, <1>2, <2>1 DEF LimitInv
<1>3. CASE Limit > 0
  <2> DEFINE q == [key |-> key, req |-> r, at |-> now]
             c == Count(key)
  <2>1. /\ limits' = [pruneExpired EXCEPT ![key] = c]
        /\ \/ c.count <= Limit /\ passed' = passed \cup {q}
           \/ passed' = passed
      BY <1>3 DEF Allow
  <2>2. q.key = key /\ q.at = now /\ q \in Pass
      BY <1>1 DEF Pass
  <2>3. \A k \in Keys : pruneExpired[k] = IF limits[k] # None /\ now > limits[k].end
                                            THEN None ELSE limits[k]
      BY DEF pruneExpired
  <2>4. \A k \in Keys : limits'[k] = IF k = key THEN c ELSE pruneExpired[k]
    <3>1. DOMAIN pruneExpired = Keys
        BY DEF pruneExpired
    <3> HIDE DEF c
    <3> QED
        BY <2>1, <3>1
  <2>5. IsFiniteSet(passed')
    <3> HIDE DEF c, q
    <3>1. IsFiniteSet(passed \cup {q})
        BY <1>1, FS_AddElement
    <3> QED
        BY <1>1, <2>1, <3>1
  <2>6. \A k \in Keys : \A a, b : k # key => Among(passed', k, a, b) = Among(passed, k, a, b)
      BY <2>1, <2>2 DEF Among
  <2>7. \A a, b : Cardinality(Among(passed', key, a, b)) <= Cardinality(Among(passed, key, a, b)) + 1
    <3>1. \A a, b : Cardinality(Among(passed, key, a, b)) \in Nat
        BY <1>1, AmongFinite
    <3>2. \A a, b : passed' = passed => Cardinality(Among(passed', key, a, b)) <= Cardinality(Among(passed, key, a, b)) + 1
        BY <3>1
    <3>3. \A a, b : passed' = passed \cup {q} => Cardinality(Among(passed', key, a, b)) <= Cardinality(Among(passed, key, a, b)) + 1
        BY <1>1, AmongAdd
    <3> HIDE DEF c, q
    <3> QED
        BY <2>1, <3>2, <3>3
  <2>8. ASSUME NEW k \in Keys, k # key
        PROVE  \E s \in Int : WindowInv(k, s)'
    <3>1. PICK s \in Int : WindowInv(k, s)
        BY <1>3 DEF LimitInv
    <3>2. limits'[k] = pruneExpired[k]
        BY <2>4, <2>8
    <3>3. \A a, b : Among(passed', k, a, b) = Among(passed, k, a, b)
        BY <2>6, <2>8
    <3>4. \A p \in passed' : p.key = k => p \in passed
        BY <2>1, <2>2, <2>8
    <3>5. WindowInv(k, s)'
      <4>1. limits[k] # None /\ now > limits[k].end => s + Window < now
          BY <1>1, <3>1 DEF WindowInv
      <4> QED
          BY <2>3, <3>1, <3>2, <3>3, <3>4, <4>1 DEF WindowInv, Passes
    <3> QED
        BY <3>5
  <2>9. PICK s \in Int : WindowInv(key, s)
      BY <1>3 DEF LimitInv
  <2>10. \A p \in passed : p.at \in Nat
      BY <1>1 DEF Pass
  <2>11. \A a, b : Cardinality(Among(passed, key, a, b)) \in Nat /\ Cardinality(Among(passed', key, a, b)) \in Nat
      BY <1>1, <2>5, AmongFinite
  <2>12. \E z \in Int : WindowInv(key, z)' /\ z <= now /\ now <= z + Window
    <3>1. /\ limits'[key] = c /\ c.count \in Nat
          /\ \/ passed' = passed
             \/ c.count <= Limit /\ passed' = passed \cup {q}
      <4>1. c.count \in Nat
        <5>1. CASE pruneExpired[key] = None
            BY <5>1 DEF Count
        <5>2. CASE pruneExpired[key] # None
          <6>1. limits[key] \in Entry /\ pruneExpired[key] = limits[key]
              BY <1>1, <2>3, <5>2
          <6> QED
              BY <5>2, <6>1 DEF Count, Entry
        <5> QED
            BY <5>1, <5>2
      <4> HIDE DEF c, q
      <4> QED
          BY <2>1, <2>4, <4>1
    <3>2. \A p \in passed' : p.key = key => p.at <= now /\ (p \in passed \/ p.at = now)
      <4>1. \A p \in passed : p.key = key => p.at <= now
          BY <2>9 DEF WindowInv
      <4>2. q.at <= now
          BY <1>1, <2>2
      <4> HIDE DEF q, c
      <4> QED
          BY <2>2, <3>1, <4>1, <4>2
    <3>3. CASE pruneExpired[key] = None
      <4>1. c = [count |-> 1, end |-> now + Window]
          BY <3>3 DEF Count
      <4>2. c.count = 1 /\ c.end = now + Window /\ c # None
        <5>1. [count |-> 1, end |-> now + Window] \in [count : Nat, end : Nat]
            BY <1>1
        <5> QED
            BY <4>1, <5>1, NoneAssumption
      <4>3. s + Window < now \/ Passes(key, s - Window, s + Window) = {}
        <5>1. CASE limits[key] = None
            BY <2>9, <5>1 DEF WindowInv
        <5>2. CASE limits[key] # None
          <6>1. now > limits[key].end /\ limits[key].end = s + Window
              BY <2>3, <2>9, <3>3, <5>2 DEF WindowInv
          <6> QED
              BY <1>1, <6>1
        <5> QED
            BY <5>1, <5>2
      <4>4. \A p \in passed : p.key = key => p.at <= s + Window /\ s <= now
          BY <2>9 DEF WindowInv
      <4>5. Among(passed, key, now, now + Window) = {}
        <5>1. ASSUME NEW p \in passed, p.key = key, now <= p.at
              PROVE  FALSE
          <6>1. p.at \in Nat /\ p.at <= s + Window /\ s - Window <= p.at
              BY <1>1, <2>10, <4>4, <5>1
          <6>2. p \in Passes(key, s - Window, s + Window)
              BY <5>1, <6>1 DEF Passes, Among
          <6>3. ~(s + Window < now)
              BY <1>1, <5>1, <6>1
          <6> QED
              BY <4>3, <6>2, <6>3
        <5> QED
            BY <5>1 DEF Among
      <4>6. Among(passed, key, now - Window, now - 1) \subseteq Among(passed, key, s, s + Window)
        <5>1. ASSUME NEW p \in passed, p.key = key, now - Window <= p.at
              PROVE  s <= p.at /\ p.at <= s + Window
          <6>1. p.at \in Nat /\ p.at <= s + Window /\ s - Window <= p.at
              BY <1>1, <2>10, <4>4, <5>1
          <6>2. p \in Passes(key, s - Window, s + Window)
              BY <5>1, <6>1 DEF Passes, Among
          <6>3. s + Window < now
              BY <4>3, <6>2
          <6> QED
              BY <1>1, <5>1, <6>1, <6>3
        <5> QED
            BY <5>1 DEF Among
      <4>7. Cardinality(Among(passed, key, now - Window, now - 1)) <= Limit
        <5>1. Cardinality(Among(passed, key, s, s + Window)) <= Limit
            BY <2>9 DEF WindowInv, Passes
        <5>2. Cardinality(Among(passed, key, now - Window, now - 1)) <= Cardinality(Among(passed, key, s, s + Window))
            BY <1>1, <4>6, AmongWithin
        <5> QED
            BY <1>1, <2>11, <5>1, <5>2
      <4>8. Cardinality(Among(passed', key, now, now + Window)) <= 1
        <5>1. Cardinality(Among(passed, key, now, now + Window)) = 0
            BY <4>5, FS_EmptySet
        <5>2. Cardinality(Among(passed', key, now, now + Window)) <= 0 + 1
            BY <2>7, <5>1
        <5> QED
            BY <5>2
      <4>9. Among(passed', key, now - Window, now - 1) = Among(passed, key, now - Window, now - 1)
        <5>1. ~(now <= now - 1)
            BY <1>1
        <5> HIDE DEF q
        <5> QED
            BY <2>2, <3>1, <5>1 DEF Among
      <4>10. WindowInv(key, now)'
        <5>1. /\ now <= now /\ \A p \in passed' : p.key = key => p.at <= now + Window
          <6>1. \A p \in passed' : p.key = key => p.at \in Nat
              BY <1>1, <2>2, <2>10, <3>1
          <6> QED
              BY <1>1, <3>2, <6>1
        <5>2. Cardinality(Among(passed', key, now, now + Window)) <= Limit
            BY <1>1, <1>3, <2>11, <4>8
        <5> HIDE DEF c
        <5> QED
            BY <3>1, <3>2, <4>2, <4>7, <4>8, <4>9, <5>1, <5>2 DEF WindowInv, Passes
      <4>11. now \in Int /\ now <= now /\ now <= now + Window
          BY <1>1
      <4> QED
          BY <4>10, <4>11
    <3>4. CASE pruneExpired[key] # None
      <4>1. /\ limits[key] \in Entry /\ limits[key] # None /\ pruneExpired[key] = limits[key]
            /\ ~(now > limits[key].end)
          BY <1>1, <2>3, <3>4
      <4>2. c = [limits[key] EXCEPT !.count = @ + 1]
          BY <3>4, <4>1 DEF Count
      <4>3. c \in Entry /\ c.count = limits[key].count + 1 /\ c.end = limits[key].end
          BY <4>1, <4>2 DEF Entry
      <4>4. c # None
          BY <4>3, NoneAssumption DEF Entry
      <4>5. /\ limits[key].end = s + Window /\ s <= now
            /\ Cardinality(Among(passed, key, s, s + Window)) <= limits[key].count
            /\ Cardinality(Among(passed, key, s, s + Window)) <= Limit
            /\ Cardinality(Among(passed, key, s - Window, s - 1)) <= Limit
          BY <2>9, <4>1 DEF WindowInv, Passes
      <4>6. now <= s + Window /\ limits[key].count \in Nat
          BY <1>1, <4>1, <4>5 DEF Entry
      <4>7. Among(passed', key, s - Window, s - 1) = Among(passed, key, s - Window, s - 1)
        <5>1. ~(now <= s - 1)
            BY <1>1, <4>5
        <5> HIDE DEF q
        <5> QED
            BY <2>2, <3>1, <5>1 DEF Among
      <4>8. Cardinality(Among(passed', key, s, s + Window)) <= c.count
        <5>1. Cardinality(Among(passed', key, s, s + Window)) <= Cardinality(Among(passed, key, s, s + Window)) + 1
            BY <2>7
        <5> HIDE DEF c
        <5> QED
            BY <2>11, <4>3, <4>5, <4>6, <5>1
      <4>9. Cardinality(Among(passed', key, s, s + Window)) <= Limit
        <5>1. CASE passed' = passed
            BY <4>5, <5>1
        <5>2. CASE c.count <= Limit
          <6> HIDE DEF c
          <6> QED
              BY <1>1, <2>11, <3>1, <4>8, <5>2
        <5> HIDE DEF c, q
        <5> QED
            BY <3>1, <5>1, <5>2
      <4>10. WindowInv(key, s)'
        <5>1. \A p \in passed' : p.key = key => p.at <= s + Window
          <6>1. \A p \in passed : p.key = key => p.at <= s + Window
              BY <2>9 DEF WindowInv
          <6> QED
              BY <3>2, <4>6, <6>1
        <5> HIDE DEF c
        <5> QED
            BY <3>1, <3>2, <4>3, <4>4, <4>5, <4>7, <4>8, <4>9, <5>1 DEF WindowInv, Passes
      <4> QED
          BY <4>5, <4>6, <4>10
    <3> QED
        BY <3>3, <3>4
  <2>13. ASSUME NEW k \in Keys, NEW t \in Int
         PROVE  Cardinality(Passes(k, t, t + Window))' <= 2 * Limit
    <3>1. Cardinality(Among(passed, k, t, t + Window)) <= 2 * Limit
        BY <1>3, <2>13 DEF LimitInv, Passes
    <3>2. CASE Among(passed', k, t, t + Window) = Among(passed, k, t, t + Window)
        BY <3>1, <3>2 DEF Passes
    <3>3. CASE Among(passed', k, t, t + Window) # Among(passed, k, t, t + Window)
      <4>1. k = key /\ t <= now /\ now <= t + Window
        <5>1. k = key
            BY <2>6, <3>3
        <5>2. passed' = passed \cup {q}
            BY <2>1, <3>3
        <5> QED
            BY <2>2, <3>3, <5>1, <5>2 DEF Among
      <4>2. PICK z \in Int : WindowInv(key, z)' /\ z <= now /\ now <= z + Window
          BY <2>12
      <4>3. /\ Cardinality(Among(passed', k, z, z + Window)) <= Limit
            /\ Cardinality(Among(passed', k, z - Window, z - 1)) <= Limit
            /\ \A p \in passed' : p.key = k => p.at <= z + Window
          BY <4>1, <4>2 DEF WindowInv, Passes
      <4>4. \A p \in passed' : p.at \in Nat
          BY <1>1, <2>1, <2>2, <2>10
      <4>5. Among(passed', k, t, t + Window) \subseteq
                Among(passed', k, z - Window, z - 1) \cup Among(passed', k, z, z + Window)
        <5>1. ASSUME NEW p \in passed', p.key = k, t <= p.at
              PROVE  \/ z - Window <= p.at /\ p.at <= z - 1
                     \/ z <= p.at /\ p.at <= z + Window
          <6>1. p.at \in Nat /\ p.at <= z + Window
              BY <4>3, <4>4, <5>1
          <6> QED
              BY <1>1, <4>1, <4>2, <5>1, <6>1
        <5> QED
            BY <5>1 DEF Among
      <4>6. Cardinality(Among(passed', k, t, t + Window))
                <= Cardinality(Among(passed', k, z - Window, z - 1)) + Cardinality(Among(passed', k, z, z + Window))
          BY <2>5, <4>5, AmongCovered
      <4>7. Cardinality(Among(passed', k, t, t + Window)) <= 2 * Limit
          BY <1>1, <2>11, <4>1, <4>3, <4>6
      <4> QED
          BY <4>7 DEF Passes
    <3> QED
        BY <3>2, <3>3
  <2> QED
      BY <1>1, <2>5, <2>8, <2>12, <2>13 DEF LimitInv
<1> QED
    BY <1>1, <1>2, <1>3

\* Time only moves on; nothing else concerns the limiter.
LEMMA LimitRest ==
    ASSUME Types, LimitInv, UNCHANGED limitVars, now' \in {now, now + 1}
    PROVE  LimitInv'
<1>1. /\ now \in Nat /\ now' \in Nat /\ now <= now' /\ Window \in Nat
      /\ passed' = passed /\ limits' = limits /\ passed \subseteq Pass
    BY GatewayAssumption DEF Types, limitVars
<1>2. ASSUME NEW k \in Keys, NEW s \in Int, WindowInv(k, s)
      PROVE  WindowInv(k, s)'
  <2>1. \A p \in passed : p.key = k => p.at <= now'
    <3>1. \A p \in passed : p.at \in Nat
        BY <1>1 DEF Pass
    <3> QED
        BY <1>1, <1>2, <3>1 DEF WindowInv
  <2>2. s <= now' /\ (s + Window < now => s + Window < now')
      BY <1>1, <1>2 DEF WindowInv
  <2> QED
      BY <1>1, <1>2, <2>1, <2>2 DEF WindowInv, Passes
<1> QED
    BY <1>1, <1>2 DEF LimitInv, Passes

-----------------------------------------------------------------------------
(* Lists of steps and the routes.                                          *)

\* What is left of a list after its first step.
LEMMA Rest ==
    ASSUME NEW t \in Seq(Steps), t # <<>>
    PROVE  /\ Head(t) = t[1] /\ Head(t) \in Steps /\ Tail(t) \in Seq(Steps)
           /\ \A S : Within(t, S) => Head(t) \in S /\ Within(Tail(t), S)
           /\ GuardFirst(t) => Within(Tail(t), Steps \ {"guard"})
           /\ \A S, T : Guarded(t, S, T) =>
                 Head(t) \notin S /\ (Head(t) \notin T => Guarded(Tail(t), S, T))
<1>1. /\ Head(t) = t[1] /\ Head(t) \in Steps /\ Tail(t) \in Seq(Steps)
      /\ Len(t) \in Nat \ {0} /\ Len(Tail(t)) = Len(t) - 1
      /\ \A i \in 1..Len(Tail(t)) : Tail(t)[i] = t[i + 1]
    BY HeadTailProperties, LenProperties
<1>2. \A i \in 1..Len(Tail(t)) : i + 1 \in 1..Len(t) /\ i + 1 # 1
    BY <1>1
<1>3. ASSUME NEW S, Within(t, S)
      PROVE  Head(t) \in S /\ Within(Tail(t), S)
  <2>1. 1 \in 1..Len(t)
      BY <1>1
  <2> QED
      BY <1>1, <1>2, <1>3, <2>1 DEF Within
<1>4. ASSUME GuardFirst(t)
      PROVE  Within(Tail(t), Steps \ {"guard"})
  <2>1. ASSUME NEW i \in 1..Len(Tail(t))
        PROVE  Tail(t)[i] \in Steps \ {"guard"}
    <3>1. t[i + 1] \in Steps
        BY <1>2, ElementOfSeq
    <3> QED
        BY <1>1, <1>2, <1>4, <3>1 DEF GuardFirst
  <2> QED
      BY <2>1 DEF Within
<1>5. ASSUME NEW S, NEW T, Guarded(t, S, T)
      PROVE  Head(t) \notin S /\ (Head(t) \notin T => Guarded(Tail(t), S, T))
  <2>1. Head(t) \notin S
    <3>1. 1 \in 1..Len(t) /\ ~ \E j \in 1..(1 - 1) : TRUE
        BY <1>1
    <3> QED
        BY <1>1, <1>5, <3>1 DEF Guarded
  <2>2. ASSUME Head(t) \notin T, NEW i \in 1..Len(Tail(t)), Tail(t)[i] \in S
        PROVE  \E j \in 1..(i - 1) : Tail(t)[j] \in T
    <3>1. i + 1 \in 1..Len(t) /\ t[i + 1] \in S /\ (i + 1) - 1 = i
        BY <1>1, <2>2
    <3>2. PICK k \in 1..i : t[k] \in T
        BY <1>5, <3>1 DEF Guarded
    <3>3. k # 1
        BY <1>1, <2>2, <3>2
    <3>4. k - 1 \in 1..(i - 1) /\ k - 1 \in 1..Len(Tail(t)) /\ (k - 1) + 1 = k
        BY <1>1, <3>2, <3>3
    <3> QED
        BY <1>1, <3>2, <3>4
  <2> QED
      BY <2>1, <2>2 DEF Guarded
<1> QED
    BY <1>1, <1>3, <1>4, <1>5

\* Lists an answer leaves.
LEMMA Ends ==
    /\ \A t \in {<<>>, <<"audit">>} :
          /\ t \in Seq(Steps)
          /\ GuardFirst(t)
          /\ t # <<>> => t[1] # "guard"
          /\ Within(t, GuardSteps \ LimitSteps)
          /\ Guarded(t, {"handle"}, {"guard"}) /\ Guarded(t, {"handle"}, {"roles"})
          /\ Guarded(t, {"insertUser"}, {"insertTenant"})
    /\ \A S : Within(<<>>, S)
BY DEF Steps, GuardFirst, Within, Guarded, GuardSteps, LimitSteps

\* Two lists, one after the other.
LEMMA Concatenation ==
    ASSUME NEW a \in Seq(Steps), NEW b \in Seq(Steps), NEW c \in Seq(Steps),
           Len(c) = Len(a) + Len(b),
           \A i \in 1..Len(a) : c[i] = a[i],
           \A i \in 1..Len(b) : c[Len(a) + i] = b[i]
    PROVE  a \o b = c
<1>1. /\ a \o b \in Seq(Steps) /\ Len(a \o b) = Len(c)
      /\ Len(a) \in Nat /\ Len(b) \in Nat
      /\ \A i \in 1..Len(a) : (a \o b)[i] = a[i]
      /\ \A i \in Len(a) + 1 .. Len(a) + Len(b) : (a \o b)[i] = b[i - Len(a)]
    BY ConcatProperties, LenProperties
<1>2. ASSUME NEW i \in 1..Len(c)
      PROVE  (a \o b)[i] = c[i]
  <2>1. CASE i \in 1..Len(a)
      BY <1>1, <2>1
  <2>2. CASE i \notin 1..Len(a)
    <3>1. /\ i \in Len(a) + 1 .. Len(a) + Len(b)
          /\ i - Len(a) \in 1..Len(b) /\ Len(a) + (i - Len(a)) = i
        BY <1>1, <2>2
    <3> QED
        BY <1>1, <3>1
  <2> QED
      BY <2>1, <2>2
<1> QED
    BY <1>1, <1>2, SeqEqual

\* The chain of a route of the protected group.
Chain(policy, audited) ==
    <<"guard", "resolve", "roles">>
       \o (IF policy = "none" THEN <<>> ELSE <<"limitTenant", "limitInstance">>)
       \o <<"handle">> \o (IF audited THEN <<"audit">> ELSE <<>>)

GoodChain(c) ==
    /\ c \in Seq(Steps) /\ Len(c) > 0 /\ c[1] = "guard"
    /\ Within(c, GuardSteps) /\ GuardFirst(c)
    /\ Guarded(c, {"handle"}, {"guard"}) /\ Guarded(c, {"handle"}, {"roles"})

LEMMA ChainFacts ==
    ASSUME NEW policy, NEW audited \in BOOLEAN
    PROVE  /\ GoodChain(Chain(policy, audited))
           /\ policy = "none" => Within(Chain(policy, audited), GuardSteps \ LimitSteps)
<1> DEFINE start == <<"guard", "resolve", "roles">>
           limit == <<"guard", "resolve", "roles", "limitTenant", "limitInstance">>
<1>1. ASSUME NEW a \in Seq(Steps)
      PROVE  a \o <<>> = a
    BY ConcatEmptySeq
<1>2. start \o <<"limitTenant", "limitInstance">> = limit
  <2> DEFINE b == <<"limitTenant", "limitInstance">>
  <2>1. start \in Seq(Steps) /\ b \in Seq(Steps) /\ limit \in Seq(Steps)
      BY DEF Steps
  <2>2. /\ Len(limit) = Len(start) + Len(b)
        /\ \A i \in 1..Len(start) : limit[i] = start[i]
        /\ \A i \in 1..Len(b) : limit[Len(start) + i] = b[i]
      OBVIOUS
  <2> HIDE DEF start, limit, b
  <2>3. start \o b = limit
      BY <2>1, <2>2, Concatenation
  <2> QED
      BY <2>3 DEF b
<1>3. start \o <<"handle">> = <<"guard", "resolve", "roles", "handle">>
  <2> DEFINE b == <<"handle">>
             c == <<"guard", "resolve", "roles", "handle">>
  <2>1. start \in Seq(Steps) /\ b \in Seq(Steps) /\ c \in Seq(Steps)
      BY DEF Steps
  <2>2. /\ Len(c) = Len(start) + Len(b)
        /\ \A i \in 1..Len(start) : c[i] = start[i]
        /\ \A i \in 1..Len(b) : c[Len(start) + i] = b[i]
      OBVIOUS
  <2> HIDE DEF start, b, c
  <2>3. start \o b = c
      BY <2>1, <2>2, Concatenation
  <2> QED
      BY <2>3 DEF b, c
<1>4. limit \o <<"handle">> =
          <<"guard", "resolve", "roles", "limitTenant", "limitInstance", "handle">>
  <2> DEFINE b == <<"handle">>
             c == <<"guard", "resolve", "roles", "limitTenant", "limitInstance", "handle">>
  <2>1. limit \in Seq(Steps) /\ b \in Seq(Steps) /\ c \in Seq(Steps)
      BY DEF Steps
  <2>2. /\ Len(c) = Len(limit) + Len(b)
        /\ \A i \in 1..Len(limit) : c[i] = limit[i]
        /\ \A i \in 1..Len(b) : c[Len(limit) + i] = b[i]
      OBVIOUS
  <2> HIDE DEF limit, b, c
  <2>3. limit \o b = c
      BY <2>1, <2>2, Concatenation
  <2> QED
      BY <2>3 DEF b, c
<1>5. <<"guard", "resolve", "roles", "handle">> \o <<"audit">> =
          <<"guard", "resolve", "roles", "handle", "audit">>
  <2> DEFINE a == <<"guard", "resolve", "roles", "handle">>
             b == <<"audit">>
             c == <<"guard", "resolve", "roles", "handle", "audit">>
  <2>1. a \in Seq(Steps) /\ b \in Seq(Steps) /\ c \in Seq(Steps)
      BY DEF Steps
  <2>2. /\ Len(c) = Len(a) + Len(b)
        /\ \A i \in 1..Len(a) : c[i] = a[i]
        /\ \A i \in 1..Len(b) : c[Len(a) + i] = b[i]
      OBVIOUS
  <2> HIDE DEF a, b, c
  <2>3. a \o b = c
      BY <2>1, <2>2, Concatenation
  <2> QED
      BY <2>3 DEF a, b, c
<1>6. <<"guard", "resolve", "roles", "limitTenant", "limitInstance", "handle">> \o <<"audit">> =
          <<"guard", "resolve", "roles", "limitTenant", "limitInstance", "handle", "audit">>
  <2> DEFINE a == <<"guard", "resolve", "roles", "limitTenant", "limitInstance", "handle">>
             b == <<"audit">>
             c == <<"guard", "resolve", "roles", "limitTenant", "limitInstance", "handle", "audit">>
  <2>1. a \in Seq(Steps) /\ b \in Seq(Steps) /\ c \in Seq(Steps)
      BY DEF Steps
  <2>2. /\ Len(c) = Len(a) + Len(b)
        /\ \A i \in 1..Len(a) : c[i] = a[i]
        /\ \A i \in 1..Len(b) : c[Len(a) + i] = b[i]
      OBVIOUS
  <2> HIDE DEF a, b, c
  <2>3. a \o b = c
      BY <2>1, <2>2, Concatenation
  <2> QED
      BY <2>3 DEF a, b, c
<1> DEFINE plain == <<"guard", "resolve", "roles", "handle">>
           logged == <<"guard", "resolve", "roles", "handle", "audit">>
           capped == <<"guard", "resolve", "roles", "limitTenant", "limitInstance", "handle">>
           both == <<"guard", "resolve", "roles", "limitTenant", "limitInstance", "handle", "audit">>
<1>7. /\ GoodChain(plain) /\ GoodChain(logged) /\ GoodChain(capped) /\ GoodChain(both)
  <2> USE DEF GoodChain, Steps, Within, GuardSteps, LimitSteps, GuardFirst, Guarded
  <2>1. GoodChain(plain)
      OBVIOUS
  <2>2. GoodChain(logged)
      OBVIOUS
  <2>3. GoodChain(capped)
      OBVIOUS
  <2>4. GoodChain(both)
      OBVIOUS
  <2> QED
      BY <2>1, <2>2, <2>3, <2>4 DEF GoodChain
<1>8. Within(plain, GuardSteps \ LimitSteps) /\ Within(logged, GuardSteps \ LimitSteps)
    BY DEF Within, GuardSteps, LimitSteps
<1>9. start \in Seq(Steps) /\ plain \in Seq(Steps) /\ capped \in Seq(Steps)
    BY DEF Steps
<1>10. /\ policy = "none" /\ audited => Chain(policy, audited) = logged
       /\ policy = "none" /\ ~audited => Chain(policy, audited) = plain
       /\ policy # "none" /\ audited => Chain(policy, audited) = both
       /\ policy # "none" /\ ~audited => Chain(policy, audited) = capped
  <2>1. start \o <<>> = start /\ plain \o <<>> = plain /\ capped \o <<>> = capped
      BY <1>1, <1>9
  <2> HIDE DEF start, limit, plain, logged, capped, both
  <2>2. /\ start \o <<"limitTenant", "limitInstance">> = limit
        /\ start \o <<"handle">> = plain /\ limit \o <<"handle">> = capped
        /\ plain \o <<"audit">> = logged /\ capped \o <<"audit">> = both
      BY <1>2, <1>3, <1>4, <1>5, <1>6 DEF plain, logged, capped, both
  <2>3. Chain(policy, audited) =
          ((start \o (IF policy = "none" THEN <<>> ELSE <<"limitTenant", "limitInstance">>))
            \o <<"handle">>) \o (IF audited THEN <<"audit">> ELSE <<>>)
      BY DEF Chain, start
  <2> QED
      BY <2>1, <2>2, <2>3
<1> HIDE DEF plain, logged, capped, both
<1> QED
    BY <1>7, <1>8, <1>10

GoodRoute(route) ==
    LET R == Routes[route]
    IN  /\ R.roles \subseteq Roles
        /\ R.policy \in Policies \cup {"none"}
        /\ R.audited \in BOOLEAN
        /\ R.chain \in Seq(Steps) /\ Len(R.chain) > 0
        /\ Within(R.chain, Kind(route))
        /\ R.policy = "none" => Within(R.chain, GuardSteps \ LimitSteps)
        /\ IF route \in Open
             THEN ~R.audited /\ R.chain[1] # "guard" /\ R.policy # "none"
             ELSE GoodChain(R.chain)
        /\ route = "createTenant" => Guarded(R.chain, {"insertUser"}, {"insertTenant"})

LEMMA RouteFacts ==
    ASSUME NEW route \in DOMAIN Routes
    PROVE  GoodRoute(route) /\ route # "none"
<1>1. ASSUME NEW roles \in SUBSET Roles, NEW policy \in Policies \cup {"none"},
             NEW audited \in BOOLEAN, NEW name, name \notin Open,
             Routes[name] = Protected(roles, policy, audited)
      PROVE  GoodRoute(name)
  <2> DEFINE R == Routes[name]
  <2>1. /\ R.roles = roles /\ R.policy = policy /\ R.audited = audited
        /\ R.chain = Chain(policy, audited)
      BY <1>1 DEF Protected, Chain
  <2>2. /\ GoodChain(Chain(policy, audited))
        /\ policy = "none" => Within(Chain(policy, audited), GuardSteps \ LimitSteps)
      BY ChainFacts
  <2>3. Kind(name) = GuardSteps /\ name # "createTenant"
      BY <1>1 DEF Kind, Open
  <2> QED
      BY <1>1, <2>1, <2>2, <2>3 DEF GoodRoute, GoodChain
<1>2. ASSUME NEW chain, NEW name \in Open, Routes[name] = Public(chain),
             chain \in Seq(Steps), Len(chain) > 0, chain[1] # "guard", Within(chain, Kind(name)),
             name = "createTenant" => Guarded(chain, {"insertUser"}, {"insertTenant"})
      PROVE  GoodRoute(name)
  <2> DEFINE R == Routes[name]
  <2>1. /\ R.roles = Roles /\ R.policy = "login" /\ R.audited = FALSE /\ R.chain = chain
      BY <1>2 DEF Public
  <2> QED
      BY <1>2, <2>1 DEF GoodRoute, Policies
<1>3. GoodRoute("login") /\ GoodRoute("refresh") /\ GoodRoute("createTenant")
  <2>1. /\ Routes["login"] = Public(<<"limitIP", "login">>)
        /\ Routes["refresh"] = Public(<<"limitIP", "refresh">>)
        /\ Routes["createTenant"] = Public(<<"platform", "checkSlug", "insertTenant", "insertUser">>)
      BY DEF Routes, LoginRoute, RefreshRoute, TenantRoute
  <2> USE DEF Steps, Within, Kind, Open, TokenSteps, CreateSteps, Guarded
  <2>2. GoodRoute("login")
    <3> DEFINE c == <<"limitIP", "login">>
    <3>1. c \in Seq(Steps) /\ Len(c) > 0 /\ c[1] # "guard" /\ Within(c, Kind("login"))
        OBVIOUS
    <3> HIDE DEF c, Steps, Within, Kind, Guarded
    <3> QED
        BY <1>2, <2>1, <3>1 DEF c
  <2>3. GoodRoute("refresh")
    <3> DEFINE c == <<"limitIP", "refresh">>
    <3>1. c \in Seq(Steps) /\ Len(c) > 0 /\ c[1] # "guard" /\ Within(c, Kind("refresh"))
        OBVIOUS
    <3> HIDE DEF c, Steps, Within, Kind, Guarded
    <3> QED
        BY <1>2, <2>1, <3>1 DEF c
  <2>4. GoodRoute("createTenant")
    <3> DEFINE c == <<"platform", "checkSlug", "insertTenant", "insertUser">>
    <3>1. /\ c \in Seq(Steps) /\ Len(c) > 0 /\ c[1] # "guard" /\ Within(c, Kind("createTenant"))
          /\ Guarded(c, {"insertUser"}, {"insertTenant"})
        OBVIOUS
    <3> HIDE DEF c, Steps, Within, Kind, Guarded
    <3> QED
        BY <1>2, <2>1, <3>1 DEF c
  <2> QED
      BY <2>2, <2>3, <2>4
<1>4. /\ Roles \in SUBSET Roles /\ readRoles \in SUBSET Roles /\ opRoles \in SUBSET Roles
      /\ adminRoles \in SUBSET Roles
    BY DEF Roles, readRoles, opRoles, adminRoles
<1>5. /\ Routes["logout"] = Protected(Roles, "none", TRUE)
      /\ Routes["read"] = Protected(readRoles, "none", FALSE)
      /\ Routes["configure"] = Protected(adminRoles, "none", TRUE)
      /\ Routes["operate"] = Protected(opRoles, "none", TRUE)
      /\ Routes["send"] = Protected(opRoles, "message", TRUE)
      /\ Routes["search"] = Protected(readRoles, "search", FALSE)
      /\ Routes["listJobs"] = Protected(readRoles, "broadcast", FALSE)
      /\ Routes["broadcast"] = Protected(opRoles, "broadcast", TRUE)
      /\ Routes["dispatch"] = Protected(opRoles, "webhook", TRUE)
    BY DEF Routes
<1>6. /\ GoodRoute("logout") /\ GoodRoute("read") /\ GoodRoute("configure")
      /\ GoodRoute("operate") /\ GoodRoute("send") /\ GoodRoute("search")
      /\ GoodRoute("listJobs") /\ GoodRoute("broadcast") /\ GoodRoute("dispatch")
    BY <1>1, <1>4, <1>5 DEF Policies, Open
<1>7. DOMAIN Routes = Open \cup {"logout", "read", "configure", "operate", "send", "search",
                                 "listJobs", "broadcast", "dispatch"}
    BY DEF Routes, Open
<1> QED
    BY <1>3, <1>6, <1>7 DEF Open

-----------------------------------------------------------------------------
(* Steps of a request.                                                     *)

\* The fields of a request that no step of it changes.
SameRequest(x, y) ==
    x.route = y.route /\ x.cred = y.cred /\ x.began = y.began /\ x.had = y.had

\* A request under way, and what Continue, Answer and Abort make of it.
LEMMA Acting ==
    ASSUME Types, NEW r \in Requests, ListInv(r), req[r].todo # <<>>
    PROVE  /\ req[r] \in Request /\ req[r].todo \in Seq(Steps)
           /\ req[r].route \in DOMAIN Routes /\ GoodRoute(req[r].route)
           /\ req[r].route # "none"
           /\ req[r].cred \in Bearer /\ req[r].cred.tenant \in Slugs
           /\ ~req[r].audited
           /\ Head(req[r].todo) \in Kind(req[r].route)
<1>1. /\ req[r] \in Request /\ req[r].todo \in Seq(Steps)
      /\ req[r].route \in {"none"} \cup DOMAIN Routes
      /\ req[r].cred \in Bearer \cup {None} /\ req[r].audited \in BOOLEAN
    BY DEF Types, Request
<1>2. req[r].route # "none" /\ ~req[r].audited
    BY DEF ListInv, NotMade
<1>3. req[r].route \in DOMAIN Routes /\ GoodRoute(req[r].route)
    BY <1>1, <1>2, RouteFacts
<1>4. req[r].cred \in Bearer /\ req[r].cred.tenant \in Slugs
    BY <1>1, <1>2 DEF ListInv, Bearer
<1>5. Head(req[r].todo) \in Kind(req[r].route)
    BY <1>1, <1>2, Rest DEF ListInv
<1> QED
    BY <1>1, <1>2, <1>3, <1>4, <1>5

LEMMA Outcomes ==
    ASSUME Types, NEW r \in Requests, ListInv(r), req[r].todo # <<>>
    PROVE  /\ LET x == Continue(r)
              IN  /\ x \in Request /\ SameRequest(x, req[r])
                  /\ x.todo = Tail(req[r].todo)
                  /\ x.role = req[r].role /\ x.status = req[r].status /\ ~x.audited
           /\ \A status \in Statuses :
                 LET x == Answer(r, status)
                 IN  /\ x \in Request /\ SameRequest(x, req[r])
                     /\ x.todo \in {<<>>, <<"audit">>}
                     /\ x.role = req[r].role /\ x.status = status /\ ~x.audited
           /\ \A status \in Statuses :
                 LET x == Abort(r, status)
                 IN  /\ x \in Request /\ SameRequest(x, req[r])
                     /\ x.todo = <<>>
                     /\ x.role = req[r].role /\ x.status = status /\ ~x.audited
<1>1. /\ req[r] \in Request /\ req[r].todo \in Seq(Steps) /\ ~req[r].audited
      /\ Tail(req[r].todo) \in Seq(Steps)
    BY Acting, Rest
<1>2. <<>> \in Seq(Steps) /\ <<"audit">> \in Seq(Steps)
    BY Ends
<1>3. ASSUME NEW t \in Seq(Steps), NEW status \in Statuses
      PROVE  LET x == [req[r] EXCEPT !.status = status, !.todo = t]
             IN  /\ x \in Request /\ SameRequest(x, req[r]) /\ x.todo = t
                 /\ x.role = req[r].role /\ x.status = status /\ ~x.audited
    BY <1>1 DEF Request, SameRequest
<1>4. ASSUME NEW t \in Seq(Steps)
      PROVE  LET x == [req[r] EXCEPT !.todo = t]
             IN  /\ x \in Request /\ SameRequest(x, req[r]) /\ x.todo = t
                 /\ x.role = req[r].role /\ x.status = req[r].status /\ ~x.audited
    BY <1>1 DEF Request, SameRequest
<1>5. Continue(r) = [req[r] EXCEPT !.todo = Tail(req[r].todo)]
    BY DEF Continue
<1>6. \A status \in Statuses : \E t \in {<<>>, <<"audit">>} :
          Answer(r, status) = [req[r] EXCEPT !.status = status, !.todo = t]
    BY DEF Answer
<1>7. \A status \in Statuses : Abort(r, status) = [req[r] EXCEPT !.status = status, !.todo = <<>>]
    BY DEF Abort
<1>8. /\ Continue(r) \in Request /\ SameRequest(Continue(r), req[r])
      /\ Continue(r).todo = Tail(req[r].todo)
      /\ Continue(r).role = req[r].role /\ Continue(r).status = req[r].status /\ ~Continue(r).audited
    BY <1>1, <1>4, <1>5
<1>9. ASSUME NEW status \in Statuses
      PROVE  LET x == Answer(r, status)
             IN  /\ x \in Request /\ SameRequest(x, req[r])
                 /\ x.todo \in {<<>>, <<"audit">>}
                 /\ x.role = req[r].role /\ x.status = status /\ ~x.audited
  <2>1. PICK t \in {<<>>, <<"audit">>} : Answer(r, status) = [req[r] EXCEPT !.status = status, !.todo = t]
      BY <1>6
  <2>2. t \in Seq(Steps)
      BY <1>2
  <2> DEFINE x == [req[r] EXCEPT !.status = status, !.todo = t]
  <2>3. /\ x \in Request /\ SameRequest(x, req[r]) /\ x.todo = t
        /\ x.role = req[r].role /\ x.status = status /\ ~x.audited
      BY <1>3, <2>2
  <2>4. Answer(r, status) = x
      BY <2>1
  <2> HIDE DEF x
  <2> QED
      BY <2>3, <2>4
<1>10. ASSUME NEW status \in Statuses
      PROVE  LET x == Abort(r, status)
             IN  /\ x \in Request /\ SameRequest(x, req[r])
                 /\ x.todo = <<>>
                 /\ x.role = req[r].role /\ x.status = status /\ ~x.audited
  <2> DEFINE x == [req[r] EXCEPT !.status = status, !.todo = <<>>]
  <2>1. /\ x \in Request /\ SameRequest(x, req[r]) /\ x.todo = <<>>
        /\ x.role = req[r].role /\ x.status = status /\ ~x.audited
      BY <1>2, <1>3
  <2>2. Abort(r, status) = x
      BY <1>7
  <2> HIDE DEF x
  <2> QED
      BY <2>1, <2>2
<1> QED
    BY <1>8, <1>9, <1>10

Served == {"ok", "failed", "panic"}
Over == {<<>>, <<"audit">>}

\* The request r becomes x: what holds of every step of a request.
Goes(r, x) ==
    LET first == Head(req[r].todo)
    IN  /\ x \in Request /\ SameRequest(x, req[r])
        /\ req' = [req EXCEPT ![r] = x]
        /\ \/ x.todo = Tail(req[r].todo) \/ x.todo = <<>>
           \/ x.todo = <<"audit">> /\ first \in GuardSteps
        /\ x.role # req[r].role => first = "guard"
        /\ x.todo \notin Over /\ first = "guard" =>
              x.role = Authenticate(req[r].cred) /\ x.role # None
        /\ x.todo \notin Over /\ first = "roles" => Permitted(r)
        /\ x.status # req[r].status /\ x.status \in Served =>
              first \in {"handle", "login", "refresh", "insertTenant", "insertUser"}
        /\ x.status # req[r].status /\ x.status = "ok" => first # "insertTenant"
        /\ x.audited => x.todo = <<>> /\ first = "audit"

\* Every step of a request is such a step.
LEMMA Going ==
    ASSUME Types, NEW r \in Requests, ListInv(r), Middleware(r) \/ Handle(r)
    PROVE  /\ Running /\ req[r].todo # <<>>
           /\ \E x : Goes(r, x)
<1> DEFINE first == Head(req[r].todo)
<1>1. /\ Running /\ req[r].todo # <<>>
    BY DEF Middleware, Handle, Guard, Resolve, RequireRoles, PlatformGuard, LimitByIP,
           LimitTenant, LimitInstance, Login, Refresh, CheckSlug, InsertTenant, InsertUser,
           Record, At
<1>2. /\ Continue(r) \in Request /\ SameRequest(Continue(r), req[r])
      /\ Continue(r).todo = Tail(req[r].todo)
      /\ Continue(r).role = req[r].role /\ Continue(r).status = req[r].status
      /\ ~Continue(r).audited
    BY <1>1, Outcomes
<1>3. ASSUME NEW status \in Statuses
      PROVE  /\ Answer(r, status) \in Request /\ SameRequest(Answer(r, status), req[r])
             /\ Answer(r, status).todo \in Over
             /\ Answer(r, status).role = req[r].role /\ Answer(r, status).status = status
             /\ ~Answer(r, status).audited
    BY <1>1, Outcomes DEF Over
<1>4. ASSUME NEW status \in Statuses
      PROVE  /\ Abort(r, status) \in Request /\ SameRequest(Abort(r, status), req[r])
             /\ Abort(r, status).todo = <<>>
             /\ Abort(r, status).role = req[r].role /\ Abort(r, status).status = status
             /\ ~Abort(r, status).audited
    BY <1>1, Outcomes
<1>5. <<>> \in Over
    BY DEF Over
<1>6. ASSUME Progress(r, Continue(r)), first \notin {"guard", "roles"}
      PROVE  Goes(r, Continue(r))
    BY <1>2, <1>6 DEF Goes, Progress
<1>7. ASSUME NEW status \in Statuses, Progress(r, Abort(r, status)),
             status \in Served => first \in {"handle", "login", "refresh", "insertTenant", "insertUser"},
             status = "ok" => first # "insertTenant"
      PROVE  Goes(r, Abort(r, status))
    BY <1>4, <1>5, <1>7 DEF Goes, Progress
<1>8. ASSUME NEW status \in Statuses, Progress(r, Answer(r, status)), first \in GuardSteps,
             status \in Served => first = "handle"
      PROVE  Goes(r, Answer(r, status))
  <2> DEFINE x == Answer(r, status)
  <2>1. /\ x \in Request /\ SameRequest(x, req[r]) /\ x.todo \in Over
        /\ x.role = req[r].role /\ x.status = status /\ ~x.audited
        /\ req' = [req EXCEPT ![r] = x]
      BY <1>3, <1>8 DEF Progress
  <2>2. x.todo = <<>> \/ x.todo = <<"audit">>
      BY <2>1 DEF Over
  <2> HIDE DEF x
  <2>3. Goes(r, x)
      BY <1>8, <2>1, <2>2 DEF Goes, Served
  <2> QED
      BY <2>3 DEF x
<1>9. {"ok", "failed", "panic", "unauthorized", "forbidden", "limited", "invalid", "conflict"}
          \subseteq Statuses
    BY DEF Statuses
<1>10. CASE Guard(r)
  <2> DEFINE role == Authenticate(req[r].cred)
             x == [Continue(r) EXCEPT !.role = role]
  <2>1. first = "guard"
      BY <1>10 DEF Guard, At
  <2>2. CASE role # None /\ Progress(r, x)
    <3>1. role \in Roles
      <4>1. req[r].cred.tenant \in Slugs
          BY <1>1, Acting
      <4> QED
          BY <2>2, <4>1 DEF Authenticate, Types, Roles
    <3> HIDE DEF role
    <3>2. /\ x \in Request /\ SameRequest(x, req[r]) /\ x.role = role
          /\ x.todo = Tail(req[r].todo) /\ x.status = req[r].status /\ ~x.audited
        BY <1>2, <3>1 DEF Request, SameRequest
    <3>3. req' = [req EXCEPT ![r] = x]
        BY <2>2 DEF Progress
    <3> HIDE DEF x
    <3> QED
        BY <1>1, <2>1, <2>2, <3>2, <3>3 DEF Goes, role
  <2>3. CASE Progress(r, Abort(r, "unauthorized"))
      BY <1>1, <1>7, <1>9, <2>3 DEF Served
  <2> QED
      BY <1>10, <2>2, <2>3 DEF Guard
<1>11. CASE Resolve(r)
  <2>1. first = "resolve"
      BY <1>11 DEF Resolve, At
  <2> QED
      BY <1>1, <1>6, <1>7, <1>9, <1>11, <2>1 DEF Resolve, Served
<1>12. CASE RequireRoles(r)
  <2>1. first = "roles" /\ "roles" \in GuardSteps
      BY <1>12 DEF RequireRoles, At, GuardSteps
  <2>2. CASE Permitted(r) /\ Progress(r, Continue(r))
      BY <1>1, <1>2, <2>1, <2>2 DEF Goes, Progress
  <2>3. CASE Progress(r, Answer(r, "forbidden"))
      BY <1>1, <1>8, <1>9, <2>1, <2>3 DEF Served
  <2> QED
      BY <1>12, <2>2, <2>3 DEF RequireRoles, Permitted
<1>13. CASE PlatformGuard(r)
  <2>1. first = "platform"
      BY <1>13 DEF PlatformGuard, At
  <2> QED
      BY <1>1, <1>6, <1>7, <1>9, <1>13, <2>1 DEF PlatformGuard, Served
<1>14. CASE LimitByIP(r)
  <2>1. first = "limitIP"
      BY <1>14 DEF LimitByIP, At
  <2>2. Progress(r, Continue(r)) \/ Progress(r, Abort(r, "limited"))
      BY <1>14 DEF LimitByIP, Allow
  <2> QED
      BY <1>1, <1>6, <1>7, <1>9, <2>1, <2>2 DEF Served
<1>15. CASE LimitTenant(r) \/ LimitInstance(r)
  <2>1. first \in LimitSteps /\ first \in GuardSteps /\ first \notin {"guard", "roles"}
      BY <1>15 DEF LimitTenant, LimitInstance, At, LimitSteps, GuardSteps
  <2>2. \/ Progress(r, Continue(r)) \/ Progress(r, Answer(r, "limited"))
        \/ Progress(r, Answer(r, "invalid"))
      BY <1>15 DEF LimitTenant, LimitInstance, Allow
  <2> QED
      BY <1>1, <1>6, <1>8, <1>9, <2>1, <2>2 DEF Served
<1>16. CASE Handle(r)
  <2>1. first = "handle" /\ first \in GuardSteps
      BY <1>16 DEF Handle, At, GuardSteps
  <2>2. \/ Progress(r, Answer(r, "ok")) \/ Progress(r, Answer(r, "failed"))
        \/ Progress(r, Abort(r, "panic"))
      BY <1>16 DEF Handle
  <2> QED
      BY <1>1, <1>7, <1>8, <1>9, <2>1, <2>2
<1>17. CASE Login(r) \/ Refresh(r)
  <2>1. first \in {"login", "refresh"}
      BY <1>17 DEF Login, Refresh, At
  <2>2. Progress(r, Abort(r, "ok")) \/ Progress(r, Abort(r, "unauthorized"))
      BY <1>17 DEF Login, Refresh, issueTokens
  <2> QED
      BY <1>1, <1>7, <1>9, <2>1, <2>2 DEF Served
<1>18. CASE CheckSlug(r)
  <2>1. first = "checkSlug"
      BY <1>18 DEF CheckSlug, At
  <2> QED
      BY <1>1, <1>6, <1>7, <1>9, <1>18, <2>1 DEF CheckSlug, Served
<1>19. CASE InsertTenant(r) \/ InsertUser(r)
  <2>1. first \in {"insertTenant", "insertUser"}
      BY <1>19 DEF InsertTenant, InsertUser, At
  <2>2. \/ Progress(r, Continue(r)) \/ Progress(r, Abort(r, "failed"))
        \/ first = "insertUser" /\ Progress(r, Abort(r, "ok"))
      BY <1>19 DEF InsertTenant, InsertUser, At
  <2> QED
      BY <1>1, <1>6, <1>7, <1>9, <2>1, <2>2
<1>20. CASE Record(r)
  <2> DEFINE x == [Abort(r, req[r].status) EXCEPT !.audited = TRUE]
  <2>1. first = "audit" /\ req' = [req EXCEPT ![r] = x]
      BY <1>20 DEF Record, At, Progress
  <2>2. req[r].status \in Statuses
      BY DEF Types, Request
  <2>3. /\ x \in Request /\ SameRequest(x, req[r]) /\ x.todo = <<>>
        /\ x.role = req[r].role /\ x.status = req[r].status
      BY <1>4, <2>2, ZenonT(60) DEF Request, SameRequest
  <2> HIDE DEF x
  <2>4. Goes(r, x)
      BY <1>5, <2>1, <2>3 DEF Goes
  <2> QED
      BY <1>1, <2>4
<1> QED
    BY <1>10, <1>11, <1>12, <1>13, <1>14, <1>15, <1>16, <1>17, <1>18, <1>19, <1>20
       DEF Middleware

\* The request after the step, and the others.
LEMMA Gone ==
    ASSUME Types, NEW r \in Requests, NEW x, Goes(r, x)
    PROVE  /\ req' \in [Requests -> Request]
           /\ req'[r] = x
           /\ \A q \in Requests \ {r} : req'[q] = req[q]
BY DEF Goes, Types

\* The list of a request stays one of its route.
LEMMA ListKeeps ==
    ASSUME Types, NEW r \in Requests, ListInv(r), req[r].todo # <<>>, NEW x, Goes(r, x),
           now' = now
    PROVE  ListInv(r)'
<1> DEFINE t == req[r].todo
           route == req[r].route
<1>1. req'[r] = x
    BY Gone
<1>2. /\ t \in Seq(Steps) /\ route # "none" /\ Head(t) \in Kind(route) /\ GoodRoute(route)
    BY Acting
<1>3. x.route = route /\ x.cred = req[r].cred /\ x.began = req[r].began
    BY DEF Goes, SameRequest
<1>4. x.audited => x.todo = <<>>
    BY DEF Goes
<1>5. /\ Within(x.todo, Kind(route))
      /\ Routes[route].policy = "none" => Within(x.todo, GuardSteps \ LimitSteps)
  <2>1. CASE x.todo = Tail(t)
    <3>1. \A S : Within(t, S) => Within(Tail(t), S)
        BY <1>2, Rest
    <3> QED
        BY <1>2, <2>1, <3>1 DEF ListInv
  <2>2. CASE x.todo = <<>>
      BY <2>2, Ends
  <2>3. CASE x.todo = <<"audit">> /\ Head(t) \in GuardSteps
    <3>1. Kind(route) = GuardSteps
        BY <1>2, <2>3 DEF Kind, GuardSteps, LimitSteps, CreateSteps, TokenSteps
    <3>2. Within(<<"audit">>, GuardSteps \ LimitSteps)
        BY Ends
    <3>3. Within(<<"audit">>, GuardSteps)
        BY <3>2 DEF Within
    <3> QED
        BY <2>3, <3>1, <3>2, <3>3
  <2> QED
      BY <2>1, <2>2, <2>3 DEF Goes
<1> QED
    BY <1>1, <1>2, <1>3, <1>4, <1>5 DEF ListInv

\* Nobody comes to the handler but through the guard and RequireRoles.
LEMMA GuardKeeps ==
    ASSUME Types, NEW r \in Requests, ListInv(r), BearerInv(r), GuardInv(r),
           req[r].todo # <<>>, NEW x, Goes(r, x)
    PROVE  GuardInv(r)'
<1> DEFINE t == req[r].todo
           route == req[r].route
<1>1. req'[r] = x /\ SameRequest(x, req[r])
    BY Gone DEF Goes
<1> SUFFICES ASSUME route \notin Open \cup {"none"},
                    req[r].cred.type \notin {"apiKey", "instanceToken"}
             PROVE  /\ GuardFirst(x.todo)
                    /\ x.todo # <<>> => x.todo[1] # "guard"
                    /\ Guarded(x.todo, {"handle"}, {"guard"}) \/ Admitted(r)'
                    /\ Guarded(x.todo, {"handle"}, {"roles"}) \/ Permitted(r)'
                    /\ x.status \in Served => Admitted(r)' /\ Permitted(r)'
    BY <1>1 DEF GuardInv, SameRequest, Served
<1>2. /\ t \in Seq(Steps) /\ Head(t) \in GuardSteps
      /\ req[r].cred \in Bearer
  <2>1. Head(t) \in Kind(route)
      BY Acting
  <2> QED
      BY <2>1, Acting DEF Kind, Open
<1>3. /\ GuardFirst(t)
      /\ t[1] = "guard" => req[r].status = "running" /\ Guarded(t, {"handle"}, {"roles"})
      /\ Guarded(t, {"handle"}, {"guard"}) \/ Admitted(r)
      /\ Guarded(t, {"handle"}, {"roles"}) \/ Permitted(r)
      /\ req[r].status \in Served => Admitted(r) /\ Permitted(r)
    BY DEF GuardInv, Served
<1>4. /\ Head(t) = t[1] /\ Tail(t) \in Seq(Steps)
      /\ Within(Tail(t), Steps \ {"guard"})
      /\ \A S, T : Guarded(t, S, T) =>
            Head(t) \notin S /\ (Head(t) \notin T => Guarded(Tail(t), S, T))
    BY <1>2, <1>3, Rest
<1>5. x.todo = Tail(t) \/ x.todo \in Over
    BY DEF Goes, Over
<1>6. GuardFirst(x.todo) /\ (x.todo # <<>> => x.todo[1] # "guard")
  <2>1. CASE x.todo \in Over
      BY <2>1, Ends DEF Over
  <2>2. CASE x.todo = Tail(t)
    <3>1. Tail(t) # <<>> => 1 \in 1..Len(Tail(t))
        BY <1>4, EmptySeq, LenProperties
    <3> QED
        BY <1>4, <2>2, <3>1 DEF GuardFirst, Within
  <2> QED
      BY <1>5, <2>1, <2>2
<1>7. x.role = req[r].role => (Admitted(r) => Admitted(r)') /\ (Permitted(r) => Permitted(r)')
    BY <1>1 DEF Admitted, Permitted, SameRequest
<1>8. /\ Guarded(x.todo, {"handle"}, {"guard"}) \/ Admitted(r)'
      /\ Guarded(x.todo, {"handle"}, {"roles"}) \/ Permitted(r)'
  <2>1. CASE x.todo \in Over
      BY <2>1, Ends DEF Over
  <2>2. CASE x.todo \notin Over /\ Head(t) = "guard"
    <3>1. x.todo = Tail(t) /\ Guarded(Tail(t), {"handle"}, {"roles"})
        BY <1>3, <1>4, <1>5, <2>2
    <3>2. x.role = Authenticate(req[r].cred) /\ x.role # None
        BY <2>2 DEF Goes
    <3>3. /\ parseClaims(req[r].cred, "access")
          /\ x.role = users[req[r].cred.tenant]
        BY <3>2 DEF Authenticate
    <3>4. /\ req[r].cred.type = "access" /\ now <= req[r].cred.expiry
          /\ x.role \in req[r].had
        BY <3>3 DEF parseClaims, BearerInv
    <3>5. req[r].cred.expiry >= req[r].began
      <4>1. req[r].began <= now /\ req[r].began \in Nat /\ now \in Nat /\ req[r].cred.expiry \in Nat
          BY <1>2, GatewayAssumption DEF ListInv, Types, Request, Bearer
      <4> QED
          BY <3>4, <4>1
    <3>6. Admitted(r)'
        BY <1>1, <3>4, <3>5 DEF Admitted, SameRequest
    <3> QED
        BY <3>1, <3>6
  <2>3. CASE x.todo \notin Over /\ Head(t) # "guard"
    <3>1. x.todo = Tail(t) /\ x.role = req[r].role
        BY <1>5, <2>3 DEF Goes
    <3>2. Guarded(Tail(t), {"handle"}, {"guard"}) \/ Admitted(r)
        BY <1>3, <1>4, <2>3
    <3>3. Guarded(Tail(t), {"handle"}, {"roles"}) \/ Permitted(r)
      <4>1. CASE Head(t) = "roles"
          BY <2>3, <4>1 DEF Goes
      <4>2. CASE Head(t) # "roles"
          BY <1>3, <1>4, <4>2
      <4> QED
          BY <4>1, <4>2
    <3> QED
        BY <1>7, <3>1, <3>2, <3>3
  <2> QED
      BY <2>1, <2>2, <2>3
<1>9. x.status \in Served => Admitted(r)' /\ Permitted(r)'
  <2>1. CASE x.status \in Served /\ x.status = req[r].status
    <3>1. Head(t) # "guard"
        BY <1>3, <1>4, <2>1 DEF Served
    <3>2. x.role = req[r].role
        BY <3>1 DEF Goes
    <3> QED
        BY <1>3, <1>7, <2>1, <3>2
  <2>2. CASE x.status \in Served /\ x.status # req[r].status
    <3>1. Head(t) = "handle"
        BY <1>2, <2>2 DEF Goes, GuardSteps, LimitSteps
    <3>2. x.role = req[r].role
        BY <3>1 DEF Goes
    <3>3. Admitted(r) /\ Permitted(r)
        BY <1>3, <1>4, <3>1
    <3> QED
        BY <1>7, <3>2, <3>3
  <2> QED
      BY <2>1, <2>2
<1> QED
    BY <1>6, <1>8, <1>9

\* Whether a request creates a tenant or not, while the rows stay.
LEMMA CreateKeeps ==
    ASSUME Types, NEW r \in Requests, ListInv(r), CreateInv(r), req[r].todo # <<>>,
           NEW x, Goes(r, x), UNCHANGED <<tenants, users>>,
           Head(req[r].todo) = "insertTenant" => x.todo = <<>>,
           Head(req[r].todo) # "insertUser" \/ x.status # "ok"
    PROVE  CreateInv(r)'
<1> DEFINE t == req[r].todo
<1>1. req'[r] = x /\ SameRequest(x, req[r])
    BY Gone DEF Goes
<1> SUFFICES ASSUME req[r].route = "createTenant"
             PROVE  LET slug == req[r].cred.tenant
                    IN  /\ \/ Guarded(x.todo, {"insertUser"}, {"insertTenant"})
                           \/ tenants[slug] = r /\ users[slug] = None
                        /\ x.status = "ok" => tenants[slug] = r /\ users[slug] # None
    BY <1>1 DEF CreateInv, SameRequest
<1>2. t \in Seq(Steps) /\ Head(t) \in CreateSteps
  <2>1. t \in Seq(Steps) /\ Head(t) \in Kind(req[r].route)
      BY Acting
  <2> QED
      BY <2>1 DEF Kind
<1>3. x.status = "ok" => req[r].status = "ok"
    BY <1>2 DEF Goes, CreateSteps, Served
<1>4. \/ Guarded(x.todo, {"insertUser"}, {"insertTenant"})
      \/ tenants[req[r].cred.tenant] = r /\ users[req[r].cred.tenant] = None
  <2>1. CASE x.todo \in Over
      BY <2>1, Ends DEF Over
  <2>2. CASE x.todo \notin Over
    <3>1. x.todo = Tail(t) /\ Head(t) # "insertTenant"
        BY <2>2 DEF Goes, Over
    <3> QED
        BY <1>2, <3>1, Rest DEF CreateInv
  <2> QED
      BY <2>1, <2>2
<1> QED
    BY <1>3, <1>4 DEF CreateInv

LEMMA Nones ==
    /\ None \notin Requests /\ None \notin Roles /\ None # "seed"
    /\ None \notin Bearer /\ None \notin Entry
BY GatewayAssumption, NoneAssumption DEF Roles, Bearer, CredentialTypes, Entry

\* Requests and rows about which nothing changes.
SameFor(q) ==
    LET slug == req[q].cred.tenant
    IN  /\ req'[q] = req[q]
        /\ tenants[slug] = q => tenants'[slug] = q
        /\ tenants[slug] = q \/ users[slug] # None => users'[slug] = users[slug]

LEMMA SameKeeps ==
    ASSUME NEW q \in Requests, ListInv(q), CreateInv(q), BearerInv(q), GuardInv(q), SameFor(q),
           now \in Nat, now' \in Nat, now <= now', req[q].began \in Nat
    PROVE  ListInv(q)' /\ CreateInv(q)' /\ BearerInv(q)' /\ GuardInv(q)'
<1>1. ListInv(q)'
    BY DEF ListInv, SameFor
<1>2. CreateInv(q)'
    BY DEF CreateInv, SameFor
<1>3. BearerInv(q)'
    BY DEF BearerInv, SameFor
<1>4. GuardInv(q)'
    BY DEF GuardInv, SameFor, Admitted, Permitted
<1> QED
    BY <1>1, <1>2, <1>3, <1>4

\* A step of one request.
LEMMA RequestKeeps ==
    ASSUME Types, RequestInv, Running, NEW r \in Requests, req[r].todo # <<>>, NEW x, Goes(r, x),
           now' = now, phase' = phase,
           \A q \in Requests \ {r} : SameFor(q),
           RowsInv', CreateInv(r)', BearerInv(r)'
    PROVE  RequestInv'
<1>1. ListInv(r) /\ BearerInv(r) /\ GuardInv(r)
    BY DEF RequestInv
<1>2. ListInv(r)' /\ GuardInv(r)'
    BY <1>1, ListKeeps, GuardKeeps
<1>3. ASSUME NEW q \in Requests, q # r
      PROVE  ListInv(q)' /\ CreateInv(q)' /\ BearerInv(q)' /\ GuardInv(q)'
  <2>1. now \in Nat /\ now <= now /\ req[q].began \in Nat
      BY GatewayAssumption DEF Types, Request
  <2> QED
      BY <1>3, <2>1, SameKeeps DEF RequestInv
<1>4. phase' # "boot"
    BY DEF Running
<1> QED
    BY <1>2, <1>3, <1>4 DEF RequestInv

\* Steps of a request that leave the rows of tenants and users alone.
LEMMA QuietKeeps ==
    ASSUME Types, RequestInv, NEW r \in Requests, Middleware(r) \/ Handle(r),
           ~InsertUser(r), ~InsertTenant(r)
    PROVE  RequestInv'
<1>1. ListInv(r) /\ CreateInv(r) /\ BearerInv(r) /\ RowsInv
    BY DEF RequestInv
<1>2. Running /\ req[r].todo # <<>>
    BY <1>1, Going
<1>3. PICK x : Goes(r, x)
    BY <1>1, Going
<1>4. req'[r] = x /\ SameRequest(x, req[r]) /\ \A q \in Requests \ {r} : req'[q] = req[q]
    BY <1>3, Gone DEF Goes
<1>5. now' = now /\ phase' = phase /\ tenants' = tenants /\ users' = users
    BY DEF Middleware, Handle, Guard, Resolve, RequireRoles, PlatformGuard, LimitByIP,
           LimitTenant, LimitInstance, Login, Refresh, CheckSlug, Record, processVars, dataVars
<1>6. Head(req[r].todo) \notin {"insertTenant", "insertUser"}
    BY DEF Middleware, Handle, Guard, Resolve, RequireRoles, PlatformGuard, LimitByIP,
           LimitTenant, LimitInstance, Login, Refresh, CheckSlug, Record, At
<1>7. RowsInv'
  <2>1. CASE issued' = issued
      BY <1>1, <1>5, <2>1 DEF RowsInv
  <2>2. CASE issued' # issued
    <3>1. /\ issued' = issued \cup GeneratePair(req[r].cred.tenant)
          /\ users[req[r].cred.tenant] # None
        BY <2>2 DEF Middleware, Handle, Guard, Resolve, RequireRoles, PlatformGuard, LimitByIP,
               LimitTenant, LimitInstance, Login, Refresh, CheckSlug, Record, dataVars, issueTokens
    <3>2. \A t \in GeneratePair(req[r].cred.tenant) : t.tenant = req[r].cred.tenant
        BY DEF GeneratePair, Token
    <3> QED
        BY <1>1, <1>5, <3>1, <3>2 DEF RowsInv
  <2> QED
      BY <2>1, <2>2
<1>8. BearerInv(r)'
    BY <1>1, <1>4, <1>5 DEF BearerInv, SameRequest
<1>9. CreateInv(r)'
    BY <1>1, <1>2, <1>3, <1>5, <1>6, CreateKeeps
<1>10. \A q \in Requests \ {r} : SameFor(q)
    BY <1>4, <1>5 DEF SameFor
<1> QED
    BY <1>2, <1>3, <1>5, <1>7, <1>8, <1>9, <1>10, RequestKeeps

\* Of those who found a slug free, one gets it.
LEMMA InsertTenantKeeps ==
    ASSUME Types, RequestInv, NEW r \in Requests, InsertTenant(r)
    PROVE  RequestInv'
<1> DEFINE slug == req[r].cred.tenant
<1>1. ListInv(r) /\ CreateInv(r) /\ BearerInv(r) /\ RowsInv
    BY DEF RequestInv
<1>2. Running /\ req[r].todo # <<>> /\ Head(req[r].todo) = "insertTenant"
    BY DEF InsertTenant, At
<1>3. now' = now /\ phase' = phase /\ users' = users /\ issued' = issued
    BY DEF InsertTenant, processVars
<1>4. /\ slug \in Slugs /\ tenants \in [Slugs -> {None, "seed"} \cup Requests]
      /\ req[r].route = "createTenant" /\ req[r].status \in Statuses
  <2>1. slug \in Slugs /\ Head(req[r].todo) \in Kind(req[r].route) /\ req[r] \in Request
      BY <1>1, <1>2, Acting
  <2> QED
      BY <1>2, <2>1 DEF Types, Kind, TokenSteps, GuardSteps, LimitSteps, Request
<1>5. PICK x : Goes(r, x)
    BY <1>1, Going DEF Middleware
<1>6. req'[r] = x /\ SameRequest(x, req[r]) /\ \A q \in Requests \ {r} : req'[q] = req[q]
    BY <1>5, Gone DEF Goes
<1>7. BearerInv(r)'
    BY <1>1, <1>3, <1>6 DEF BearerInv, SameRequest
<1>8. CASE tenants' = tenants /\ Progress(r, Abort(r, "failed"))
  <2>1. x.todo = <<>> /\ x.status = "failed"
    <3>1. req'[r] = Abort(r, "failed")
        BY <1>8 DEF Progress, Types
    <3>2. Abort(r, "failed").todo = <<>> /\ Abort(r, "failed").status = "failed"
        BY <1>1, <1>2, Outcomes DEF Statuses
    <3> QED
        BY <1>6, <3>1, <3>2
  <2>2. CreateInv(r)'
      BY <1>1, <1>2, <1>3, <1>5, <1>8, <2>1, CreateKeeps
  <2>3. RowsInv' /\ \A q \in Requests \ {r} : SameFor(q)
      BY <1>1, <1>3, <1>6, <1>8 DEF RowsInv, SameFor
  <2> QED
      BY <1>2, <1>3, <1>5, <1>7, <2>2, <2>3, RequestKeeps
<1>9. CASE /\ tenants[slug] = None /\ tenants' = [tenants EXCEPT ![slug] = r]
           /\ Progress(r, Continue(r))
  <2>1. /\ tenants'[slug] = r /\ \A s \in Slugs \ {slug} : tenants'[s] = tenants[s]
        /\ users[slug] = None
      BY <1>1, <1>4, <1>9 DEF RowsInv
  <2>2. x.status = req[r].status
    <3>1. req'[r] = Continue(r)
        BY <1>9 DEF Progress, Types
    <3>2. Continue(r).status = req[r].status
        BY <1>1, <1>2, Outcomes
    <3> QED
        BY <1>6, <3>1, <3>2
  <2>3. req[r].status # "ok"
      BY <1>1, <1>4, <1>9, Nones DEF CreateInv
  <2>4. CreateInv(r)'
      BY <1>3, <1>6, <2>1, <2>2, <2>3 DEF CreateInv, SameRequest
  <2>5. RowsInv'
      BY <1>1, <1>3, <1>4, <2>1, Nones DEF RowsInv
  <2>6. ASSUME NEW q \in Requests, q # r
        PROVE  SameFor(q)
    <3>1. tenants[slug] # q
        BY <1>9, Nones
    <3>2. \A s : tenants[s] = q => tenants'[s] = q
        BY <1>4, <1>9, <3>1
    <3> QED
        BY <1>3, <1>6, <2>6, <3>2 DEF SameFor
  <2> QED
      BY <1>2, <1>3, <1>5, <1>7, <2>4, <2>5, <2>6, RequestKeeps
<1> QED
    BY <1>8, <1>9 DEF InsertTenant

\* And then its user.
LEMMA InsertUserKeeps ==
    ASSUME Types, RequestInv, NEW r \in Requests, InsertUser(r)
    PROVE  RequestInv'
<1> DEFINE slug == req[r].cred.tenant
<1>1. ListInv(r) /\ CreateInv(r) /\ BearerInv(r) /\ RowsInv
    BY DEF RequestInv
<1>2. Running /\ req[r].todo # <<>> /\ Head(req[r].todo) = "insertUser"
    BY DEF InsertUser, At
<1>3. now' = now /\ phase' = phase /\ tenants' = tenants /\ issued' = issued
    BY DEF InsertUser, processVars
<1>4. /\ slug \in Slugs /\ users \in [Slugs -> {None} \cup Roles]
      /\ req[r].route = "createTenant" /\ req[r].todo \in Seq(Steps)
  <2>1. slug \in Slugs /\ Head(req[r].todo) \in Kind(req[r].route) /\ req[r] \in Request
      BY <1>1, <1>2, Acting
  <2> QED
      BY <1>2, <2>1 DEF Types, Kind, TokenSteps, GuardSteps, LimitSteps, Request
<1>5. PICK x : Goes(r, x)
    BY <1>1, Going DEF Middleware
<1>6. req'[r] = x /\ SameRequest(x, req[r]) /\ \A q \in Requests \ {r} : req'[q] = req[q]
    BY <1>5, Gone DEF Goes
<1>7. tenants[slug] = r /\ users[slug] = None
  <2>1. ~Guarded(req[r].todo, {"insertUser"}, {"insertTenant"})
      BY <1>2, <1>4, Rest
  <2> QED
      BY <1>1, <1>4, <2>1 DEF CreateInv
<1>8. req[r].cred.type \notin {"access", "refresh"}
    BY <1>1, <1>4, <1>7 DEF BearerInv
<1>9. BearerInv(r)'
    BY <1>6, <1>8 DEF BearerInv, SameRequest
<1>10. CASE users' = users /\ Progress(r, Abort(r, "failed"))
  <2>1. x.status = "failed"
    <3>1. req'[r] = Abort(r, "failed")
        BY <1>10 DEF Progress, Types
    <3>2. Abort(r, "failed").status = "failed"
        BY <1>1, <1>2, Outcomes DEF Statuses
    <3> QED
        BY <1>6, <3>1, <3>2
  <2>2. CreateInv(r)'
      BY <1>1, <1>2, <1>3, <1>5, <1>10, <2>1, CreateKeeps
  <2>3. RowsInv' /\ \A q \in Requests \ {r} : SameFor(q)
      BY <1>1, <1>3, <1>6, <1>10 DEF RowsInv, SameFor
  <2> QED
      BY <1>2, <1>3, <1>5, <1>9, <2>2, <2>3, RequestKeeps
<1>11. CASE users' = [users EXCEPT ![slug] = "admin"] /\ Progress(r, Abort(r, "ok"))
  <2>1. /\ users'[slug] = "admin" /\ \A s \in Slugs \ {slug} : users'[s] = users[s]
        /\ "admin" # None
      BY <1>4, <1>11, Nones DEF Roles
  <2>2. x.todo = <<>>
    <3>1. req'[r] = Abort(r, "ok")
        BY <1>11 DEF Progress, Types
    <3>2. Abort(r, "ok").todo = <<>>
        BY <1>1, <1>2, Outcomes DEF Statuses
    <3> QED
        BY <1>6, <3>1, <3>2
  <2>3. CreateInv(r)'
    <3>1. Guarded(x.todo, {"insertUser"}, {"insertTenant"})
        BY <2>2, Ends
    <3> QED
        BY <1>3, <1>6, <1>7, <2>1, <3>1 DEF CreateInv, SameRequest
  <2>4. RowsInv'
    <3>1. \A s \in Slugs : users[s] # None => users'[s] # None
        BY <2>1
    <3>2. \A t \in issued : t.tenant \in Slugs
        BY DEF Types, Tokens
    <3> QED
        BY <1>1, <1>3, <1>7, <2>1, <3>1, <3>2, Nones DEF RowsInv
  <2>5. ASSUME NEW q \in Requests, q # r
        PROVE  SameFor(q)
    <3>1. \A s : s # slug => users'[s] = users[s]
        BY <1>4, <1>11
    <3> QED
        BY <1>3, <1>6, <1>7, <2>5, <3>1 DEF SameFor
  <2> QED
      BY <1>2, <1>3, <1>5, <1>9, <2>3, <2>4, <2>5, RequestKeeps
<1> QED
    BY <1>10, <1>11 DEF InsertUser

\* A role is changed in the database: the requests of the user know of it.
LEMMA EditedRequest ==
    ASSUME Types, NEW s \in Slugs, NEW role \in Roles, EditUser(s, role), NEW q \in Requests
    PROVE  LET x == req[q]
               y == req'[q]
           IN  /\ y \in Request
               /\ y.route = x.route /\ y.todo = x.todo /\ y.cred = x.cred /\ y.role = x.role
               /\ y.began = x.began /\ y.status = x.status /\ y.audited = x.audited
               /\ x.had \subseteq y.had
               /\ IF x.cred # None /\ x.cred.tenant = s THEN role \in y.had ELSE y = x
<1> DEFINE x == req[q]
           y == [x EXCEPT !.had = @ \cup {role}]
<1>1. x \in Request
    BY DEF Types
<1>2. /\ y.route = x.route /\ y.todo = x.todo /\ y.cred = x.cred /\ y.role = x.role
      /\ y.began = x.began /\ y.status = x.status /\ y.audited = x.audited
      /\ y.had = x.had \cup {role} /\ y \in Request
    BY <1>1 DEF Request
<1>3. req'[q] = IF x.cred # None /\ x.cred.tenant = s THEN y ELSE x
    BY DEF EditUser
<1> HIDE DEF x, y
<1>4. CASE req'[q] = x /\ ~(x.cred # None /\ x.cred.tenant = s)
    BY <1>1, <1>4 DEF x
<1>5. CASE req'[q] = y /\ x.cred # None /\ x.cred.tenant = s
  <2>1. x.had \subseteq y.had /\ role \in y.had
      BY <1>2
  <2> QED
      BY <1>2, <1>5, <2>1 DEF x
<1> QED
    BY <1>3, <1>4, <1>5

LEMMA EditUserKeeps ==
    ASSUME Types, RequestInv, NEW s \in Slugs, NEW role \in Roles, EditUser(s, role)
    PROVE  RequestInv'
<1>1. /\ now' = now /\ phase' = phase /\ tenants' = tenants /\ issued' = issued
      /\ users[s] # None /\ phase # "boot"
    BY DEF EditUser, processVars, Running
<1>2. users'[s] = role /\ \A z \in Slugs \ {s} : users'[z] = users[z]
    BY DEF EditUser, Types
<1>3. \A z \in Slugs : users[z] # None => users'[z] # None
    BY <1>2, Nones
<1>4. RowsInv'
  <2>1. \A t \in issued : t.tenant \in Slugs
      BY DEF Types, Tokens
  <2> QED
      BY <1>1, <1>2, <1>3, <2>1 DEF RequestInv, RowsInv
<1>5. ASSUME NEW q \in Requests
      PROVE  ListInv(q)' /\ CreateInv(q)' /\ BearerInv(q)' /\ GuardInv(q)'
  <2> DEFINE x == req[q]
             y == req'[q]
  <2>1. /\ y.route = x.route /\ y.todo = x.todo /\ y.cred = x.cred /\ y.role = x.role
        /\ y.began = x.began /\ y.status = x.status /\ y.audited = x.audited
        /\ x.had \subseteq y.had
        /\ IF x.cred # None /\ x.cred.tenant = s THEN role \in y.had ELSE y = x
      BY EditedRequest
  <2>2. ListInv(q) /\ CreateInv(q) /\ BearerInv(q) /\ GuardInv(q)
      BY DEF RequestInv
  <2>3. x.route # "none" => x.cred # None /\ x.cred.tenant \in Slugs
      BY <2>2 DEF ListInv, Types, Request, Bearer
  <2>4. ListInv(q)'
    <3>1. NotMade.cred = None
        BY DEF NotMade
    <3> QED
        BY <1>1, <2>1, <2>2, <3>1 DEF ListInv
  <2>5. CreateInv(q)'
      BY <1>1, <1>2, <1>3, <2>1, <2>2, <2>3 DEF CreateInv
  <2>6. BearerInv(q)'
      BY <1>2, <1>3, <2>1, <2>2, <2>3 DEF BearerInv
  <2>7. GuardInv(q)'
      BY <2>1, <2>2 DEF GuardInv, Admitted, Permitted
  <2> QED
      BY <2>4, <2>5, <2>6, <2>7
<1> QED
    BY <1>1, <1>4, <1>5 DEF RequestInv

\* What a request may present.
LEMMA Presenting ==
    ASSUME Types, NEW cred \in Credentials
    PROVE  /\ cred \in Bearer
           /\ cred.type \in {"access", "refresh"} => cred \in issued
<1>1. issued \subseteq Tokens /\ MaxTime \in Nat /\ AccessTTL \in Nat /\ RefreshTTL \in Nat
    BY GatewayAssumption DEF Types
<1>2. CASE cred \in issued
    BY <1>1, <1>2 DEF Tokens, Bearer, CredentialTypes
<1>3. CASE cred \notin issued
  <2>1. PICK k \in {"apiKey", "instanceToken", "good", "bad"}, z \in Slugs : cred = Presented(k, z)
      BY <1>3 DEF Credentials
  <2> QED
      BY <2>1 DEF Presented, Token, Bearer, CredentialTypes, Roles
<1> QED
    BY <1>2, <1>3

\* A request comes.
LEMMA BegunRequest ==
    ASSUME Types, NEW r \in Requests, NEW route \in DOMAIN Routes, NEW cred \in Credentials,
           Begin(r, route, cred)
    PROVE  /\ LET y == req'[r]
              IN  /\ y \in Request
                  /\ y.route = route /\ y.todo = Routes[route].chain /\ y.cred = cred
                  /\ y.role = None /\ y.began = now /\ y.had = {users[cred.tenant]}
                  /\ y.status = "running" /\ y.audited = FALSE
           /\ \A q \in Requests \ {r} : req'[q] = req[q]
           /\ req[r].route = "none"
<1> DEFINE chain == Routes[route].chain
           had == {users[cred.tenant]}
           y == [route |-> route, todo |-> chain, cred |-> cred, role |-> None,
                 began |-> now, had |-> had, status |-> "running", audited |-> FALSE]
<1>1. req' = [req EXCEPT ![r] = y] /\ req[r].route = "none"
    BY DEF Begin
<1>2. cred \in Bearer /\ cred.tenant \in Slugs
    BY Presenting DEF Bearer
<1>3. chain \in Seq(Steps)
    BY RouteFacts DEF GoodRoute
<1>4. had \in SUBSET (Roles \cup {None}) /\ now \in Nat
    BY <1>2, GatewayAssumption DEF Types
<1> HIDE DEF chain, had
<1>5. /\ y.route = route /\ y.todo = chain /\ y.cred = cred
      /\ y.role = None /\ y.began = now /\ y.had = had
      /\ y.status = "running" /\ y.audited = FALSE
    OBVIOUS
<1>6. y \in Request
    BY <1>2, <1>3, <1>4 DEF Request, Statuses
<1> HIDE DEF y
<1>7. req'[r] = y /\ \A q \in Requests \ {r} : req'[q] = req[q]
    BY <1>1 DEF Types
<1> QED
    BY <1>1, <1>5, <1>6, <1>7 DEF chain, had

LEMMA BeginKeeps ==
    ASSUME Types, RequestInv, NEW r \in Requests, NEW route \in DOMAIN Routes,
           NEW cred \in Credentials, Begin(r, route, cred)
    PROVE  RequestInv'
<1>1. /\ now' = now /\ phase' = phase /\ tenants' = tenants /\ users' = users /\ issued' = issued
      /\ phase # "boot"
    BY DEF Begin, processVars, dataVars
<1> DEFINE y == req'[r]
<1>2. /\ y \in Request
      /\ y.route = route /\ y.todo = Routes[route].chain /\ y.cred = cred
      /\ y.role = None /\ y.began = now /\ y.had = {users[cred.tenant]}
      /\ y.status = "running" /\ y.audited = FALSE
      /\ \A q \in Requests \ {r} : req'[q] = req[q]
    BY BegunRequest, ZenonT(60)
<1>3. /\ cred \in Bearer /\ cred.tenant \in Slugs
      /\ cred.type \in {"access", "refresh"} => cred \in issued
    BY Presenting DEF Bearer
<1>4. GoodRoute(route) /\ route # "none"
    BY RouteFacts
<1> HIDE DEF y
<1>5. RowsInv /\ now \in Nat
    BY GatewayAssumption DEF RequestInv, Types
<1>6. ListInv(r)'
  <2>1. cred # None /\ now <= now
      BY <1>3, <1>5, Nones
  <2> QED
      BY <1>1, <1>2, <1>4, <2>1 DEF ListInv, GoodRoute, y
<1>7. CreateInv(r)'
    BY <1>2, <1>4 DEF CreateInv, GoodRoute, y
<1>8. BearerInv(r)'
    BY <1>1, <1>2, <1>3, <1>5 DEF BearerInv, RowsInv, y
<1>9. GuardInv(r)'
    BY <1>2, <1>4 DEF GuardInv, GoodRoute, GoodChain, y
<1>10. ASSUME NEW q \in Requests, q # r
       PROVE  ListInv(q)' /\ CreateInv(q)' /\ BearerInv(q)' /\ GuardInv(q)'
  <2>1. req[q].began \in Nat /\ now <= now
      BY <1>5 DEF Types, Request
  <2>2. SameFor(q)
      BY <1>1, <1>2, <1>10 DEF SameFor
  <2> QED
      BY <1>1, <1>5, <2>1, <2>2, SameKeeps DEF RequestInv
<1>11. RowsInv'
    BY <1>1, <1>5 DEF RowsInv
<1> QED
    BY <1>1, <1>6, <1>7, <1>8, <1>9, <1>10, <1>11 DEF RequestInv

\* The process starts: nobody has come yet.
LEMMA BootKeeps ==
    ASSUME Types, RequestInv, Boot
    PROVE  RequestInv'
<1>1. /\ phase' # "boot" /\ req' = req /\ now' = now /\ issued' = issued /\ now \in Nat
      /\ \A r \in Requests : req[r] = NotMade
      /\ \A s \in Slugs : tenants[s] = None /\ users[s] = None
    BY GatewayAssumption DEF Boot, RequestInv, Types
<1>2. \A r \in Requests : ListInv(r)' /\ CreateInv(r)' /\ BearerInv(r)' /\ GuardInv(r)'
  <2>1. /\ NotMade.route = "none" /\ NotMade.began = 0 /\ NotMade.audited = FALSE
        /\ "none" # "createTenant" /\ 0 <= now
      BY <1>1 DEF NotMade
  <2> QED
      BY <1>1, <2>1 DEF ListInv, CreateInv, BearerInv, GuardInv
<1>3. RowsInv'
  <2>1. \A t \in issued : FALSE
    <3>1. \A t \in issued : t.tenant \in Slugs
        BY DEF Types, Tokens
    <3> QED
        BY <1>1, <3>1 DEF RequestInv, RowsInv
  <2>2. CASE runDefaultSeed
    <3>1. \A s \in Slugs : users'[s] # None => s = DefaultSlug
        BY <1>1, <2>2, GatewayAssumption DEF runDefaultSeed, Types
    <3>2. tenants'[DefaultSlug] = "seed"
        BY <1>1, <2>2, GatewayAssumption DEF runDefaultSeed, Types
    <3> QED
        BY <1>1, <2>1, <3>1, <3>2, Nones DEF RowsInv
  <2>3. CASE UNCHANGED <<tenants, users>>
      BY <1>1, <2>1, <2>3 DEF RowsInv
  <2> QED
      BY <2>2, <2>3 DEF Boot
<1> QED
    BY <1>1, <1>2, <1>3 DEF RequestInv

\* Steps of the writer, of the shutdown and of the clock.
Aside == \/ WriterTake \/ WriterDone \/ Write
         \/ Signal \/ Deadline \/ Shutdown \/ Stop \/ Exit \/ Tick
         \/ UNCHANGED vars

LEMMA AsideFacts ==
    ASSUME Types, Aside
    PROVE  /\ req' = req /\ UNCHANGED dataVars /\ UNCHANGED limitVars
           /\ now' \in {now, now + 1} /\ now' \in 0..MaxTime
           /\ phase' \in Phases /\ deadline' \in BOOLEAN
           /\ phase' # phase => phase' # "boot" /\ phase # "boot"
           /\ now \in Nat /\ now' \in Nat /\ now <= now'
<1>1. now \in 0..MaxTime /\ MaxTime \in Nat /\ phase \in Phases /\ deadline \in BOOLEAN
    BY GatewayAssumption DEF Types
<1>2. /\ req' = req /\ UNCHANGED dataVars /\ UNCHANGED limitVars
      /\ now' = now \/ (now' = now + 1 /\ now < MaxTime)
    BY DEF Aside, WriterTake, WriterDone, Write, Signal, Deadline, Shutdown, Stop, Exit, Tick, vars
<1>3. /\ deadline' \in BOOLEAN
      /\ phase' = phase \/ (phase # "boot" /\ phase' \in Phases \ {"boot"})
    BY <1>1 DEF Aside, WriterTake, WriterDone, Write, Signal, Deadline, Shutdown, Stop, Exit, Tick,
                vars, processVars, Phases
<1> QED
    BY <1>1, <1>2, <1>3

LEMMA AsideKeeps ==
    ASSUME Types, RequestInv, Aside
    PROVE  RequestInv'
<1>1. /\ req' = req /\ UNCHANGED dataVars
      /\ phase' = "boot" => phase = "boot"
      /\ now \in Nat /\ now' \in Nat /\ now <= now'
    BY AsideFacts
<1>2. ASSUME NEW q \in Requests
      PROVE  ListInv(q)' /\ CreateInv(q)' /\ BearerInv(q)' /\ GuardInv(q)'
  <2>1. req[q].began \in Nat
      BY DEF Types, Request
  <2>2. SameFor(q)
      BY <1>1 DEF SameFor, dataVars
  <2> QED
      BY <1>1, <2>1, <2>2, SameKeeps DEF RequestInv
<1>3. RowsInv'
    BY <1>1 DEF RequestInv, RowsInv, dataVars
<1> QED
    BY <1>1, <1>2, <1>3 DEF RequestInv, dataVars

\* Every step.
LEMMA StepCases ==
    ASSUME [Next]_vars
    PROVE  \/ Boot
           \/ \E r \in Requests, route \in DOMAIN Routes, cred \in Credentials : Begin(r, route, cred)
           \/ \E r \in Requests : Middleware(r) \/ Handle(r)
           \/ \E s \in Slugs, role \in Roles : EditUser(s, role)
           \/ Aside
BY DEF Next, Aside

LEMMA RequestStep ==
    ASSUME Types, RequestInv, [Next]_vars
    PROVE  RequestInv'
<1>1. CASE Boot
    BY <1>1, BootKeeps
<1>2. CASE \E r \in Requests, route \in DOMAIN Routes, cred \in Credentials : Begin(r, route, cred)
    BY <1>2, BeginKeeps
<1>3. CASE \E r \in Requests : Middleware(r) \/ Handle(r)
    BY <1>3, QuietKeeps, InsertTenantKeeps, InsertUserKeeps
<1>4. CASE \E s \in Slugs, role \in Roles : EditUser(s, role)
    BY <1>4, EditUserKeeps
<1>5. CASE Aside
    BY <1>5, AsideKeeps
<1> QED
    BY <1>1, <1>2, <1>3, <1>4, <1>5, StepCases

-----------------------------------------------------------------------------
(* The limiter: every step.                                                *)

\* A request that the limiter looks at has a key of its own.
LEMMA Limited ==
    ASSUME Types, NEW r \in Requests, ListInv(r), LimitByIP(r) \/ LimitTenant(r) \/ LimitInstance(r)
    PROVE  \/ UNCHANGED limitVars
           \/ \E key \in Keys : \E refused : Allow(r, key, refused)
<1>1. CASE LimitByIP(r)
  <2>1. Key("login", "ip", DefaultSlug) \in Keys
      BY GatewayAssumption DEF Key, Keys, Policies
  <2> QED
      BY <1>1, <2>1 DEF LimitByIP
<1>2. CASE LimitTenant(r) \/ LimitInstance(r)
  <2>1. req[r].todo # <<>> /\ Head(req[r].todo) \in LimitSteps
      BY <1>2 DEF LimitTenant, LimitInstance, At, LimitSteps
  <2>2. /\ req[r].todo \in Seq(Steps) /\ GoodRoute(req[r].route) /\ req[r].route # "none"
        /\ req[r].cred.tenant \in Slugs
      BY <2>1, Acting
  <2>3. PolicyOf(r) \in Policies
    <3>1. ~Within(req[r].todo, GuardSteps \ LimitSteps)
        BY <2>1, <2>2, Rest
    <3>2. PolicyOf(r) # "none"
        BY <2>2, <3>1 DEF ListInv, PolicyOf
    <3> QED
        BY <2>2, <3>2 DEF GoodRoute, PolicyOf
  <2>4. /\ Key(PolicyOf(r), "tenant", req[r].cred.tenant) \in Keys
        /\ Key(PolicyOf(r), "instance", req[r].cred.tenant) \in Keys
      BY <2>2, <2>3 DEF Key, Keys
  <2> QED
      BY <1>2, <2>4 DEF LimitTenant, LimitInstance
<1> QED
    BY <1>1, <1>2

LEMMA LimitStep ==
    ASSUME Types, RequestInv, LimitInv, [Next]_vars
    PROVE  LimitInv'
<1>1. CASE \/ Boot
           \/ \E r \in Requests, route \in DOMAIN Routes, cred \in Credentials : Begin(r, route, cred)
           \/ \E s \in Slugs, role \in Roles : EditUser(s, role)
  <2>1. UNCHANGED limitVars /\ now' = now
      BY <1>1 DEF Boot, Begin, EditUser
  <2> QED
      BY <2>1, LimitRest
<1>2. CASE \E r \in Requests : Middleware(r) \/ Handle(r)
  <2>1. PICK r \in Requests : Middleware(r) \/ Handle(r)
      BY <1>2
  <2>2. now' = now
      BY <2>1 DEF Middleware, Handle, Guard, Resolve, RequireRoles, PlatformGuard, LimitByIP,
             LimitTenant, LimitInstance, Login, Refresh, CheckSlug, InsertTenant, InsertUser, Record
  <2>3. \/ UNCHANGED limitVars
        \/ LimitByIP(r) \/ LimitTenant(r) \/ LimitInstance(r)
      BY <2>1 DEF Middleware, Handle, Guard, Resolve, RequireRoles, PlatformGuard,
             Login, Refresh, CheckSlug, InsertTenant, InsertUser, Record
  <2>4. \/ UNCHANGED limitVars
        \/ \E key \in Keys : \E refused : Allow(r, key, refused)
      BY <2>3, Limited DEF RequestInv
  <2> QED
      BY <2>2, <2>4, AllowKeeps, LimitRest
<1>3. CASE Aside
    BY <1>3, AsideFacts, LimitRest
<1> QED
    BY <1>1, <1>2, <1>3, StepCases

-----------------------------------------------------------------------------
(* Types: every step.                                                      *)

LimitTypes == limits \in [Keys -> Entry \cup {None}] /\ passed \subseteq Pass
AuditTypes ==
    /\ queue \in Seq(Requests) /\ Len(queue) <= QueueSize
    /\ writer \in [state : {"select", "drain", "ended"}, entry : Requests \cup {None}]
    /\ written \in Seq(Requests) /\ reported \subseteq Requests
DataTypes ==
    /\ tenants \in [Slugs -> {None, "seed"} \cup Requests]
    /\ users \in [Slugs -> {None} \cup Roles]
    /\ issued \subseteq Tokens

LEMMA AllowTypes ==
    ASSUME Types, NEW r \in Requests, NEW key \in Keys, NEW refused, Allow(r, key, refused)
    PROVE  LimitTypes'
<1>1. now \in Nat /\ Window \in Nat /\ Limit \in Nat /\ LimitTypes
    BY GatewayAssumption DEF Types, LimitTypes
<1>2. CASE Limit = 0
    BY <1>1, <1>2 DEF Allow, LimitTypes, limitVars
<1>3. CASE Limit # 0
  <2>1. pruneExpired \in [Keys -> Entry \cup {None}]
      BY <1>1 DEF pruneExpired, LimitTypes
  <2>2. Count(key) \in Entry
    <3>1. CASE pruneExpired[key] = None
        BY <1>1, <3>1 DEF Count, Entry
    <3>2. CASE pruneExpired[key] # None
      <4> DEFINE e == pruneExpired[key]
      <4>1. e \in Entry /\ Count(key) = [e EXCEPT !.count = @ + 1]
          BY <2>1, <3>2 DEF Count
      <4> HIDE DEF e
      <4> QED
          BY <4>1 DEF Entry
    <3> QED
        BY <3>1, <3>2
  <2>3. limits' \in [Keys -> Entry \cup {None}]
    <3>1. limits' = [pruneExpired EXCEPT ![key] = Count(key)]
        BY <1>3 DEF Allow
    <3> QED
        BY <2>1, <2>2, <3>1
  <2>4. passed' \subseteq Pass
    <3>1. [key |-> key, req |-> r, at |-> now] \in Pass
        BY <1>1 DEF Pass
    <3> QED
        BY <1>1, <1>3, <3>1 DEF Allow, LimitTypes
  <2> QED
      BY <2>3, <2>4 DEF LimitTypes
<1> QED
    BY <1>2, <1>3

\* The steps of a request.
LEMMA RequestTypes ==
    ASSUME Types, RequestInv, NEW r \in Requests, Middleware(r) \/ Handle(r)
    PROVE  Types'
<1>1. ListInv(r)
    BY DEF RequestInv
<1>2. req' \in [Requests -> Request]
  <2>1. PICK x : Goes(r, x)
      BY <1>1, Going
  <2> QED
      BY <2>1, Gone
<1>3. now' = now /\ phase' = phase /\ deadline' = deadline
    BY DEF Middleware, Handle, Guard, Resolve, RequireRoles, PlatformGuard, LimitByIP,
           LimitTenant, LimitInstance, Login, Refresh, CheckSlug, InsertTenant, InsertUser, Record,
           processVars
<1>4. LimitTypes'
  <2>1. \/ UNCHANGED limitVars
        \/ LimitByIP(r) \/ LimitTenant(r) \/ LimitInstance(r)
      BY DEF Middleware, Handle, Guard, Resolve, RequireRoles, PlatformGuard,
             Login, Refresh, CheckSlug, InsertTenant, InsertUser, Record
  <2>2. \/ UNCHANGED limitVars
        \/ \E key \in Keys : \E refused : Allow(r, key, refused)
      BY <1>1, <2>1, Limited
  <2>3. CASE UNCHANGED limitVars
      BY <2>3 DEF Types, LimitTypes, limitVars
  <2> QED
      BY <2>2, <2>3, AllowTypes
<1>5. AuditTypes'
  <2>1. CASE UNCHANGED auditVars
      BY <2>1 DEF Types, AuditTypes, auditVars
  <2>2. CASE Record(r)
    <3> DEFINE longer == Append(queue, r)
    <3>1. /\ queue \in Seq(Requests) /\ Len(queue) \in Nat /\ QueueSize \in Nat
          /\ Len(queue) <= QueueSize
        BY GatewayAssumption DEF Types
    <3>2. longer \in Seq(Requests) /\ Len(longer) = Len(queue) + 1
        BY <3>1, AppendProperties
    <3>3. /\ writer' = writer /\ written' = written
          /\ \/ Len(queue) < QueueSize /\ queue' = longer /\ reported' = reported
             \/ queue' = queue /\ reported' = reported \cup {r}
        BY <2>2 DEF Record
    <3> HIDE DEF longer
    <3>4. queue' \in Seq(Requests) /\ Len(queue') <= QueueSize
        BY <3>1, <3>2, <3>3
    <3> QED
        BY <3>3, <3>4 DEF Types, AuditTypes
  <2> QED
      BY <2>1, <2>2 DEF Middleware, Handle, Guard, Resolve, RequireRoles, PlatformGuard, LimitByIP,
             LimitTenant, LimitInstance, Login, Refresh, CheckSlug, InsertTenant, InsertUser
<1>6. DataTypes'
  <2>1. req[r].todo # <<>>
      BY <1>1, Going
  <2>2. req[r].cred.tenant \in Slugs
      BY <1>1, <2>1, Acting
  <2>3. CASE UNCHANGED dataVars
      BY <2>3 DEF Types, DataTypes, dataVars
  <2>4. CASE InsertTenant(r)
      BY <2>2, <2>4 DEF Types, DataTypes, InsertTenant
  <2>5. CASE InsertUser(r)
      BY <2>2, <2>5 DEF Types, DataTypes, InsertUser, Roles
  <2>6. CASE Login(r) \/ Refresh(r)
    <3> DEFINE slug == req[r].cred.tenant
    <3>1. UNCHANGED <<tenants, users>>
        BY <2>6 DEF Login, Refresh
    <3>2. CASE issued' = issued
        BY <3>1, <3>2 DEF Types, DataTypes
    <3>3. CASE issued' = issued \cup GeneratePair(slug) /\ users[slug] # None
      <4>1. users[slug] \in Roles
          BY <2>2, <3>3 DEF Types
      <4>2. /\ now \in Nat /\ now <= MaxTime /\ MaxTime \in Nat
            /\ AccessTTL \in Nat /\ RefreshTTL \in Nat
          BY GatewayAssumption DEF Types
      <4>3. GeneratePair(slug) \subseteq Tokens
          BY <2>2, <4>1, <4>2 DEF GeneratePair, Token, Tokens
      <4> QED
          BY <3>1, <3>3, <4>3 DEF Types, DataTypes
    <3> QED
        BY <2>6, <3>2, <3>3 DEF Login, Refresh, issueTokens
  <2> QED
      BY <2>3, <2>4, <2>5, <2>6 DEF Middleware, Handle, Guard, Resolve, RequireRoles, PlatformGuard,
             LimitByIP, LimitTenant, LimitInstance, CheckSlug, Record
<1>7. now' \in 0..MaxTime /\ phase' \in Phases /\ deadline' \in BOOLEAN
    BY <1>3 DEF Types
<1> QED
    BY <1>2, <1>4, <1>5, <1>6, <1>7 DEF Types, LimitTypes, AuditTypes, DataTypes

\* The steps of the writer.
LEMMA WriterTypes ==
    ASSUME Types, Aside
    PROVE  AuditTypes'
<1> DEFINE W == [state : {"select", "drain", "ended"}, entry : Requests \cup {None}]
<1>1. /\ queue \in Seq(Requests) /\ Len(queue) \in Nat /\ Len(queue) <= QueueSize /\ QueueSize \in Nat
      /\ writer \in W /\ written \in Seq(Requests) /\ reported \subseteq Requests
    BY GatewayAssumption DEF Types
<1>2. CASE WriterTake
  <2>1. /\ queue # <<>> /\ writer' = [writer EXCEPT !.entry = Head(queue)] /\ queue' = Tail(queue)
        /\ written' = written /\ reported' = reported
      BY <1>2 DEF WriterTake
  <2>2. Head(queue) \in Requests /\ Tail(queue) \in Seq(Requests) /\ Len(Tail(queue)) = Len(queue) - 1
      BY <1>1, <2>1, HeadTailProperties
  <2> QED
      BY <1>1, <2>1, <2>2 DEF AuditTypes
<1>3. CASE WriterDone
    BY <1>1, <1>3 DEF WriterDone, AuditTypes
<1>4. CASE Write
  <2>1. writer.entry \in Requests /\ queue' = queue
      BY <1>1, <1>4 DEF Write
  <2>2. Append(written, writer.entry) \in Seq(Requests)
      BY <1>1, <2>1, AppendProperties
  <2>3. writer' \in W
      BY <1>1, <1>4 DEF Write
  <2> QED
      BY <1>1, <1>4, <2>1, <2>2, <2>3 DEF Write, AuditTypes
<1>5. CASE UNCHANGED auditVars
    BY <1>5 DEF Types, AuditTypes, auditVars
<1> QED
    BY <1>2, <1>3, <1>4, <1>5
       DEF Aside, Signal, Deadline, Shutdown, Stop, Exit, Tick, vars

LEMMA TypesStep ==
    ASSUME Types, RequestInv, [Next]_vars
    PROVE  Types'
<1>1. CASE Boot
  <2>1. /\ now' = now /\ deadline' = deadline /\ req' = req /\ phase' \in Phases
        /\ UNCHANGED auditVars /\ UNCHANGED limitVars /\ issued' = issued
      BY <1>1 DEF Boot, Phases
  <2>2. DataTypes'
    <3>1. CASE runDefaultSeed
        BY <2>1, <3>1, GatewayAssumption DEF Types, DataTypes, runDefaultSeed, Roles
    <3>2. CASE UNCHANGED <<tenants, users>>
        BY <2>1, <3>2 DEF Types, DataTypes
    <3> QED
        BY <1>1, <3>1, <3>2 DEF Boot
  <2> QED
      BY <2>1, <2>2 DEF Types, DataTypes, auditVars, limitVars
<1>2. CASE \E r \in Requests, route \in DOMAIN Routes, cred \in Credentials : Begin(r, route, cred)
  <2>1. PICK r \in Requests, route \in DOMAIN Routes, cred \in Credentials : Begin(r, route, cred)
      BY <1>2
  <2>2. req' \in [Requests -> Request]
    <3>1. req'[r] \in Request /\ \A q \in Requests \ {r} : req'[q] = req[q]
        BY <2>1, BegunRequest
    <3>2. \E y : req' = [req EXCEPT ![r] = y]
        BY <2>1 DEF Begin
    <3> QED
        BY <3>1, <3>2 DEF Types
  <2> QED
      BY <2>1, <2>2 DEF Begin, Types, processVars, auditVars, limitVars, dataVars
<1>3. CASE \E r \in Requests : Middleware(r) \/ Handle(r)
    BY <1>3, RequestTypes
<1>4. CASE \E s \in Slugs, role \in Roles : EditUser(s, role)
  <2>1. PICK s \in Slugs, role \in Roles : EditUser(s, role)
      BY <1>4
  <2>2. req' \in [Requests -> Request]
    <3>1. \A q \in Requests : req'[q] \in Request
        BY <2>1, EditedRequest
    <3>2. \E f : req' = [q \in Requests |-> f[q]]
      <4> DEFINE f == [q \in Requests |->
                         IF req[q].cred # None /\ req[q].cred.tenant = s
                           THEN [req[q] EXCEPT !.had = @ \cup {role}] ELSE req[q]]
      <4>1. req' = f
          BY <2>1 DEF EditUser
      <4> QED
          BY <4>1
    <3> QED
        BY <3>1, <3>2
  <2>3. users' \in [Slugs -> {None} \cup Roles]
      BY <2>1 DEF EditUser, Types
  <2> QED
      BY <2>1, <2>2, <2>3 DEF EditUser, Types, processVars, auditVars, limitVars
<1>5. CASE Aside
  <2>1. /\ req' = req /\ UNCHANGED dataVars /\ UNCHANGED limitVars
        /\ now' \in 0..MaxTime /\ phase' \in Phases /\ deadline' \in BOOLEAN
      BY <1>5, AsideFacts
  <2>2. AuditTypes'
      BY <1>5, WriterTypes
  <2> QED
      BY <2>1, <2>2 DEF Types, AuditTypes, dataVars, limitVars
<1> QED
    BY <1>1, <1>2, <1>3, <1>4, <1>5, StepCases

-----------------------------------------------------------------------------
(* The audit log: every step.                                              *)

\* Lists that grow at the end and shrink at the head.
LEMMA Appended ==
    ASSUME NEW s \in Seq(Requests), NEW e \in Requests
    PROVE  /\ \A x : In(Append(s, e), x) <=> (In(s, x) \/ x = e)
           /\ Once(s) /\ ~In(s, e) => Once(Append(s, e))
<1> DEFINE t == Append(s, e)
           n == Len(s)
<1>1. n \in Nat /\ Len(t) = n + 1 /\ t[n + 1] = e /\ \A i \in 1..n : t[i] = s[i]
    BY AppendProperties
<1>2. \A i \in 1..Len(t) : i \in 1..n \/ i = n + 1
    BY <1>1
<1>3. \A i \in 1..n : i \in 1..Len(t)
    BY <1>1
<1>4. n + 1 \in 1..Len(t)
    BY <1>1
<1> HIDE DEF n, t
<1>5. ASSUME NEW x
      PROVE  In(t, x) <=> (In(s, x) \/ x = e)
    BY <1>1, <1>2, <1>3, <1>4 DEF In, n
<1>6. ASSUME Once(s), ~In(s, e)
      PROVE  Once(t)
    BY <1>1, <1>2, <1>6 DEF In, Once, n
<1> QED
    BY <1>5, <1>6 DEF t

LEMMA Taken ==
    ASSUME NEW s \in Seq(Requests), s # <<>>, Once(s)
    PROVE  /\ Head(s) \in Requests /\ Once(Tail(s)) /\ ~In(Tail(s), Head(s))
           /\ \A x : In(s, x) <=> (In(Tail(s), x) \/ x = Head(s))
<1> DEFINE t == Tail(s)
           n == Len(t)
<1>1. /\ Head(s) = s[1] /\ Head(s) \in Requests /\ t \in Seq(Requests)
      /\ n \in Nat /\ Len(s) = n + 1 /\ \A i \in 1..n : t[i] = s[i + 1]
  <2>1. Head(s) = s[1] /\ Head(s) \in Requests
      BY HeadTailProperties, EmptySeq, LenProperties, ElementOfSeq
  <2>2. t \in Seq(Requests) /\ Len(t) = Len(s) - 1 /\ \A i \in 1..Len(t) : t[i] = s[i + 1]
      BY HeadTailProperties
  <2>3. Len(s) \in Nat /\ n \in Nat
      BY <2>2, LenProperties
  <2> QED
      BY <2>1, <2>2, <2>3
<1> HIDE DEF t, n
<1>2. \A i \in 1..Len(s) : i = 1 \/ (i - 1 \in 1..n /\ (i - 1) + 1 = i)
    BY <1>1
<1>3. 1 \in 1..Len(s) /\ \A i \in 1..n : i + 1 \in 1..Len(s) /\ i + 1 # 1
    BY <1>1
<1>4. ASSUME NEW x
      PROVE  In(s, x) <=> (In(t, x) \/ x = Head(s))
  <2>1. ASSUME In(s, x)
        PROVE  In(t, x) \/ x = Head(s)
    <3>1. PICK i \in 1..Len(s) : s[i] = x
        BY <2>1 DEF In
    <3>2. i # 1 => t[i - 1] = x /\ i - 1 \in 1..n
        BY <1>1, <1>2, <3>1
    <3> QED
        BY <1>1, <3>1, <3>2 DEF In, n
  <2>2. ASSUME In(t, x)
        PROVE  In(s, x)
      BY <1>1, <1>3, <2>2 DEF In, n
  <2>3. x = Head(s) => In(s, x)
      BY <1>1, <1>3 DEF In
  <2> QED
      BY <2>1, <2>2, <2>3
<1>5. Once(t)
  <2> SUFFICES ASSUME NEW i \in 1..n, NEW j \in 1..n, t[i] = t[j]
               PROVE  i = j
      BY DEF Once, n
  <2>1. s[i + 1] = s[j + 1] /\ i + 1 \in 1..Len(s) /\ j + 1 \in 1..Len(s)
      BY <1>1, <1>3
  <2>2. i + 1 = j + 1
      BY <2>1 DEF Once
  <2> QED
      BY <2>2
<1>6. ~In(t, Head(s))
    BY <1>1, <1>3 DEF In, Once, n
<1> QED
    BY <1>1, <1>4, <1>5, <1>6 DEF t

\* An entry is recorded: it was nowhere.
LEMMA RecordKeeps ==
    ASSUME Types, RequestInv, AuditInv, NEW r \in Requests, Record(r)
    PROVE  AuditInv'
<1>1. ListInv(r) /\ Middleware(r) /\ queue \in Seq(Requests)
    BY DEF RequestInv, Middleware, Types
<1>2. Running /\ req[r].todo # <<>> /\ ~req[r].audited
    BY <1>1, Going, Acting
<1>3. /\ phase' = phase /\ deadline' = deadline /\ writer' = writer /\ written' = written
      /\ \/ queue' = Append(queue, r) /\ reported' = reported
         \/ queue' = queue /\ reported' = reported \cup {r}
    BY DEF Record, processVars
<1>4. req'[r].audited /\ \A q \in Requests \ {r} : req'[q] = req[q]
  <2> DEFINE x == [Abort(r, req[r].status) EXCEPT !.audited = TRUE]
  <2>1. req' = [req EXCEPT ![r] = x]
      BY DEF Record, Progress
  <2>2. x.audited = TRUE
    <3>1. Abort(r, req[r].status) \in Request
        BY <1>1, <1>2, Outcomes DEF Types, Request
    <3> QED
        BY <3>1 DEF Request
  <2> HIDE DEF x
  <2> QED
      BY <2>1, <2>2 DEF Types
<1>5. ~In(queue, r) /\ writer.entry # r /\ ~In(written, r) /\ r \notin reported
    BY <1>2 DEF AuditInv, PlaceInv
<1>6. /\ \A x : In(Append(queue, r), x) <=> (In(queue, x) \/ x = r)
      /\ Once(Append(queue, r))
    BY <1>1, <1>5, Appended DEF AuditInv
<1>7. Once(queue')
    BY <1>3, <1>6 DEF AuditInv
<1>8. ASSUME NEW q \in Requests
      PROVE  PlaceInv(q)'
  <2>1. PlaceInv(q)
      BY DEF AuditInv
  <2>2. CASE q = r
      BY <1>3, <1>4, <1>5, <1>6, <2>2 DEF PlaceInv
  <2>3. CASE q # r
      BY <1>3, <1>4, <1>6, <2>1, <2>3 DEF PlaceInv
  <2> QED
      BY <2>2, <2>3
<1>9. phase \in {"up", "closing"} \/ deadline
    BY <1>2 DEF AuditInv, ShutdownInv, NoneUnderWay, Running, Types, Phases
<1>10. ShutdownInv'
    BY <1>3, <1>9 DEF AuditInv, ShutdownInv, Types, Phases
<1> QED
    BY <1>3, <1>7, <1>8, <1>10 DEF AuditInv

\* The other steps, which leave the log alone.
LEMMA UnrecordedKeeps ==
    ASSUME AuditInv, UNCHANGED <<queue, writer, written, reported>>, ShutdownInv',
           \A q \in Requests : req'[q].audited = req[q].audited
    PROVE  AuditInv'
<1>1. \A q \in Requests : PlaceInv(q)'
    BY DEF AuditInv, PlaceInv
<1> QED
    BY <1>1 DEF AuditInv

\* The writer takes an entry.
LEMMA WriterTakeKeeps ==
    ASSUME Types, AuditInv, WriterTake
    PROVE  AuditInv'
<1>1. /\ queue # <<>> /\ writer' = [writer EXCEPT !.entry = Head(queue)] /\ queue' = Tail(queue)
      /\ written' = written /\ reported' = reported /\ phase' = phase /\ deadline' = deadline
      /\ req' = req /\ writer.entry = None /\ writer.state # "ended"
    BY DEF WriterTake, processVars
<1>2. writer'.entry = Head(queue) /\ writer'.state = writer.state
    BY <1>1 DEF Types
<1>3. /\ Head(queue) \in Requests /\ Once(Tail(queue)) /\ ~In(Tail(queue), Head(queue))
      /\ \A x : In(queue, x) <=> (In(Tail(queue), x) \/ x = Head(queue))
    BY <1>1, Taken DEF Types, AuditInv
<1>4. ASSUME NEW q \in Requests
      PROVE  PlaceInv(q)'
  <2>1. PlaceInv(q) /\ writer.entry # q
      BY <1>1, Nones DEF AuditInv
  <2> QED
      BY <1>1, <1>2, <1>3, <2>1 DEF PlaceInv
<1>5. ShutdownInv'
    BY <1>1, <1>2 DEF AuditInv, ShutdownInv, NoneUnderWay
<1> QED
    BY <1>1, <1>3, <1>4, <1>5 DEF AuditInv

\* The entry is written, or the failure is logged.
LEMMA WriteKeeps ==
    ASSUME Types, AuditInv, Write
    PROVE  AuditInv'
<1> DEFINE e == writer.entry
<1>1. /\ e \in Requests /\ writer' = [writer EXCEPT !.entry = None]
      /\ \/ written' = Append(written, e) /\ reported' = reported
         \/ reported' = reported \cup {e} /\ written' = written
      /\ queue' = queue /\ req' = req /\ phase' = phase /\ deadline' = deadline
      /\ written \in Seq(Requests)
    BY DEF Write, Types, processVars
<1>2. writer'.entry = None /\ writer'.state = writer.state
    BY <1>1 DEF Types
<1>3. ~In(written, e) /\ ~In(queue, e) /\ e \notin reported /\ Once(written)
    BY <1>1 DEF AuditInv, PlaceInv
<1>4. /\ \A x : In(Append(written, e), x) <=> (In(written, x) \/ x = e)
      /\ Once(Append(written, e))
    BY <1>1, <1>3, Appended
<1>5. ASSUME NEW q \in Requests
      PROVE  PlaceInv(q)'
  <2>1. PlaceInv(q) /\ None # q
      BY Nones DEF AuditInv
  <2>2. CASE q = e
      BY <1>1, <1>2, <1>3, <1>4, <2>1, <2>2 DEF PlaceInv
  <2>3. CASE q # e
      BY <1>1, <1>2, <1>4, <2>1, <2>3 DEF PlaceInv
  <2> QED
      BY <2>2, <2>3
<1>6. ShutdownInv'
    BY <1>1, <1>2 DEF AuditInv, ShutdownInv, NoneUnderWay
<1>7. Once(written') /\ Once(queue')
    BY <1>1, <1>3, <1>4 DEF AuditInv
<1> QED
    BY <1>5, <1>6, <1>7 DEF AuditInv

LEMMA AuditStep ==
    ASSUME Types, RequestInv, AuditInv, [Next]_vars
    PROVE  AuditInv'
<1>1. CASE Boot
  <2>1. /\ UNCHANGED <<queue, writer, written, reported>> /\ req' = req /\ deadline' = deadline
        /\ phase' \in {"up", "exited"} /\ phase = "boot"
      BY <1>1 DEF Boot, auditVars
  <2>2. ShutdownInv'
      BY <2>1 DEF AuditInv, ShutdownInv, RequestInv
  <2> QED
      BY <2>1, <2>2, UnrecordedKeeps
<1>2. CASE \E r \in Requests, route \in DOMAIN Routes, cred \in Credentials : Begin(r, route, cred)
  <2>1. PICK r \in Requests, route \in DOMAIN Routes, cred \in Credentials : Begin(r, route, cred)
      BY <1>2
  <2>2. /\ UNCHANGED <<queue, writer, written, reported>> /\ deadline' = deadline
        /\ phase' = phase /\ phase = "up"
      BY <2>1 DEF Begin, auditVars, processVars
  <2>3. \A q \in Requests : req'[q].audited = req[q].audited
    <3>1. req'[r].audited = FALSE /\ req[r].route = "none" /\ \A q \in Requests \ {r} : req'[q] = req[q]
        BY <2>1, BegunRequest
    <3>2. req[r].audited = FALSE
        BY <3>1 DEF RequestInv, ListInv, NotMade
    <3> QED
        BY <3>1, <3>2
  <2>4. ShutdownInv'
      BY <2>2 DEF AuditInv, ShutdownInv
  <2> QED
      BY <2>2, <2>3, <2>4, UnrecordedKeeps
<1>3. CASE \E r \in Requests : Record(r)
    BY <1>3, RecordKeeps
<1>4. CASE \E r \in Requests : (Middleware(r) \/ Handle(r)) /\ ~Record(r)
  <2>1. PICK r \in Requests : (Middleware(r) \/ Handle(r)) /\ ~Record(r)
      BY <1>4
  <2>2. /\ UNCHANGED <<queue, writer, written, reported>> /\ deadline' = deadline /\ phase' = phase
        /\ Head(req[r].todo) # "audit"
      BY <2>1 DEF Middleware, Handle, Guard, Resolve, RequireRoles, PlatformGuard, LimitByIP,
             LimitTenant, LimitInstance, Login, Refresh, CheckSlug, InsertTenant, InsertUser, At,
             processVars, auditVars
  <2>3. ListInv(r)
      BY DEF RequestInv
  <2>4. Running /\ req[r].todo # <<>>
      BY <2>1, <2>3, Going
  <2>5. \A q \in Requests : req'[q].audited = req[q].audited
    <3>1. PICK x : Goes(r, x)
        BY <2>1, <2>3, Going
    <3>2. req'[r] = x /\ \A q \in Requests \ {r} : req'[q] = req[q]
        BY <3>1, Gone
    <3>3. x.audited = FALSE /\ req[r].audited = FALSE
      <4>1. x.audited \in BOOLEAN /\ req[r].audited \in BOOLEAN
          BY <3>1 DEF Goes, Request, Types
      <4>2. ~x.audited /\ ~req[r].audited
          BY <2>2, <2>3, <2>4, <3>1, Acting DEF Goes
      <4> QED
          BY <4>1, <4>2
    <3> QED
        BY <3>2, <3>3
  <2>6. ShutdownInv'
    <3>1. phase \in {"up", "closing"} \/ deadline
        BY <2>4 DEF AuditInv, ShutdownInv, NoneUnderWay, Running, Types, Phases
    <3> QED
        BY <2>2, <3>1 DEF AuditInv, ShutdownInv
  <2> QED
      BY <2>2, <2>5, <2>6, UnrecordedKeeps
<1>5. CASE \E s \in Slugs, role \in Roles : EditUser(s, role)
  <2>1. PICK s \in Slugs, role \in Roles : EditUser(s, role)
      BY <1>5
  <2>2. /\ UNCHANGED <<queue, writer, written, reported>> /\ deadline' = deadline /\ phase' = phase
        /\ Running
      BY <2>1 DEF EditUser, auditVars, processVars
  <2>3. \A q \in Requests : req'[q].audited = req[q].audited /\ req'[q].todo = req[q].todo
      BY <2>1, EditedRequest
  <2>4. ShutdownInv'
      BY <2>2, <2>3 DEF AuditInv, ShutdownInv, NoneUnderWay, Running
  <2> QED
      BY <2>2, <2>3, <2>4, UnrecordedKeeps
<1>6. CASE WriterTake
    BY <1>6, WriterTakeKeeps
<1>7. CASE Write
    BY <1>7, WriteKeeps
<1>8. CASE WriterDone
  <2>1. /\ UNCHANGED <<queue, written, reported, req, phase, deadline>> /\ writer.entry = None
        /\ \/ writer.state = "select" /\ Cancelled /\ writer' = [writer EXCEPT !.state = "drain"]
           \/ writer.state = "drain" /\ queue = <<>> /\ writer' = [writer EXCEPT !.state = "ended"]
      BY <1>8 DEF WriterDone, processVars
  <2>2. /\ writer'.entry = writer.entry
        /\ \/ writer.state = "select" /\ Cancelled /\ writer'.state = "drain"
           \/ writer.state = "drain" /\ queue = <<>> /\ writer'.state = "ended"
      BY <2>1 DEF Types
  <2>3. \A q \in Requests : PlaceInv(q)'
      BY <2>1, <2>2 DEF AuditInv, PlaceInv
  <2>4. ShutdownInv'
      BY <2>1, <2>2 DEF AuditInv, ShutdownInv, NoneUnderWay, Cancelled
  <2> QED
      BY <2>1, <2>3, <2>4 DEF AuditInv
<1>9. CASE Signal \/ Deadline \/ Shutdown \/ Stop \/ Exit \/ Tick \/ UNCHANGED vars
  <2>1. UNCHANGED <<queue, writer, written, reported>> /\ req' = req
      BY <1>9 DEF Signal, Deadline, Shutdown, Stop, Exit, Tick, vars, auditVars
  <2>2. ShutdownInv'
    <3>1. CASE Signal
        BY <2>1, <3>1 DEF Signal, AuditInv, ShutdownInv
    <3>2. CASE Deadline
        BY <2>1, <3>2 DEF Deadline, AuditInv, ShutdownInv
    <3>3. CASE Shutdown
        BY <2>1, <3>3 DEF Shutdown, AuditInv, ShutdownInv, NoneUnderWay
    <3>4. CASE Stop
        BY <2>1, <3>4 DEF Stop, AuditInv, ShutdownInv, NoneUnderWay
    <3>5. CASE Exit
        BY <2>1, <3>5 DEF Exit, AuditInv, ShutdownInv
    <3>6. CASE Tick \/ UNCHANGED vars
      <4>1. phase' = phase /\ deadline' = deadline
          BY <3>6 DEF Tick, vars, processVars
      <4> QED
          BY <2>1, <4>1 DEF AuditInv, ShutdownInv, NoneUnderWay
    <3> QED
        BY <1>9, <3>1, <3>2, <3>3, <3>4, <3>5, <3>6
  <2> QED
      BY <2>1, <2>2, UnrecordedKeeps
<1> QED
    BY <1>1, <1>2, <1>3, <1>4, <1>5, <1>6, <1>7, <1>8, <1>9, StepCases DEF Aside

-----------------------------------------------------------------------------
(* The theorems.                                                           *)

LEMMA InitHolds ==
    ASSUME Init
    PROVE  GatewayInv
<1>1. Types
  <2>1. \A x \in Requests : req[x] = NotMade
      BY DEF Init
  <2>2. NotMade \in Request
    <3>1. ASSUME NEW t \in Seq(Steps)
          PROVE  [route |-> "none", todo |-> t, cred |-> None, role |-> None, began |-> 0,
                  had |-> {}, status |-> "none", audited |-> FALSE] \in Request
        BY DEF Request, Statuses
    <3> QED
        BY <3>1, Ends DEF NotMade
  <2>3. req \in [Requests -> Request]
      BY <2>2 DEF Init
  <2>4. AuditTypes
    <3>1. <<>> \in Seq(Requests) /\ Len(<<>>) = 0
        BY EmptySeq
    <3>2. 0 <= QueueSize
        BY GatewayAssumption
    <3>3. writer \in [state : {"select", "drain", "ended"}, entry : Requests \cup {None}]
        BY DEF Init
    <3> QED
        BY <3>1, <3>2, <3>3 DEF Init, AuditTypes
  <2>5. LimitTypes /\ DataTypes
      BY DEF Init, LimitTypes, DataTypes
  <2>6. now \in 0..MaxTime /\ phase \in Phases /\ deadline \in BOOLEAN
    <3>1. now = 0 /\ phase = "boot" /\ deadline = FALSE
        BY DEF Init
    <3>2. 0 \in 0..MaxTime
        BY GatewayAssumption
    <3> QED
        BY <3>1, <3>2 DEF Phases
  <2> QED
      BY <2>3, <2>4, <2>5, <2>6 DEF Types, AuditTypes, LimitTypes, DataTypes
<1>2. /\ \A r \in Requests : req[r] = NotMade
      /\ NotMade.route = "none" /\ NotMade.began = 0 /\ NotMade.audited = FALSE
      /\ "none" # "createTenant"
    BY DEF Init, NotMade
<1>3. RequestInv
  <2>1. \A r \in Requests : ListInv(r) /\ CreateInv(r) /\ BearerInv(r) /\ GuardInv(r)
      BY <1>2 DEF Init, ListInv, CreateInv, BearerInv, GuardInv
  <2>2. RowsInv
      BY DEF Init, RowsInv
  <2> QED
      BY <1>2, <2>1, <2>2 DEF Init, RequestInv
<1>4. AuditInv
  <2>1. Len(<<>>) = 0 /\ \A i \in 1..0 : FALSE
      BY EmptySeq
  <2>2. \A x : ~In(<<>>, x)
      BY <2>1 DEF In
  <2>3. Once(<<>>)
      BY <2>1 DEF Once
  <2>4. \A r \in Requests : PlaceInv(r)
      BY <1>2, <2>2, Nones DEF Init, PlaceInv
  <2>5. ShutdownInv
      BY DEF Init, ShutdownInv
  <2> QED
      BY <2>3, <2>4, <2>5 DEF Init, AuditInv
<1>5. LimitInv
  <2>1. \A k, a, b : Passes(k, a, b) = {}
      BY DEF Init, Passes, Among
  <2>2. IsFiniteSet({}) /\ Cardinality({}) = 0
      BY FS_EmptySet
  <2>3. Limit \in Nat /\ Window \in Nat /\ now = 0
      BY GatewayAssumption DEF Init
  <2>4. \A k \in Keys : WindowInv(k, 0)
    <3>1. passed = {} /\ \A k \in Keys : limits[k] = None
        BY DEF Init
    <3>2. 0 <= now /\ 0 <= Limit /\ 0 - Window \in Int
        BY <2>3
    <3> QED
        BY <2>1, <2>2, <3>1, <3>2 DEF WindowInv
  <2>5. passed = {} /\ 0 <= 2 * Limit /\ 0 \in Int
      BY <2>3 DEF Init
  <2> QED
      BY <2>1, <2>2, <2>4, <2>5 DEF LimitInv
<1> QED
    BY <1>1, <1>3, <1>4, <1>5 DEF GatewayInv

\* The invariant of the HTTP front: the lists of the requests, the rows they
\* rely on, the place of every audit entry and the windows of the limiter.
THEOREM GatewayInvariant == Spec => []GatewayInv
<1>1. Init => GatewayInv
    BY InitHolds
<1>2. GatewayInv /\ [Next]_vars => GatewayInv'
    BY TypesStep, RequestStep, AuditStep, LimitStep DEF GatewayInv
<1> QED
    BY <1>1, <1>2, PTL DEF Spec

\* In any stretch as long as a window the limiter lets a key through at most
\* twice the limit (MemoryRateLimitStore.Allow, pruneExpired).
THEOREM BurstIsBounded == Spec => []BurstBounded
<1>1. GatewayInv => BurstBounded
  <2> SUFFICES ASSUME GatewayInv, Limit > 0, NEW k \in {p.key : p \in passed}, NEW t \in 0..MaxTime
               PROVE  Cardinality({p \in passed : p.key = k /\ p.at \in t .. t + Window}) <= 2 * Limit
      BY DEF BurstBounded
  <2>1. k \in Keys /\ t \in Int /\ Window \in Nat /\ \A p \in passed : p.at \in Nat
      BY GatewayAssumption DEF GatewayInv, Types, Pass
  <2>2. {p \in passed : p.key = k /\ p.at \in t .. t + Window} = Passes(k, t, t + Window)
      BY <2>1 DEF Passes, Among
  <2> QED
      BY <2>1, <2>2 DEF GatewayInv, LimitInv
<1> QED
    BY <1>1, GatewayInvariant, PTL

\* A handler behind the guard runs for a bearer only with an access token that
\* was good when the request came and a role that the user had while it was
\* under way (Service.Authenticate, RequireRoles).
THEOREM OnlyTheEntitled == Spec => []EntitledOnly
<1>1. GatewayInv => EntitledOnly
  <2> SUFFICES ASSUME GatewayInv, NEW r \in Requests, req[r].status \in {"ok", "failed", "panic"},
                      "guard" \in {Routes[req[r].route].chain[1]},
                      req[r].cred.type \notin {"apiKey", "instanceToken"}
               PROVE  /\ req[r].cred.type = "access"
                      /\ req[r].cred.expiry >= req[r].began
                      /\ req[r].had \cap Routes[req[r].route].roles # {}
      BY DEF EntitledOnly
  <2>1. ListInv(r) /\ GuardInv(r) /\ req[r].route \in {"none"} \cup DOMAIN Routes
      BY DEF GatewayInv, RequestInv, Types, Request
  <2>2. req[r].route # "none"
      BY <2>1 DEF ListInv, NotMade
  <2>3. GoodRoute(req[r].route)
      BY <2>1, <2>2, RouteFacts
  <2>4. req[r].route \notin Open
      BY <2>3 DEF GoodRoute
  <2>5. Admitted(r) /\ Permitted(r)
      BY <2>1, <2>2, <2>4 DEF GuardInv
  <2> QED
      BY <2>5 DEF Admitted, Permitted
<1> QED
    BY <1>1, GatewayInvariant, PTL

\* A creation of a tenant that succeeded owns its slug and its user for ever
\* (tenant.Service.Create).
THEOREM CreatorOwnsSlug == Spec => []CreatedOwnsSlug
<1>1. GatewayInv => CreatedOwnsSlug
    BY DEF GatewayInv, RequestInv, CreateInv, CreatedOwnsSlug
<1> QED
    BY <1>1, GatewayInvariant, PTL

\* A shutdown within its deadline loses no audit entry and writes none twice
\* (audit.Service.Start and Stop, the order of main's shutdown).
THEOREM AuditIsKept == Spec => []AuditKept
<1>1. GatewayInv => AuditKept
  <2> SUFFICES ASSUME GatewayInv, phase = "exited", ~deadline, NEW r \in Requests, req[r].audited
               PROVE  Occurrences(r) = 1
      BY DEF AuditKept
  <2>1. PlaceInv(r) /\ ShutdownInv /\ Once(written) /\ written \in Seq(Requests)
      BY DEF GatewayInv, AuditInv, Types
  <2>2. queue = <<>> /\ writer.entry = None
    <3>1. req[r] # NotMade
        BY DEF NotMade
    <3> QED
        BY <2>1, <3>1 DEF ShutdownInv
  <2>3. ~In(queue, r) /\ writer.entry # r
    <3>1. Len(<<>>) = 0 /\ \A i \in 1..0 : FALSE
        BY EmptySeq
    <3> QED
        BY <2>2, <3>1, Nones DEF In
  <2> DEFINE P == {i \in DOMAIN written : written[i] = r}
  <2>4. DOMAIN written = 1..Len(written)
      BY <2>1, LenProperties
  <2>5. CASE In(written, r) /\ r \notin reported
    <3>1. PICK i \in 1..Len(written) : written[i] = r
        BY <2>5 DEF In
    <3>2. P = {i}
        BY <2>1, <2>4, <3>1 DEF Once
    <3>3. Cardinality(P) = 1
        BY <3>2, FS_Singleton
    <3> QED
        BY <2>5, <3>3 DEF Occurrences
  <2>6. CASE ~In(written, r) /\ r \in reported
    <3>1. P = {}
        BY <2>4, <2>6 DEF In
    <3>2. Cardinality(P) = 0
        BY <3>1, FS_EmptySet
    <3> QED
        BY <2>6, <3>2 DEF Occurrences
  <2> QED
      BY <2>1, <2>3, <2>5, <2>6 DEF PlaceInv
<1> QED
    BY <1>1, GatewayInvariant, PTL
=============================================================================
