---------------------------- MODULE GatewayAccess ----------------------------
(***************************************************************************)
(* Who the api-gateway lets through: registration and login by way of the  *)
(* proxy, and the guard of the other routes, which asks the users-service  *)
(* who the token belongs to before it forwards the request.                *)
(*                                                                         *)
(* Every request to the users-service may be lost, answered late or tried  *)
(* again, and an abandoned one still runs; GatewayProxy has the circuit.   *)
(***************************************************************************)
EXTENDS Naturals, FiniteSets

CONSTANTS People,      \* the clients, each with a password of their own
          Role,        \* the role each registers with
          Spellings,   \* the e-mails as they are typed
          Typed,       \* Typed[p]: those p types
          Lower,       \* what trim and toLowerCase make of each
          MaxAttempts, \* maxRetries + 1: the attempts of a call
          MaxInFlight, \* how many requests the users-service has at once
          Visited,     \* the routes the clients visit
          NoOne

ASSUME MaxAttemptsAssumption == MaxAttempts \in Nat \ {0}
ASSUME LowerAssumption ==
  /\ Lower \in [Spellings -> Spellings]
  /\ \A s \in Spellings : Lower[Lower[s]] = Lower[s]
ASSUME RoleAssumption == Role \in [People -> {"seller", "buyer"}]
ASSUME TypedAssumption == Typed \in [People -> SUBSET Spellings]
ASSUME NoOneAssumption == NoOne \notin People \cup Spellings

VARIABLES users, work, \* the users-service, of UserAccounts
          call,     \* call[p]: the call of p to the users-service
          attempts, \* attempts[p]: the attempts its request has begun
          token,    \* token[p]: the subject of the token p got
          cached,   \* the identity cached under the path of validate-token
          sent,     \* the requests forwarded to the services
          sellers   \* the sellers of the rows of table products

service == <<users, work>>
forwarded == <<sent, sellers>>
vars == <<users, work, call, attempts, token, cached, sent, sellers>>

Attempts == 1 .. MaxAttempts
Requests == People \X Attempts

Users == INSTANCE UserAccounts

-----------------------------------------------------------------------------
(* The routes of the controllers: the service each goes to, and whether its *)
(* handler is behind the guard.                                             *)

Guarded(to, method) == [to |-> to, method |-> method, guarded |-> TRUE]
Public(to, method) == [to |-> to, method |-> method, guarded |-> FALSE]

UserRoutes ==
  [getProfile |-> Guarded("users", "get"),
   getActiveSellers |-> Guarded("users", "get")]
ProductRoutes ==
  [findAllActive |-> Public("products", "get"),
   findActiveBySeller |-> Public("products", "get"),
   findById |-> Public("products", "get"),
   create |-> Guarded("products", "post")]
CartRoutes ==
  [addItem |-> Guarded("checkout", "post"),
   getCart |-> Guarded("checkout", "get"),
   removeItem |-> Guarded("checkout", "delete")]
OrderRoutes ==
  [checkout |-> Guarded("checkout", "post"),
   findAll |-> Guarded("checkout", "get"),
   findById |-> Guarded("checkout", "get")]
PaymentRoutes == [findByOrderId |-> Guarded("payments", "get")]

RoutesOf(handlers) == {handlers[h] : h \in DOMAIN handlers}
Routes ==
  UNION {RoutesOf(UserRoutes), RoutesOf(ProductRoutes), RoutesOf(CartRoutes),
         RoutesOf(OrderRoutes), RoutesOf(PaymentRoutes)}
NoRoute == Public("none", "none")

ASSUME VisitedAssumption == Visited \subseteq Routes

\* email: what a registration or a login was made with.
NoCall == [op |-> "none", email |-> NoOne, route |-> NoRoute]

Init ==
  /\ Users!Init
  /\ call = [p \in People |-> NoCall]
  /\ attempts = [p \in People |-> 0]
  /\ token = [p \in People |-> NoOne]
  /\ cached = NoOne
  /\ sent = {}
  /\ sellers = {}

-----------------------------------------------------------------------------
(* A call and its request to the users-service *)

Current(p) == <<p, attempts[p]>>

\* A client calls again once the requests it abandoned are over, so that the
\* requests of its attempts are all of one call; those of others go on.
Fresh(p) ==
  /\ call[p] = NoCall
  /\ \A n \in Attempts : work[<<p, n>>] = Users!NoWork
  /\ \A m \in sent : m.from # p

Begin(p, c) == Fresh(p) /\ call' = [call EXCEPT ![p] = c]

\* The users-service, or the fallback, has answered.
End(p) ==
  /\ call' = [call EXCEPT ![p] = NoCall]
  /\ attempts' = [attempts EXCEPT ![p] = 0]

InFlight == {q \in Requests : work[q] # Users!NoWork}

\* The first attempt of p's call, or its next one, sends the request.
Attempt(p, c) ==
  /\ Cardinality(InFlight) < MaxInFlight
  /\ attempts' = [attempts EXCEPT ![p] = @ + 1]
  /\ Users!Arrive(<<p, attempts[p] + 1>>, c.op, c.email,
                  IF c.op = "validate" THEN token[p] ELSE p)
  /\ UNCHANGED users

\* POST /auth/register and /auth/login, public, go through the proxy.
Identify(p, op, s) ==
  LET c == [op |-> op, email |-> s, route |-> NoRoute] IN
  /\ Begin(p, c)
  /\ Attempt(p, c)
  /\ UNCHANGED <<token, cached, forwarded>>

\* The guard of a route: the token is verified, and the users-service is asked
\* whose it is.  A call without a token, or with an expired one, stops here.
VisitGuarded(p, r) ==
  LET c == [op |-> "validate", email |-> NoOne, route |-> r] IN
  /\ r.guarded /\ token[p] # NoOne
  /\ Begin(p, c)
  /\ Attempt(p, c)
  /\ UNCHANGED <<token, cached, forwarded>>

\* Mutant: the loop runs once more.
RetryOnceMore(p) ==
  /\ call[p] # NoCall /\ attempts[p] <= MaxAttempts
  /\ Attempt(p, call[p])
  /\ UNCHANGED <<call, token, cached, forwarded>>

\* An attempt is lost, since it failed or since it timed out and still runs:
\* the next one sends the same request.
Retry(p) ==
  /\ call[p] # NoCall /\ attempts[p] < MaxAttempts
  /\ Attempt(p, call[p])
  /\ UNCHANGED <<call, token, cached, forwarded>>

\* What is forwarded: the header with the token, and the headers with the
\* identity the guard accepts.
Forward(p, who) ==
  /\ sent' = sent \cup {[from |-> p, token |-> token[p], identity |-> who,
                         route |-> call[p].route]}
  /\ End(p)

\* Mutant: the fallback looks for the entry its path was cached under.
FallbackByPath(p) ==
  \/ (call[p].op # "validate" \/ cached = NoOne) /\ End(p) /\ UNCHANGED sent
  \/ call[p].op = "validate" /\ cached # NoOne /\ Forward(p, cached)

\* The fallback of the users-service is the text cached under its own name, with
\* status 200: the client of a login gets the text; as an identity it does not
\* parse, so the guard refuses.
Fallback(p) == End(p) /\ UNCHANGED sent

\* The attempts are used up.  (A call that the open circuit refuses gets the
\* fallback as well, and changes nothing here.)
GiveUp(p) ==
  /\ call[p] # NoCall /\ attempts[p] = MaxAttempts
  /\ Fallback(p)
  /\ UNCHANGED <<service, token, cached, sellers>>

\* Request q was answered and is over: the response of a GET that is no 4xx is
\* cached under its path.
Answered(q) ==
  /\ work[q].stage \in Users!Replies
  /\ Users!Over(q)
  /\ cached' = IF work[q].stage = "identity" THEN work[q].who ELSE cached
  /\ UNCHANGED users

\* The answer to a registration or a login goes to the client.
ReceiveAnswer(p) ==
  /\ call[p].op \in {"register", "login"}
  /\ Answered(Current(p))
  /\ token' = IF work[Current(p)].stage = "token"
              THEN [token EXCEPT ![p] = work[Current(p)].found.owner]
              ELSE token
  /\ End(p)
  /\ UNCHANGED forwarded

\* The guard lets the call through to its handler as the identity it was told;
\* a 4xx ends the call.
ReceiveIdentity(p) ==
  /\ call[p].op = "validate"
  /\ Answered(Current(p))
  /\ \/ work[Current(p)].stage = "identity" /\ Forward(p, work[Current(p)].who)
     \/ work[Current(p)].stage = "denied" /\ End(p) /\ UNCHANGED sent
  /\ UNCHANGED <<token, sellers>>

\* Nobody awaits the request of attempt n any more.
Abandoned(p, n) == call[p] = NoCall \/ n < attempts[p]

LateAnswer(p, n) ==
  /\ Abandoned(p, n)
  /\ Answered(<<p, n>>)
  /\ UNCHANGED <<call, attempts, token, forwarded>>

-----------------------------------------------------------------------------
(* The services behind the routes *)

\* A public route goes to its service without an identity.
VisitPublic(p, r) ==
  /\ ~r.guarded
  /\ Fresh(p)
  /\ sent' = sent \cup {[from |-> p, token |-> NoOne, identity |-> NoOne,
                         route |-> r]}
  /\ UNCHANGED <<service, call, attempts, token, cached, sellers>>

\* Mutant: create trusts whoever the gateway let through.
CreatesForAny(m) == m.route = ProductRoutes.create

\* Only sellers create products.
Creates(m) == m.route = ProductRoutes.create /\ Role[m.token] = "seller"

\* The service takes a forwarded request, whether or not its client was already
\* answered: it verifies the token itself, and acts for the token's subject.
Serve(m) ==
  /\ m \in sent
  /\ sellers' = IF Creates(m) THEN sellers \cup {m.token} ELSE sellers
  /\ UNCHANGED <<service, call, attempts, token, cached, sent>>

\* The last attempt to send m is over.
Lose(m) ==
  /\ m \in sent
  /\ sent' = sent \ {m}
  /\ UNCHANGED <<service, call, attempts, token, cached, sellers>>

-----------------------------------------------------------------------------
Client(p) ==
  \/ \E op \in {"register", "login"}, s \in Typed[p] : Identify(p, op, s)
  \/ \E r \in Visited : VisitGuarded(p, r) \/ VisitPublic(p, r)
  \/ Retry(p) \/ GiveUp(p) \/ ReceiveAnswer(p) \/ ReceiveIdentity(p)
  \/ \E n \in Attempts : LateAnswer(p, n)

UsersService ==
  /\ \E q \in Requests : Users!Handle(q)
  /\ UNCHANGED <<call, attempts, token, cached, forwarded>>

Next ==
  \/ \E p \in People : Client(p)
  \/ UsersService
  \/ \E m \in sent : Serve(m) \/ Lose(m)

Spec == Init /\ [][Next]_vars

-----------------------------------------------------------------------------
(* Properties *)

Forwards ==
  [from : People, token : People \cup {NoOne}, identity : People \cup {NoOne},
   route : Routes]

TypeOK ==
  /\ Users!TypeOK
  /\ call \in [People ->
       [op : Users!Operations \cup {"none"},
        email : Spellings \cup {NoOne}, route : Routes \cup {NoRoute}]]
  /\ attempts \in [People -> 0 .. MaxAttempts]
  /\ token \in [People -> People \cup {NoOne}]
  /\ cached \in People \cup {NoOne}
  /\ sent \subseteq Forwards
  /\ sellers \subseteq People

\* An e-mail gets one account and keeps it, whoever registers it at the same
\* time and in whatever spelling, retried or not (02-register.md:42,124).
ImplementsRegistry == Users!Registry!Spec

\* What a client is told of an account is true, whatever ran meanwhile: created,
\* that the account is its own, so that of two registrations at once one alone
\* is told so (02-register.md:124); a token or an inactive account, that the
\* account is its own (03-login.md:52); and conflict, that the e-mail has one.
RepliesAreTrue ==
  \A q \in Requests :
    LET accounts == Users!AccountsOf(work[q].email) IN
    /\ work[q].stage \in {"created", "token", "inactive"} =>
         \A u \in accounts : u.owner = work[q].who
    /\ work[q].stage \in {"created", "token", "inactive", "conflict"} =>
         accounts # {}

\* A guarded route is forwarded only as the user who logged in, whom the
\* users-service confirmed: neither a fallback nor what another call cached
\* authenticates anyone (06-api-gateway-integration.md:114-115).
IdentityIsOwn ==
  \A m \in sent :
    IF m.route.guarded THEN m.identity = m.from /\ m.token = m.from
    ELSE m.identity = NoOne /\ m.token = NoOne

\* Products are only created for registered sellers, though requests are
\* repeated and arrive long after the gateway gave them up
\* (products-service/docs/specs/03-create-product.md).
SellersAreRegistered ==
  \A p \in sellers : Role[p] = "seller" /\ \E u \in users : u.owner = p

-----------------------------------------------------------------------------
(* The invariant *)

\* Every row has the e-mail in its normal form, which makes the unique column
\* decide for all its spellings.
AccountsInv ==
  /\ IsFiniteSet(users)
  /\ \A u \in users : Lower[u.email] = u.email
  /\ \A u, v \in users : u.email = v.email => u = v

\* The stages of a registration and of a login, and what they know.
EmailStages == {"hashing", "created", "conflict", "comparing", "token", "inactive"}

WorkInv ==
  \A q \in Requests :
    LET w == work[q] IN
    /\ w.stage # "none" => w.who = q[1]
    /\ w.stage \in EmailStages => w.op \in {"register", "login"}
    /\ w.op \in {"register", "login"} =>
         w.email \in Spellings /\ Lower[w.email] = w.email
    /\ w.stage \in {"comparing", "token", "inactive"} =>
         w.found \in users /\ w.found.email = w.email
    /\ w.stage \in {"token", "inactive"} => w.found.owner = w.who
    /\ w.stage = "created" => \E u \in users : u.email = w.email /\ u.owner = w.who
    /\ w.stage = "conflict" => \E u \in users : u.email = w.email

Registered(p) == \E u \in users : u.owner = p

\* A client has no token but its own, and its call goes on with it.
ClientInv ==
  \A p \in People :
    /\ token[p] \in {NoOne, p}
    /\ token[p] # NoOne => Registered(p)
    /\ call[p] = NoCall <=> attempts[p] = 0
    /\ call[p].op = "none" => call[p] = NoCall
    /\ call[p].op \in {"register", "login"} => call[p].email \in Spellings
    /\ call[p].op = "validate" =>
         token[p] = p /\ call[p].route \in Routes /\ call[p].route.guarded

SentInv == IdentityIsOwn /\ \A m \in sent : m.route.guarded => Registered(m.token)

IInv ==
  /\ TypeOK
  /\ AccountsInv
  /\ WorkInv
  /\ ClientInv
  /\ SentInv
  /\ SellersAreRegistered
=============================================================================
