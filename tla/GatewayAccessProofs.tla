------------------------- MODULE GatewayAccessProofs -------------------------
(***************************************************************************)
(* Proofs about GatewayAccess for any people, e-mails, attempts and visits:*)
(* an e-mail has one account and keeps it, what a client is told of it is  *)
(* true, guarded routes are forwarded only as the user who logged in, and  *)
(* only registered sellers create products.                                *)
(***************************************************************************)
EXTENDS GatewayAccess, FiniteSetTheorems, TLAPS

\* The part of the invariant that is about the users-service.
ServiceInv == Users!TypeOK /\ AccountsInv /\ WorkInv

\* The types of the gateway's own variables, and the rest of the invariant.
GatewayTypes ==
  /\ call \in [People ->
       [op : Users!Operations \cup {"none"},
        email : Spellings \cup {NoOne}, route : Routes \cup {NoRoute}]]
  /\ attempts \in [People -> 0 .. MaxAttempts]
  /\ token \in [People -> People \cup {NoOne}]
  /\ cached \in People \cup {NoOne}
  /\ sent \subseteq Forwards
  /\ sellers \subseteq People

GatewayInv == GatewayTypes /\ ClientInv /\ SentInv /\ SellersAreRegistered

LEMMA InvariantParts == IInv <=> ServiceInv /\ GatewayInv
BY DEF IInv, TypeOK, ServiceInv, GatewayInv, GatewayTypes

-----------------------------------------------------------------------------
(* The users-service *)

\* A request that arrives knows nothing yet, but who sends it and an e-mail in
\* its normal form.
LEMMA ArriveInvariant ==
  ASSUME ServiceInv, NEW p \in People, NEW n, NEW op \in Users!Operations,
         NEW s, op # "validate" => s \in Spellings,
         Users!Arrive(<<p, n>>, op, s, p), UNCHANGED users
  PROVE  ServiceInv'
<1> USE LowerAssumption, NoOneAssumption
        DEF ServiceInv, Users!TypeOK, AccountsInv, Users!Arrive, Users!NoWork,
            Users!NoRow, Users!Normalized, Users!Operations, Users!Handling,
            Users!Replies
<1> DEFINE w == [stage |-> "received", op |-> op,
                 email |-> IF op = "validate" THEN NoOne ELSE Lower[s],
                 who |-> p, found |-> Users!NoRow, active |-> FALSE]
<1>1. work' = [work EXCEPT ![<<p, n>>] = w]
  OBVIOUS
<1>2. w.op # "validate" => w.email \in Spellings /\ Lower[w.email] = w.email
  OBVIOUS
<1>3. Users!TypeOK'
  <2>1. w \in Users!WorkRecords
    BY DEF Users!WorkRecords
  <2> HIDE DEF w
  <2> QED
    BY <1>1, <2>1
<1>4. ASSUME NEW q \in Requests
      PROVE  work'[q] = work[q] \/ (q = <<p, n>> /\ work'[q] = w)
  <2> HIDE DEF w
  <2> QED
    BY <1>1
<1>5. WorkInv'
  BY <1>2, <1>4 DEF WorkInv, EmailStages
<1> QED
  BY <1>3, <1>5

\* A request that is over knows nothing.
LEMMA OverInvariant ==
  ASSUME ServiceInv, NEW q \in Requests, Users!Over(q), UNCHANGED users
  PROVE  ServiceInv'
<1> USE DEF ServiceInv, Users!TypeOK, AccountsInv, Users!Over, Users!NoWork,
            Users!NoRow
<1>1. Users!TypeOK'
  <2>1. Users!NoWork \in Users!WorkRecords
    BY DEF Users!WorkRecords
  <2> HIDE DEF Users!NoWork
  <2> QED
    BY <2>1
<1>2. ASSUME NEW r \in Requests
      PROVE  work'[r] = work[r] \/ work'[r] = Users!NoWork
  OBVIOUS
<1>3. WorkInv'
  BY <1>2 DEF WorkInv, EmailStages
<1> QED
  BY <1>1, <1>3

\* A request that goes on to the next stage without writing any row.
LEMMA AdvanceInvariant ==
  ASSUME ServiceInv, NEW q \in Requests, UNCHANGED users,
         NEW stage \in Users!Handling \cup Users!Replies,
         Users!Advance(q, stage),
         work[q].stage # "none",
         stage \in EmailStages => work[q].op \in {"register", "login"},
         stage # "comparing" /\ stage # "created",
         stage \in {"token", "inactive"} =>
           /\ work[q].found \in users /\ work[q].found.email = work[q].email
           /\ work[q].found.owner = work[q].who,
         stage = "conflict" => \E u \in users : u.email = work[q].email
  PROVE  ServiceInv'
<1> USE DEF ServiceInv, Users!TypeOK, AccountsInv, Users!Advance
<1>1. Users!TypeOK'
  <2>1. [work[q] EXCEPT !.stage = stage] \in Users!WorkRecords
    BY DEF Users!WorkRecords
  <2> QED
    BY <2>1
<1>2. ASSUME NEW r \in Requests
      PROVE  \/ work'[r] = work[r]
             \/ r = q /\ work'[r] = [work[q] EXCEPT !.stage = stage]
  OBVIOUS
<1>3. WorkInv'
  BY <1>2 DEF WorkInv, EmailStages
<1> QED
  BY <1>1, <1>3

\* The row of an insert is the only one with its e-mail.
LEMMA SameCardinality == \A S : Users!Cardinality(S) = Cardinality(S)
BY DEF Users!Cardinality, Cardinality

LEMMA NewRowInvariant ==
  ASSUME ServiceInv, NEW q \in Requests, work[q].stage = "hashing",
         ~Users!Taken(q), users' = users \cup {Users!NewRow(q)}
  PROVE  /\ Users!NewRow(q) \in Users!Rows
         /\ Users!NewRow(q).email = work[q].email
         /\ Users!NewRow(q).owner = work[q].who
         /\ AccountsInv'
<1>1. Cardinality(users) \in Nat /\ IsFiniteSet(users')
  BY FS_CardinalityType, FS_AddElement DEF ServiceInv, AccountsInv
<1>2. work[q].email \in Spellings /\ Lower[work[q].email] = work[q].email
  BY DEF ServiceInv, WorkInv, EmailStages
<1>3. work[q].who \in People
  BY DEF ServiceInv, WorkInv, Requests
<1>4. Users!NewRow(q) \in Users!Rows
  BY <1>1, <1>2, <1>3, SameCardinality DEF Users!NewRow, Users!Rows
<1> QED
  BY <1>1, <1>2, <1>4
     DEF Users!NewRow, Users!Taken, ServiceInv, AccountsInv, Users!Rows

\* What an insert adds, the other requests still find: a row is never changed.
LEMMA InsertInvariant ==
  ASSUME ServiceInv, NEW q \in Requests, Users!Insert(q)
  PROVE  ServiceInv' /\ users \subseteq users'
<1>1. work[q].op \in {"register", "login"} /\ work[q].stage = "hashing"
  BY DEF Users!Insert, ServiceInv, WorkInv, EmailStages
<1>2. CASE Users!Taken(q) /\ Users!Advance(q, "conflict") /\ UNCHANGED users
  BY <1>1, <1>2, AdvanceInvariant
     DEF Users!Taken, Users!Handling, Users!Replies, EmailStages
<1>3. ASSUME ~Users!Taken(q), users' = users \cup {Users!NewRow(q)},
             Users!Advance(q, "created") \/ Users!Over(q)
      PROVE  ServiceInv' /\ users \subseteq users'
  <2>1. /\ Users!NewRow(q) \in Users!Rows
        /\ Users!NewRow(q).email = work[q].email
        /\ Users!NewRow(q).owner = work[q].who
        /\ AccountsInv'
    BY <1>1, <1>3, NewRowInvariant
  <2>2. ASSUME NEW r \in Requests
        PROVE  \/ work'[r] = work[r]
               \/ work'[r] = Users!NoWork
               \/ r = q /\ work'[r] = [work[q] EXCEPT !.stage = "created"]
    BY <1>3 DEF ServiceInv, Users!TypeOK, Users!Advance, Users!Over
  <2>3. Users!TypeOK'
    <3>1. [work[q] EXCEPT !.stage = "created"] \in Users!WorkRecords
      BY DEF ServiceInv, Users!TypeOK, Users!WorkRecords, Users!Replies
    <3>2. Users!NoWork \in Users!WorkRecords
      BY DEF Users!NoWork, Users!WorkRecords
    <3> QED
      BY <1>3, <2>1, <3>1, <3>2
         DEF ServiceInv, Users!TypeOK, Users!Advance, Users!Over
  <2>4. WorkInv'
    <3> SUFFICES ASSUME NEW r \in Requests
                 PROVE  WorkInv!(r)'
      BY DEF WorkInv
    <3>1. CASE work'[r] = work[r]
      BY <1>3, <3>1 DEF ServiceInv, WorkInv
    <3>2. CASE work'[r] = Users!NoWork
      BY <3>2 DEF Users!NoWork, EmailStages
    <3>3. CASE r = q /\ work'[r] = [work[q] EXCEPT !.stage = "created"]
      <4>1. /\ work'[q].stage = "created" /\ work'[q].op = work[q].op
            /\ work'[q].email = work[q].email /\ work'[q].who = work[q].who
        BY <3>3 DEF ServiceInv, Users!TypeOK
      <4>2. \E u \in users' : u.email = work[q].email /\ u.owner = work[q].who
        BY <1>3, <2>1
      <4> QED
        BY <1>1, <3>3, <4>1, <4>2 DEF ServiceInv, WorkInv
    <3> QED
      BY <2>2, <3>1, <3>2, <3>3
  <2> QED
    BY <1>3, <2>1, <2>3, <2>4 DEF ServiceInv
<1> QED
  BY <1>2, <1>3 DEF Users!Insert

\* A request reads a row with its e-mail, and then compares the password.
LEMMA LoginInvariant ==
  ASSUME ServiceInv, NEW q \in Requests,
         Users!FindForLogin(q) \/ Users!Compare(q)
  PROVE  ServiceInv' /\ UNCHANGED users
<1>1. CASE Users!FindForLogin(q) /\ Users!Advance(q, "denied")
  BY <1>1, AdvanceInvariant
     DEF Users!FindForLogin, Users!Handling, Users!Replies, EmailStages
<1>2. ASSUME work[q].stage = "received", work[q].op = "login", UNCHANGED users,
             NEW u \in Users!FoundFor(q), NEW active \in BOOLEAN,
             work' = [work EXCEPT ![q].stage = "comparing", ![q].found = u,
                                  ![q].active = active]
      PROVE  ServiceInv'
  <2>1. u \in users /\ u.email = work[q].email
    BY DEF Users!FoundFor, ServiceInv, AccountsInv
  <2> DEFINE w == [work[q] EXCEPT !.stage = "comparing", !.found = u,
                                  !.active = active]
  <2>2. work' = [work EXCEPT ![q] = w]
    BY <1>2 DEF ServiceInv, Users!TypeOK
  <2>3. /\ w.stage = "comparing" /\ w.found = u /\ w.op = work[q].op
        /\ w.email = work[q].email /\ w.who = work[q].who
    BY DEF ServiceInv, Users!TypeOK
  <2>4. Users!TypeOK'
    <3>1. w \in Users!WorkRecords
      BY <2>1 DEF ServiceInv, Users!TypeOK, Users!WorkRecords, Users!Handling
    <3> HIDE DEF w
    <3> QED
      BY <1>2, <2>2, <3>1 DEF ServiceInv, Users!TypeOK
  <2>5. ASSUME NEW r \in Requests
        PROVE  work'[r] = work[r] \/ (r = q /\ work'[r] = w)
    <3> HIDE DEF w
    <3> QED
      BY <2>2 DEF ServiceInv, Users!TypeOK
  <2>6. users' = users
    BY <1>2
  <2>7. WorkInv'
    <3> SUFFICES ASSUME NEW r \in Requests
                 PROVE  WorkInv!(r)'
      BY DEF WorkInv
    <3>1. CASE work'[r] = work[r]
      <4> HIDE DEF w
      <4> QED
        BY <2>6, <3>1 DEF ServiceInv, WorkInv
    <3>2. CASE r = q /\ work'[r] = w
      <4>1. /\ work'[r].stage = "comparing" /\ work'[r].found = u
            /\ work'[r].op = "login" /\ work'[r].email = work[q].email
            /\ work'[r].who = work[q].who
        <5> HIDE DEF w
        <5> QED
          BY <1>2, <2>3, <3>2
      <4>2. /\ work[q].who = q[1] /\ work[q].email \in Spellings
            /\ Lower[work[q].email] = work[q].email
        BY <1>2 DEF ServiceInv, WorkInv
      <4> HIDE DEF w
      <4> QED
        BY <1>2, <2>1, <3>2, <4>1, <4>2
    <3> QED
      BY <2>5, <3>1, <3>2
  <2> QED
    BY <2>4, <2>6, <2>7 DEF ServiceInv, AccountsInv
<1>3. CASE Users!Compare(q)
  <2>1. PICK stage \in {"denied", "inactive", "token"} :
          /\ Users!Advance(q, stage)
          /\ stage # "denied" => work[q].found.owner = work[q].who
    BY <1>3 DEF Users!Compare
  <2> QED
    BY <1>3, <2>1, AdvanceInvariant
       DEF Users!Compare, ServiceInv, WorkInv, EmailStages, Users!Handling,
           Users!Replies
<1> QED
  BY <1>1, <1>2, <1>3 DEF Users!FindForLogin, Users!Compare

\* A step of the users-service keeps its invariant and every row.
LEMMA HandleInvariant ==
  ASSUME ServiceInv, NEW q \in Requests, Users!Handle(q)
  PROVE  ServiceInv' /\ users \subseteq users'
<1>1. CASE Users!FindForRegister(q)
  <2>1. Users!FoundFor(q) # {} =>
          \E u \in users : u.email = work[q].email
    BY DEF Users!FoundFor, ServiceInv, AccountsInv
  <2> QED
    BY <1>1, <2>1, AdvanceInvariant
       DEF Users!FindForRegister, Users!Handling, Users!Replies, EmailStages
<1>2. CASE Users!Insert(q)
  BY <1>2, InsertInvariant
<1>3. CASE Users!FindForLogin(q) \/ Users!Compare(q)
  BY <1>3, LoginInvariant
<1>4. CASE Users!Validate(q)
  BY <1>4, AdvanceInvariant
     DEF Users!Validate, Users!Handling, Users!Replies, EmailStages
<1>5. CASE Users!Fail(q)
  BY <1>5, OverInvariant DEF Users!Fail
<1> QED
  BY <1>1, <1>2, <1>3, <1>4, <1>5 DEF Users!Handle

-----------------------------------------------------------------------------
(* The registry *)

accountsOf == [e \in Users!Emails |-> Users!AccountsOf(e)]

\* Steps that leave the rows alone leave the accounts of every e-mail alone.
LEMMA SameAccounts == UNCHANGED users => UNCHANGED accountsOf
BY DEF accountsOf, Users!AccountsOf, Users!Emails

\* A step of the users-service registers at most one account, of an e-mail that
\* had none.
LEMMA RegistryStep ==
  ASSUME ServiceInv, NEW q \in Requests, Users!Handle(q)
  PROVE  Users!Registry!Next \/ UNCHANGED accountsOf
<1>1. CASE UNCHANGED users
  BY <1>1, SameAccounts
<1>2. ASSUME work[q].stage = "hashing", ~Users!Taken(q),
             users' = users \cup {Users!NewRow(q)}
      PROVE  Users!Registry!Next
  <2>1. PICK new \in Users!Rows :
          new = Users!NewRow(q) /\ new.email = work[q].email
    BY <1>2, NewRowInvariant
  <2>2. PICK e \in Spellings : e = new.email /\ Lower[e] = e
    BY <1>2, <2>1 DEF ServiceInv, WorkInv, EmailStages
  <2>3. e \in Users!Emails
    BY <2>2 DEF Users!Emails
  <2>4. \A u \in users : Lower[u.email] # e
    BY <1>2, <2>1, <2>2 DEF ServiceInv, AccountsInv, Users!Taken
  <2>5. users' = users \cup {new}
    BY <1>2, <2>1
  <2>6. Users!AccountsOf(e) = {} /\ Users!AccountsOf(e)' = {new}
    BY <2>1, <2>2, <2>4, <2>5 DEF Users!AccountsOf
  <2>7. \A f \in Users!Emails \ {e} :
          Users!AccountsOf(f)' = Users!AccountsOf(f)
    BY <2>1, <2>2, <2>5 DEF Users!AccountsOf
  <2>8. accountsOf' = [accountsOf EXCEPT ![e] = {new}]
    BY <2>3, <2>6, <2>7 DEF accountsOf, Users!Emails
  <2>9. Users!Registry!Register(e)
    BY <2>1, <2>3, <2>6, <2>8 DEF accountsOf, Users!Registry!Register
  <2> QED
    BY <2>3, <2>9 DEF Users!Registry!Next
<1> QED
  BY <1>1, <1>2
     DEF Users!Handle, Users!FindForRegister, Users!Insert, Users!FindForLogin,
         Users!Compare, Users!Validate, Users!Fail

-----------------------------------------------------------------------------
(* The gateway *)

\* Steps that leave the gateway alone, and remove no row.
LEMMA GatewayKept ==
  ASSUME GatewayInv, users \subseteq users',
         UNCHANGED <<call, attempts, token, cached, sent, sellers>>
  PROVE  GatewayInv'
<1>1. \A p : Registered(p) => Registered(p)'
  BY DEF Registered
<1>2. GatewayTypes'
  BY DEF GatewayInv, GatewayTypes
<1>3. ClientInv'
  BY <1>1 DEF GatewayInv, ClientInv
<1>4. SentInv'
  BY <1>1 DEF GatewayInv, SentInv, IdentityIsOwn
<1>5. SellersAreRegistered'
  BY DEF GatewayInv, SellersAreRegistered
<1> QED
  BY <1>2, <1>3, <1>4, <1>5 DEF GatewayInv

\* A call that begins, or goes on with its next attempt.
LEMMA AttemptInvariant ==
  ASSUME ServiceInv, GatewayInv, NEW p \in People, NEW c,
         c \in [op : Users!Operations, email : Spellings \cup {NoOne},
               route : Routes \cup {NoRoute}],
         c.op # "validate" => c.email \in Spellings,
         c.op = "validate" =>
           token[p] = p /\ c.route \in Routes /\ c.route.guarded,
         attempts[p] < MaxAttempts, Attempt(p, c),
         call' = [call EXCEPT ![p] = c],
         UNCHANGED <<token, cached, forwarded>>
  PROVE  ServiceInv' /\ GatewayInv'
<1>1. ServiceInv'
  <2>1. Users!Arrive(<<p, attempts[p] + 1>>, c.op, c.email, p) /\ UNCHANGED users
    BY DEF Attempt
  <2> QED
    BY <2>1, ArriveInvariant
<1>2. attempts' = [attempts EXCEPT ![p] = attempts[p] + 1] /\ UNCHANGED users
  BY DEF Attempt
<1>3. attempts[p] + 1 \in 1 .. MaxAttempts
  BY MaxAttemptsAssumption DEF GatewayInv, GatewayTypes
<1>4. GatewayTypes'
  <2>1. attempts' \in [People -> 0 .. MaxAttempts]
    BY <1>2, <1>3 DEF GatewayInv, GatewayTypes
  <2>2. call' \in [People ->
       [op : Users!Operations \cup {"none"},
        email : Spellings \cup {NoOne}, route : Routes \cup {NoRoute}]]
    BY DEF GatewayInv, GatewayTypes
  <2> QED
    BY <2>1, <2>2 DEF GatewayInv, GatewayTypes, forwarded
<1>5. ClientInv'
  <2> SUFFICES ASSUME NEW q \in People
               PROVE  ClientInv!(q)'
    BY DEF ClientInv
  <2>1. UNCHANGED token /\ (Registered(q)' <=> Registered(q))
    BY <1>2 DEF Registered
  <2>2. CASE q # p
    <3>1. call'[q] = call[q] /\ attempts'[q] = attempts[q]
      BY <1>2, <2>2 DEF GatewayInv, GatewayTypes
    <3> QED
      BY <2>1, <3>1 DEF GatewayInv, ClientInv
  <2>3. CASE q = p
    <3>1. call'[q] = c /\ attempts'[q] # 0
      BY <1>2, <1>3, <2>3 DEF GatewayInv, GatewayTypes
    <3>2. c # NoCall /\ c.op # "none"
      BY DEF NoCall, Users!Operations
    <3> QED
      BY <2>1, <2>3, <3>1, <3>2 DEF GatewayInv, ClientInv, Users!Operations
  <2> QED
    BY <2>2, <2>3
<1>6. SentInv' /\ SellersAreRegistered'
  BY <1>2 DEF GatewayInv, SentInv, IdentityIsOwn, SellersAreRegistered,
              Registered, forwarded
<1> QED
  BY <1>1, <1>4, <1>5, <1>6 DEF GatewayInv

\* A call that ends: its client keeps the token it had, or gets its own.
LEMMA EndInvariant ==
  ASSUME GatewayInv, NEW p \in People, End(p), UNCHANGED users,
         \/ UNCHANGED token
         \/ token' = [token EXCEPT ![p] = p] /\ Registered(p)
  PROVE  /\ ClientInv'
         /\ token' \in [People -> People \cup {NoOne}]
         /\ attempts' \in [People -> 0 .. MaxAttempts]
         /\ call' \in [People ->
              [op : Users!Operations \cup {"none"},
               email : Spellings \cup {NoOne}, route : Routes \cup {NoRoute}]]
<1>1. 0 \in 0 .. MaxAttempts
  BY MaxAttemptsAssumption
<1>2. NoCall \in [op : Users!Operations \cup {"none"},
        email : Spellings \cup {NoOne}, route : Routes \cup {NoRoute}]
  BY DEF NoCall
<1>3. ClientInv'
  <2> SUFFICES ASSUME NEW q \in People
               PROVE  ClientInv!(q)'
    BY DEF ClientInv
  <2>1. Registered(q)' <=> Registered(q)
    BY DEF Registered
  <2>2. CASE q # p
    <3>1. /\ call'[q] = call[q] /\ attempts'[q] = attempts[q]
          /\ token'[q] = token[q]
      BY <2>2 DEF End, GatewayInv, GatewayTypes
    <3> QED
      BY <2>1, <3>1 DEF GatewayInv, ClientInv
  <2>3. CASE q = p
    <3>1. /\ call'[q] = NoCall /\ attempts'[q] = 0
          /\ token'[q] = token[q] \/ (token'[q] = p /\ Registered(p))
      BY <2>3 DEF End, GatewayInv, GatewayTypes
    <3>2. NoCall.op = "none"
      BY DEF NoCall
    <3> QED
      BY <2>1, <2>3, <3>1, <3>2 DEF GatewayInv, ClientInv
  <2> QED
    BY <2>2, <2>3
<1> QED
  BY <1>1, <1>2, <1>3 DEF End, GatewayInv, GatewayTypes

\* A registration, a login or a guarded route begins, or is tried again.
LEMMA CallInvariant ==
  ASSUME ServiceInv, GatewayInv, NEW p \in People,
         \/ \E op \in {"register", "login"}, s \in Typed[p] : Identify(p, op, s)
         \/ \E r \in Visited : VisitGuarded(p, r)
         \/ Retry(p)
  PROVE  ServiceInv' /\ GatewayInv' /\ UNCHANGED users
<1>1. ASSUME NEW op \in {"register", "login"}, NEW s \in Typed[p],
             Identify(p, op, s)
      PROVE  ServiceInv' /\ GatewayInv' /\ UNCHANGED users
  <2> DEFINE c == [op |-> op, email |-> s, route |-> NoRoute]
  <2>1. /\ Attempt(p, c) /\ call' = [call EXCEPT ![p] = c]
        /\ call[p] = NoCall /\ UNCHANGED <<token, cached, forwarded>>
    BY <1>1 DEF Identify, Begin, Fresh, NoCall
  <2>2. s \in Spellings
    BY TypedAssumption
  <2>3. c \in [op : Users!Operations, email : Spellings \cup {NoOne},
               route : Routes \cup {NoRoute}]
    BY <2>2 DEF Users!Operations
  <2>4. c.op # "validate" /\ c.email \in Spellings
    BY <2>2
  <2>5. attempts[p] < MaxAttempts
    BY <2>1, MaxAttemptsAssumption DEF GatewayInv, ClientInv
  <2> HIDE DEF c
  <2> QED
    BY <2>1, <2>3, <2>4, <2>5, AttemptInvariant DEF Attempt
<1>2. ASSUME NEW r \in Visited, VisitGuarded(p, r)
      PROVE  ServiceInv' /\ GatewayInv' /\ UNCHANGED users
  <2> DEFINE c == [op |-> "validate", email |-> NoOne, route |-> r]
  <2>1. /\ Attempt(p, c) /\ call' = [call EXCEPT ![p] = c]
        /\ call[p] = NoCall /\ UNCHANGED <<token, cached, forwarded>>
    BY <1>2 DEF VisitGuarded, Begin, Fresh, NoCall
  <2>2. r \in Routes /\ r.guarded /\ token[p] = p
    BY <1>2, VisitedAssumption DEF VisitGuarded, GatewayInv, ClientInv
  <2>3. c \in [op : Users!Operations, email : Spellings \cup {NoOne},
               route : Routes \cup {NoRoute}]
    BY <2>2 DEF Users!Operations
  <2>4. c.op = "validate" /\ c.route = r
    OBVIOUS
  <2>5. attempts[p] < MaxAttempts
    BY <2>1, MaxAttemptsAssumption DEF GatewayInv, ClientInv
  <2> HIDE DEF c
  <2> QED
    BY <2>1, <2>2, <2>3, <2>4, <2>5, AttemptInvariant DEF Attempt
<1>3. CASE Retry(p)
  <2> DEFINE c == call[p]
  <2>1. /\ Attempt(p, c) /\ attempts[p] < MaxAttempts /\ c # NoCall
        /\ UNCHANGED <<call, token, cached, forwarded>>
    BY <1>3 DEF Retry
  <2>2. /\ c.op # "none"
        /\ c \in [op : Users!Operations, email : Spellings \cup {NoOne},
                 route : Routes \cup {NoRoute}]
    BY <2>1 DEF GatewayInv, GatewayTypes, ClientInv
  <2>3. c.op # "validate" => c.email \in Spellings
    BY <2>2 DEF GatewayInv, ClientInv, Users!Operations
  <2>4. c.op = "validate" =>
          token[p] = p /\ c.route \in Routes /\ c.route.guarded
    BY DEF GatewayInv, ClientInv
  <2>5. call' = [call EXCEPT ![p] = c]
    BY <2>1 DEF GatewayInv, GatewayTypes
  <2> QED
    BY <2>1, <2>2, <2>3, <2>4, <2>5, AttemptInvariant DEF Attempt
<1> QED
  BY <1>1, <1>2, <1>3

\* What the guard forwards is the client's own.
LEMMA ForwardInvariant ==
  ASSUME GatewayInv, NEW p \in People, call[p].op = "validate", UNCHANGED users,
         Forward(p, p) \/ UNCHANGED sent
  PROVE  SentInv' /\ sent' \subseteq Forwards
<1> DEFINE m == [from |-> p, token |-> token[p], identity |-> p,
                 route |-> call[p].route]
<1>1. /\ token[p] = p /\ Registered(p)
      /\ call[p].route \in Routes /\ call[p].route.guarded
  BY NoOneAssumption DEF GatewayInv, ClientInv
<1>2. m \in Forwards
  BY <1>1 DEF Forwards
<1>3. m.from = p /\ m.token = p /\ m.identity = p /\ m.route.guarded
  BY <1>1
<1>4. sent' \subseteq sent \cup {m}
  BY DEF Forward
<1> HIDE DEF m
<1>5. \A q : Registered(q)' <=> Registered(q)
  BY DEF Registered
<1> QED
  BY <1>1, <1>2, <1>3, <1>4, <1>5
     DEF GatewayInv, GatewayTypes, SentInv, IdentityIsOwn

\* What client p receives, or stops waiting for.
LEMMA ReceiveInvariant ==
  ASSUME ServiceInv, GatewayInv, NEW p \in People,
         \/ GiveUp(p) \/ ReceiveAnswer(p) \/ ReceiveIdentity(p)
         \/ \E n \in Attempts : LateAnswer(p, n)
  PROVE  ServiceInv' /\ GatewayInv' /\ UNCHANGED users
<1> DEFINE q == Current(p)
<1>1. \A r \in Requests : Answered(r) => ServiceInv' /\ UNCHANGED users
  BY OverInvariant DEF Answered
<1>2. ASSUME NEW r \in Requests, Answered(r)
      PROVE  cached' \in People \cup {NoOne}
  BY <1>2 DEF Answered, ServiceInv, WorkInv, Requests, GatewayInv, GatewayTypes
<1>3. call[p].op # "none" => q \in Requests /\ q[1] = p
  BY DEF Current, Requests, Attempts, GatewayInv, GatewayTypes, ClientInv, NoCall
<1>4. ASSUME UNCHANGED <<users, sent>>
      PROVE  SentInv' /\ sent' \subseteq Forwards
  BY <1>4 DEF GatewayInv, GatewayTypes, SentInv, IdentityIsOwn, Registered
<1>5. ASSUME UNCHANGED <<users, sellers>>
      PROVE  SellersAreRegistered' /\ sellers' \subseteq People
  BY <1>5 DEF GatewayInv, GatewayTypes, SellersAreRegistered
<1>6. CASE GiveUp(p)
  <2>1. End(p) /\ UNCHANGED <<users, work, token, cached, sent, sellers>>
    BY <1>6 DEF GiveUp, Fallback, service
  <2>2. ServiceInv'
    BY <2>1 DEF ServiceInv, Users!TypeOK, AccountsInv, WorkInv
  <2> QED
    BY <1>4, <1>5, <2>1, <2>2, EndInvariant DEF GatewayInv, GatewayTypes
<1>7. CASE ReceiveAnswer(p)
  <2>1. /\ call[p].op # "none" /\ Answered(q) /\ End(p)
        /\ UNCHANGED <<sent, sellers>>
    BY <1>7 DEF ReceiveAnswer, forwarded
  <2>2. q \in Requests /\ q[1] = p
    BY <1>3, <2>1
  <2>3. \/ UNCHANGED token
        \/ token' = [token EXCEPT ![p] = p] /\ Registered(p)
    <3>1. work[q].stage = "token" =>
            /\ work[q].who = p /\ work[q].found.owner = p
            /\ work[q].found \in users
      BY <2>2 DEF ServiceInv, WorkInv
    <3> QED
      BY <1>7, <3>1 DEF ReceiveAnswer, Registered
  <2> HIDE DEF q
  <2> QED
    BY <1>1, <1>2, <1>4, <1>5, <2>1, <2>2, <2>3, EndInvariant
       DEF GatewayInv, GatewayTypes
<1>8. CASE ReceiveIdentity(p)
  <2>1. /\ call[p].op = "validate" /\ Answered(q)
        /\ UNCHANGED <<token, sellers>>
        /\ \/ work[q].stage = "identity" /\ Forward(p, work[q].who)
           \/ End(p) /\ UNCHANGED sent
    BY <1>8 DEF ReceiveIdentity
  <2>2. q \in Requests /\ q[1] = p
    BY <1>3, <2>1
  <2>3. work[q].stage = "identity" => work[q].who = p
    BY <2>2 DEF ServiceInv, WorkInv
  <2>4. End(p) /\ (Forward(p, p) \/ UNCHANGED sent)
    BY <2>1, <2>3 DEF Forward
  <2> HIDE DEF q
  <2> QED
    BY <1>1, <1>2, <1>5, <2>1, <2>2, <2>4, EndInvariant, ForwardInvariant
       DEF GatewayInv, GatewayTypes
<1>9. ASSUME NEW n \in Attempts, LateAnswer(p, n)
      PROVE  ServiceInv' /\ GatewayInv' /\ UNCHANGED users
  <2>1. <<p, n>> \in Requests /\ Answered(<<p, n>>)
    BY <1>9 DEF LateAnswer, Requests
  <2>2. UNCHANGED <<users, call, attempts, token, sent, sellers>>
    BY <1>1, <1>9, <2>1 DEF LateAnswer, forwarded
  <2>3. ClientInv'
    BY <2>2 DEF GatewayInv, ClientInv, Registered
  <2> QED
    BY <1>1, <1>2, <1>4, <1>5, <2>1, <2>2, <2>3 DEF GatewayInv, GatewayTypes
<1> QED
  BY <1>6, <1>7, <1>8, <1>9

LEMMA CreateIsGuarded == ProductRoutes.create.guarded
BY DEF ProductRoutes, Guarded, Public

\* Requests that are forwarded, served and lost.
LEMMA ForwardedInvariant ==
  ASSUME GatewayInv,
         \/ \E p \in People, r \in Visited : VisitPublic(p, r)
         \/ \E m \in sent : Serve(m) \/ Lose(m)
  PROVE  GatewayInv' /\ UNCHANGED service
<1>1. UNCHANGED <<users, work, call, attempts, token, cached>>
  BY DEF VisitPublic, Serve, Lose, service
<1>2. ClientInv' /\ (\A p : Registered(p)' <=> Registered(p))
  BY <1>1 DEF GatewayInv, ClientInv, Registered
<1>3. SentInv' /\ sent' \subseteq Forwards
  <2>1. ASSUME NEW p \in People, NEW r \in Visited, VisitPublic(p, r)
        PROVE  SentInv' /\ sent' \subseteq Forwards
    <3> DEFINE m == [from |-> p, token |-> NoOne, identity |-> NoOne, route |-> r]
    <3>1. m \in Forwards /\ ~m.route.guarded /\ m.token = NoOne /\ m.identity = NoOne
      BY <2>1, VisitedAssumption DEF Forwards, VisitPublic
    <3>2. sent' = sent \cup {m}
      BY <2>1 DEF VisitPublic
    <3> HIDE DEF m
    <3> QED
      BY <1>2, <3>1, <3>2 DEF GatewayInv, GatewayTypes, SentInv, IdentityIsOwn
  <2>2. ASSUME sent' \subseteq sent
        PROVE  SentInv' /\ sent' \subseteq Forwards
    BY <1>2, <2>2 DEF GatewayInv, GatewayTypes, SentInv, IdentityIsOwn
  <2> QED
    BY <2>1, <2>2 DEF Serve, Lose
<1>4. SellersAreRegistered' /\ sellers' \subseteq People
  <2>1. CASE UNCHANGED sellers
    BY <1>1, <2>1 DEF GatewayInv, GatewayTypes, SellersAreRegistered
  <2>2. ASSUME NEW m \in sent, Creates(m), sellers' = sellers \cup {m.token}
        PROVE  SellersAreRegistered' /\ sellers' \subseteq People
    <3>1. m.route.guarded /\ Role[m.token] = "seller"
      BY <2>2, CreateIsGuarded DEF Creates
    <3>2. m.token \in People /\ Registered(m.token)
      BY <3>1 DEF GatewayInv, GatewayTypes, SentInv, IdentityIsOwn, Forwards
    <3> QED
      BY <1>1, <2>2, <3>1, <3>2
         DEF GatewayInv, GatewayTypes, SellersAreRegistered, Registered
  <2> QED
    BY <2>1, <2>2 DEF VisitPublic, Serve, Lose
<1> QED
  BY <1>1, <1>2, <1>3, <1>4 DEF GatewayInv, GatewayTypes, service

-----------------------------------------------------------------------------
(* The theorems *)

LEMMA InitInvariant == Init => ServiceInv /\ GatewayInv /\ Users!Registry!Init
<1> SUFFICES ASSUME Init
             PROVE  ServiceInv /\ GatewayInv /\ Users!Registry!Init
  OBVIOUS
<1>1. Users!TypeOK
  <2>1. Users!NoWork \in Users!WorkRecords
    BY DEF Users!NoWork, Users!WorkRecords
  <2> QED
    BY <2>1 DEF Init, Users!Init, Users!TypeOK
<1>2. AccountsInv
  BY FS_EmptySet DEF Init, Users!Init, AccountsInv
<1>3. WorkInv
  BY DEF Init, Users!Init, Users!NoWork, WorkInv, EmailStages
<1>4. GatewayTypes
  BY MaxAttemptsAssumption DEF Init, GatewayTypes, NoCall
<1>5. ClientInv /\ SentInv /\ SellersAreRegistered
  BY DEF Init, ClientInv, NoCall, SentInv, IdentityIsOwn, SellersAreRegistered
<1>6. Users!Registry!Init
  BY DEF Init, Users!Init, Users!Registry!Init, Users!AccountsOf
<1> QED
  BY <1>1, <1>2, <1>3, <1>4, <1>5, <1>6 DEF ServiceInv, GatewayInv

\* Every step keeps the invariant, and registers at most one account.
LEMMA StepInvariant ==
  ASSUME ServiceInv, GatewayInv, [Next]_vars
  PROVE  /\ ServiceInv' /\ GatewayInv'
         /\ Users!Registry!Next \/ UNCHANGED accountsOf
<1>1. CASE UsersService
  <2>1. PICK q \in Requests : Users!Handle(q)
    BY <1>1 DEF UsersService
  <2>2. ServiceInv' /\ users \subseteq users'
    BY <2>1, HandleInvariant
  <2>3. GatewayInv'
    BY <1>1, <2>2, GatewayKept DEF UsersService, forwarded
  <2> QED
    BY <2>1, <2>2, <2>3, RegistryStep
<1>2. ASSUME NEW p \in People, Client(p)
      PROVE  ServiceInv' /\ GatewayInv' /\ UNCHANGED users
  <2>1. CASE \E r \in Visited : VisitPublic(p, r)
    BY <2>1, ForwardedInvariant
       DEF service, ServiceInv, Users!TypeOK, AccountsInv, WorkInv
  <2> QED
    BY <1>2, <2>1, CallInvariant, ReceiveInvariant DEF Client
<1>3. CASE \E m \in sent : Serve(m) \/ Lose(m)
  BY <1>3, ForwardedInvariant
     DEF service, ServiceInv, Users!TypeOK, AccountsInv, WorkInv, accountsOf,
         Users!AccountsOf
<1>4. CASE UNCHANGED vars
  <2>1. UNCHANGED <<users, work, call, attempts, token, cached, sent, sellers>>
    BY <1>4 DEF vars
  <2> QED
    BY <2>1, GatewayKept, SameAccounts
       DEF ServiceInv, Users!TypeOK, AccountsInv, WorkInv
<1> QED
  BY <1>1, <1>2, <1>3, <1>4, SameAccounts DEF Next

\* The inductive invariant: rows are normal and unique, a request knows only
\* what the rows say, and a client holds no token but its own.
THEOREM Invariant == Spec => []IInv
<1>1. Init => IInv
  BY InitInvariant, InvariantParts
<1>2. IInv /\ [Next]_vars => IInv'
  <2> SUFFICES ASSUME IInv, [Next]_vars
               PROVE  IInv'
    OBVIOUS
  <2>1. ServiceInv' /\ GatewayInv'
    BY InvariantParts, StepInvariant
  <2> QED
    BY <2>1 DEF IInv, TypeOK, ServiceInv, GatewayInv, GatewayTypes
<1> QED
  BY <1>1, <1>2, PTL DEF Spec

\* What the users-service answers is true when it answers it, however many
\* registrations and logins run at the same time and are tried again.
THEOREM TruthfulReplies == Spec => []RepliesAreTrue
<1>1. IInv => RepliesAreTrue
  <2> SUFFICES ASSUME IInv, NEW q \in Requests
               PROVE  RepliesAreTrue!(q)
    BY DEF RepliesAreTrue
  <2> DEFINE w == work[q]
  <2>1. \A u \in users : u \in Users!AccountsOf(w.email) <=> u.email = w.email
    BY DEF IInv, AccountsInv, Users!AccountsOf
  <2>2. w.stage \in {"token", "inactive", "created"} =>
          \E u \in users : u.email = w.email /\ u.owner = w.who
    BY DEF IInv, WorkInv
  <2>3. w.stage = "conflict" => \E u \in users : u.email = w.email
    BY DEF IInv, WorkInv
  <2>4. Users!AccountsOf(w.email) \subseteq users
    BY DEF Users!AccountsOf
  <2>5. \A u, v \in users : u.email = v.email => u = v
    BY DEF IInv, AccountsInv
  <2> QED
    BY <2>1, <2>2, <2>3, <2>4, <2>5
<1> QED
  BY <1>1, Invariant, PTL

\* Nothing but the confirmed login of its client authenticates a guarded route.
THEOREM OwnIdentity == Spec => []IdentityIsOwn
<1>1. IInv => IdentityIsOwn
  BY DEF IInv, SentInv
<1> QED
  BY <1>1, Invariant, PTL

\* Products belong to registered sellers.
THEOREM RegisteredSellers == Spec => []SellersAreRegistered
<1>1. IInv => SellersAreRegistered
  BY DEF IInv
<1> QED
  BY <1>1, Invariant, PTL

\* The service behind the gateway implements the registry of accounts.
THEOREM ImplementsAccounts == Spec => ImplementsRegistry
<1>1. Init => Users!Registry!Init
  BY InitInvariant
<1>2. IInv /\ [Next]_vars =>
        [Users!Registry!Next]_([e \in Users!Emails |-> Users!AccountsOf(e)])
  BY InvariantParts, StepInvariant DEF accountsOf
<1> QED
  BY <1>1, <1>2, Invariant, PTL DEF Spec, ImplementsRegistry, Users!Registry!Spec
=============================================================================
