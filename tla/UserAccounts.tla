---------------------------- MODULE UserAccounts ----------------------------
(***************************************************************************)
(* AuthService of the users-service: registration, login and the           *)
(* validation of tokens, as the queries their requests run.  Requests run  *)
(* at the same time, and each statement reads the last committed rows.     *)
(*                                                                         *)
(* A person stands for the password and the names they register with: what *)
(* a request types belongs to its person, and bcrypt's compare succeeds    *)
(* for the person whose hash it is given.                                  *)
(***************************************************************************)
EXTENDS Naturals, FiniteSets

CONSTANTS Requests,  \* the HTTP requests being handled
          People,    \* those who register and log in
          Spellings, \* the e-mails as they are typed
          Lower,     \* what trim and toLowerCase make of each
          NoOne      \* nobody: an absent row

VARIABLES users, \* the rows of table users
          work   \* work[q]: request q and how far it is

vars == <<users, work>>

\* A row: its identifier, its e-mail and whose it is.
Rows == [id : Nat, email : Spellings, owner : People]
NoRow == [id |-> 0, email |-> NoOne, owner |-> NoOne]

Operations == {"register", "login", "validate"}
Handling == {"received", "hashing", "comparing"}
Replies == {"created", "conflict", "denied", "inactive", "token", "identity"}

\* found: the row the login read, and active: the status it had then.
NoWork == [stage |-> "none", op |-> "none", email |-> NoOne, who |-> NoOne,
           found |-> NoRow, active |-> FALSE]

Init == users = {} /\ work = [q \in Requests |-> NoWork]

Advance(q, stage) == work' = [work EXCEPT ![q].stage = stage]

\* The request is over, without an answer or once it was answered.
Over(q) == work' = [work EXCEPT ![q] = NoWork]

\* Mutant: the e-mail is only trimmed.
Trimmed(s) == s

\* loginSchema and registerSchema normalise the e-mail before it is used.
Normalized(s) == Lower[s]

\* findUserByEmail compares the lower case of the column; the unique
\* constraint compares the column itself.
FoundFor(q) == {u \in users : Lower[u.email] = work[q].email}
Taken(q) == \E u \in users : u.email = work[q].email

-----------------------------------------------------------------------------
\* A request of p arrives: a registration or a login with the e-mail s, or a
\* validation of the token of p.
Arrive(q, op, s, p) ==
  work' = [work EXCEPT ![q] =
    [stage |-> "received", op |-> op,
     email |-> IF op = "validate" THEN NoOne ELSE Normalized(s), who |-> p,
     found |-> NoRow, active |-> FALSE]]

\* register looks for the e-mail, and hashes the password when it is free.
FindForRegister(q) ==
  /\ work[q].stage = "received" /\ work[q].op = "register"
  /\ \/ FoundFor(q) # {} /\ Advance(q, "conflict")
     \/ FoundFor(q) = {} /\ Advance(q, "hashing")
  /\ UNCHANGED users

\* The database draws an identifier no row has: the rows are counted.
NewRow(q) ==
  [id |-> Cardinality(users) + 1, email |-> work[q].email, owner |-> work[q].who]

\* Mutant: an insert that lost the race answers with the user it looked for.
InsertOrReuse(q) ==
  /\ work[q].stage = "hashing"
  /\ users' = IF Taken(q) THEN users ELSE users \cup {NewRow(q)}
  /\ Advance(q, "created")

\* The insert: another registration may have taken the e-mail meanwhile, which
\* the unique violation reports.  The answer of the insert may be lost.
Insert(q) ==
  /\ work[q].stage = "hashing"
  /\ \/ Taken(q) /\ Advance(q, "conflict") /\ UNCHANGED users
     \/ /\ ~Taken(q)
        /\ users' = users \cup {NewRow(q)}
        /\ Advance(q, "created") \/ Over(q)

\* The row with its status, which an administrator sets in the database.
FindForLogin(q) ==
  /\ work[q].stage = "received" /\ work[q].op = "login"
  /\ \/ FoundFor(q) = {} /\ Advance(q, "denied")
     \/ \E u \in FoundFor(q), active \in BOOLEAN :
          work' = [work EXCEPT ![q].stage = "comparing", ![q].found = u,
                               ![q].active = active]
  /\ UNCHANGED users

\* The password, then the status, both of the row that was read.
Compare(q) ==
  /\ work[q].stage = "comparing"
  /\ Advance(q, CASE work[q].found.owner # work[q].who -> "denied"
                  [] work[q].found.owner = work[q].who /\ ~work[q].active -> "inactive"
                  [] OTHER -> "token")
  /\ UNCHANGED users

\* validate-token answers from the token alone, which may have expired.
Validate(q) ==
  /\ work[q].stage = "received" /\ work[q].op = "validate"
  /\ Advance(q, "identity") \/ Advance(q, "denied")
  /\ UNCHANGED users

\* The request never arrives, or a query fails: a 500, or no answer.
Fail(q) ==
  /\ work[q].stage \in Handling
  /\ Over(q)
  /\ UNCHANGED users

Handle(q) ==
  \/ FindForRegister(q) \/ Insert(q) \/ FindForLogin(q) \/ Compare(q)
  \/ Validate(q) \/ Fail(q)

-----------------------------------------------------------------------------
WorkRecords ==
  [stage : {"none"} \cup Handling \cup Replies,
   op : {"none"} \cup Operations, email : Spellings \cup {NoOne},
   who : People \cup {NoOne}, found : Rows \cup {NoRow}, active : BOOLEAN]

TypeOK == users \subseteq Rows /\ work \in [Requests -> WorkRecords]

\* The accounts registered under each e-mail, in whatever spelling it is stored.
Emails == {Lower[s] : s \in Spellings}
AccountsOf(e) == {u \in users : Lower[u.email] = e}
Registry == INSTANCE AccountRegistry WITH
  Accounts <- Rows, accounts <- [e \in Emails |-> AccountsOf(e)]
=============================================================================
