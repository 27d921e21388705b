--------------------------- MODULE AccountRegistry ---------------------------
(***************************************************************************)
(* What the users-service promises about accounts: an e-mail gets at most  *)
(* one, and keeps it.  UserAccounts implements it, however many            *)
(* registrations of the e-mail run at the same time.                       *)
(***************************************************************************)
CONSTANTS Emails,  \* the e-mails accounts are registered under
          Accounts \* the accounts

VARIABLE accounts \* the accounts of each e-mail

Init == accounts = [e \in Emails |-> {}]

\* The first account of e, one of accounts'[e] since Accounts need not be finite.
Register(e) ==
  /\ accounts[e] = {}
  /\ \E a \in accounts'[e] :
       a \in Accounts /\ accounts' = [accounts EXCEPT ![e] = {a}]

Next == \E e \in Emails : Register(e)

Spec == Init /\ [][Next]_accounts
=============================================================================
