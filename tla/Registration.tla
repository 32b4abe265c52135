----------------------------- MODULE Registration -----------------------------
(****************************************************************************)
(* Accounts: POST /register and POST /login (internal/api/handlers.go), the *)
(* user store (internal/user/store.go) and table users with its two unique  *)
(* indexes (internal/db/migrations/0001_users.sql).                         *)
(*                                                                          *)
(* A name or an email is a pair <<word, spelling>>: lower() forgets the     *)
(* spelling.  An insert is one statement outside any transaction, so it     *)
(* commits or fails in one step; the requests interleave between their      *)
(* statements.                                                              *)
(****************************************************************************)
EXTENDS Integers, FiniteSets

CONSTANTS
  Requests,   \* goroutines that serve requests, one request each
  Words,      \* what names and emails are made of
  Spellings,  \* upper and lower case
  Discs,      \* the discriminators; 0 stands for none
  MaxTries    \* maxDiscriminatorTries

ASSUME RequestsAssumption == IsFiniteSet(Requests)
ASSUME DiscsAssumption    == 0 \notin Discs
ASSUME TriesAssumption    == MaxTries \in Nat \ {0}

NoEmail == <<"no", "email">>
Names   == Words \X Spellings
Emails  == Names \cup {NoEmail}
Lower(text) == text[1]

VARIABLES
  users,     \* rows of table users, in the order they were committed: id |-> row
  sessions,  \* families of the session store: the request that issued each, and its user
  pc,        \* where each request is
  name,      \* username of the request
  email,     \* email of the request, NoEmail for none
  disc,      \* discriminator the request presents at login
  tries,     \* turns of the loop in Create
  user,      \* id of the user the request is about, 0 for none
  status,    \* the HTTP status it was answered with, 0 for none
  failed     \* history: requests hit by a failure of the database, the id
             \* generator or their connection

request == <<pc, name, email, disc, tries, user, status>>
vars    == <<users, sessions, request, failed>>

Rows == [name : Names, disc : Discs, email : Emails]
Ids  == DOMAIN users

TypeOK ==
  /\ Ids \subseteq 1 .. Cardinality(Requests)
  /\ \A id \in Ids : users[id] \in Rows
  /\ sessions \subseteq Requests \X Ids
  /\ pc \in [Requests -> {"idle", "creating", "issuing", "done"}]
  /\ name \in [Requests -> Names \cup {NoEmail}]
  /\ email \in [Requests -> Emails]
  /\ disc \in [Requests -> Discs \cup {0}]
  /\ tries \in [Requests -> 0 .. MaxTries - 1]
  /\ user \in [Requests -> Ids \cup {0}]
  /\ status \in [Requests -> {0, 200, 201, 400, 401, 409, 500}]
  /\ failed \subseteq Requests

Init ==
  /\ users = <<>>
  /\ sessions = {}
  /\ pc = [r \in Requests |-> "idle"]
  /\ name = [r \in Requests |-> NoEmail]
  /\ email = [r \in Requests |-> NoEmail]
  /\ disc = [r \in Requests |-> 0]
  /\ tries = [r \in Requests |-> 0]
  /\ user = [r \in Requests |-> 0]
  /\ status = [r \in Requests |-> 0]
  /\ failed = {}

------------------------------------------------------------------------------
(* The unique indexes of 0001_users.sql, in the order Postgres checks them. *)

\* Mutation: the index is on username, not on lower(username).
SameIdentityExact(u, n, d) == u.name = n /\ u.disc = d

SameIdentity(u, n, d) == Lower(u.name) = Lower(n) /\ u.disc = d
SameEmail(u, e)       == e # NoEmail /\ u.email # NoEmail /\ Lower(u.email) = Lower(e)

Violates(constraint, n, d, e) ==
  LET taken == \E id \in Ids : SameIdentity(users[id], n, d) IN
  \/ constraint = "users_identity_key" /\ taken
  \/ /\ constraint = "users_email_key" /\ ~taken
     /\ \E id \in Ids : SameEmail(users[id], e)

Constraints == {"users_identity_key", "users_email_key"}

Answer(r, code) ==
  /\ pc' = [pc EXCEPT ![r] = "done"]
  /\ status' = [status EXCEPT ![r] = code]

------------------------------------------------------------------------------
(* POST /register *)

\* handleRegister up to the call of Create: username, email and password pass.
Register(r) ==
  /\ pc[r] = "idle"
  /\ \E n \in Names, e \in Emails :
       /\ name' = [name EXCEPT ![r] = n]
       /\ email' = [email EXCEPT ![r] = e]
  /\ pc' = [pc EXCEPT ![r] = "creating"]
  /\ UNCHANGED <<users, sessions, disc, tries, user, status, failed>>

\* A body, username, email or password that does not pass.
RegisterInvalid(r) ==
  /\ pc[r] = "idle"
  /\ Answer(r, 400)
  /\ UNCHANGED <<users, sessions, name, email, disc, tries, user, failed>>

\* The insert statement commits.
InsertRow(r, d) ==
  /\ pc[r] = "creating"
  /\ \A c \in Constraints : ~Violates(c, name[r], d, email[r])
  /\ LET id == Cardinality(Ids) + 1 IN
     /\ users' = [i \in Ids \cup {id} |->
                    IF i = id THEN [name |-> name[r], disc |-> d, email |-> email[r]] ELSE users[i]]
     /\ user' = [user EXCEPT ![r] = id]
  /\ UNCHANGED <<sessions, name, email, disc, tries>>

\* One turn of the loop in Create: draw a discriminator and insert.
Insert(r, d) ==
  /\ InsertRow(r, d)
  /\ pc' = [pc EXCEPT ![r] = "issuing"]
  /\ UNCHANGED <<status, failed>>

\* The row is there and its confirmation is lost: Create reports an error.
InsertUnconfirmed(r, d) ==
  /\ InsertRow(r, d)
  /\ failed' = failed \cup {r}
  /\ Answer(r, 500)

\* Mutation: the constraint is the right one, the loop has one turn too many.
InsertConflictsOnceMore(r, d) ==
  \E c \in Constraints :
    /\ pc[r] = "creating"
    /\ Violates(c, name[r], d, email[r])
    /\ IF c = "users_identity_key" /\ tries[r] < MaxTries
       THEN tries' = [tries EXCEPT ![r] = @ + 1] /\ UNCHANGED <<pc, status>>
       ELSE Answer(r, 409) /\ UNCHANGED tries
    /\ UNCHANGED <<users, sessions, name, email, disc, user, failed>>

\* A unique violation.  The switch knows the constraint "user_identity_key",
\* not "users_identity_key": a taken discriminator ends the loop.
InsertConflicts(r, d) ==
  \E c \in Constraints :
    /\ pc[r] = "creating"
    /\ Violates(c, name[r], d, email[r])
    /\ IF c = "user_identity_key" /\ tries[r] + 1 < MaxTries
       THEN tries' = [tries EXCEPT ![r] = @ + 1] /\ UNCHANGED <<pc, status>>
       ELSE /\ Answer(r, IF c \in {"user_identity_key", "users_email_key"} THEN 409 ELSE 500)
            /\ UNCHANGED tries
    /\ UNCHANGED <<users, sessions, name, email, disc, user, failed>>

\* Any other error of the loop, no row inserted.
CreateFails(r) ==
  /\ pc[r] = "creating"
  /\ failed' = failed \cup {r}
  /\ Answer(r, 500)
  /\ UNCHANGED <<users, sessions, name, email, disc, tries, user>>

------------------------------------------------------------------------------
(* POST /login: lookup and VerifyPassword *)

\* The rows that GetByIdentity or GetByEmail selects.
Found(n, d, e) ==
  IF e = NoEmail
  THEN {id \in Ids : Lower(users[id].name) = Lower(n) /\ users[id].disc = d}
  ELSE {id \in Ids : SameEmail(users[id], e)}

\* The right password for the account found.  A handle gives name and
\* discriminator, an email stands alone.
Login(r) ==
  /\ pc[r] = "idle"
  /\ \E n \in Names, d \in Discs, e \in Emails :
       /\ name' = [name EXCEPT ![r] = n]
       /\ disc' = [disc EXCEPT ![r] = d]
       /\ email' = [email EXCEPT ![r] = e]
       /\ \E id \in Found(n, d, e) : user' = [user EXCEPT ![r] = id]
  /\ pc' = [pc EXCEPT ![r] = "issuing"]
  /\ UNCHANGED <<users, sessions, tries, status, failed>>

\* No such account, or the wrong password.
LoginRefused(r) ==
  /\ pc[r] = "idle"
  /\ Answer(r, 401)
  /\ UNCHANGED <<users, sessions, name, email, disc, tries, user, failed>>

------------------------------------------------------------------------------
(* issueAndRespond *)

\* Mutation: the session is lost and the client told it has one.
RespondWithoutSession(r) ==
  /\ pc[r] = "issuing"
  /\ Answer(r, IF disc[r] = 0 THEN 201 ELSE 200)
  /\ UNCHANGED <<users, sessions, name, email, disc, tries, user, failed>>

Respond(r) ==
  /\ pc[r] = "issuing"
  /\ sessions' = sessions \cup {<<r, user[r]>>}
  /\ Answer(r, IF disc[r] = 0 THEN 201 ELSE 200)
  /\ UNCHANGED <<users, name, email, disc, tries, user, failed>>

\* No access token, or no session, or one whose insert was not confirmed.  The
\* user row of a registration stays.
IssueFails(r) ==
  /\ pc[r] = "issuing"
  /\ \E s \in SUBSET {<<r, user[r]>>} : sessions' = sessions \cup s
  /\ failed' = failed \cup {r}
  /\ Answer(r, 500)
  /\ UNCHANGED <<users, name, email, disc, tries, user>>

------------------------------------------------------------------------------
Next ==
  \E r \in Requests :
    \/ Register(r) \/ RegisterInvalid(r)
    \/ \E d \in Discs : Insert(r, d) \/ InsertUnconfirmed(r, d) \/ InsertConflicts(r, d)
    \/ CreateFails(r)
    \/ Login(r) \/ LoginRefused(r)
    \/ Respond(r) \/ IssueFails(r)

Spec == Init /\ [][Next]_vars

------------------------------------------------------------------------------
(* Properties *)

\* Whatever a client types to log in, in whatever case, selects at most one
\* account: lookup reads the first row only, and concurrent registrations must
\* not make a second one.
LoginUnambiguous ==
  \A n \in Names, d \in Discs, e \in Emails : Cardinality(Found(n, d, e)) <= 1

\* A positive answer stands for a session of the account the client named: the
\* one it registered or the one its identity selects.  A request that was turned
\* down has left neither an account nor a session, and behind an internal error
\* only a failure can have left one.
AnswersMeanIt ==
  \A r \in Requests :
    /\ status[r] = 201 =>
         /\ <<r, user[r]>> \in sessions
         /\ users[user[r]].name = name[r] /\ users[user[r]].email = email[r]
    /\ status[r] = 200 =>
         /\ <<r, user[r]>> \in sessions
         /\ user[r] \in Found(name[r], disc[r], email[r])
    /\ status[r] \in {400, 401, 409} \/ (status[r] = 500 /\ r \notin failed) =>
         /\ user[r] = 0
         /\ \A id \in Ids : <<r, id>> \notin sessions

\* "Create inserts a new user, retrying on discriminator collisions"
\* (user/store.go:42): only a failure makes a valid registration an internal
\* error.
CollisionsRetried == \A r \in Requests : status[r] = 500 => r \in failed
==============================================================================
