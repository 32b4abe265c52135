-------------------------- MODULE RegistrationProofs --------------------------
(* Proofs about Registration: what the two unique indexes guarantee to        *)
(* requests that interleave between their statements.                         *)
EXTENDS Registration, FiniteSetTheorems, TLAPS

\* The requests that have created a row: a login presents a discriminator.
Creators == {r \in Requests : disc[r] = 0 /\ user[r] # 0}

\* Rows are numbered in the order they were committed, one for each creator.
Numbered == Ids = 1 .. Cardinality(Creators)

\* What the unique indexes of table users enforce.
Distinct ==
  \A i, j \in Ids :
    /\ SameIdentity(users[i], users[j].name, users[j].disc) => i = j
    /\ SameEmail(users[i], users[j].email) => i = j

\* The account of a request is the one it registered or the one it named.
Named(r) ==
  /\ user[r] \in Ids
  /\ disc[r] = 0 => users[user[r]].name = name[r] /\ users[user[r]].email = email[r]
  /\ disc[r] # 0 => user[r] \in Found(name[r], disc[r], email[r])

\* A request has an account from its insert or lookup on and an answer only when
\* it is done.
Progress ==
  \A r \in Requests :
    /\ pc[r] \in {"idle", "creating"} => user[r] = 0 /\ disc[r] = 0
    /\ pc[r] = "creating" => name[r] \in Names
    /\ pc[r] = "issuing" => Named(r)
    /\ pc[r] # "done" => status[r] = 0

\* A positive answer comes in the same step as the session.
Answered ==
  \A r \in Requests :
    /\ status[r] \in {200, 201} => <<r, user[r]>> \in sessions /\ Named(r)
    /\ status[r] = 200 => disc[r] # 0
    /\ status[r] = 201 => disc[r] = 0
    /\ status[r] \in {400, 401, 409} \/ (status[r] = 500 /\ r \notin failed) => user[r] = 0

\* No other request has a session, unless a failure hid it.
Positive ==
  \A s \in sessions : status[s[1]] \in {200, 201} \/ (status[s[1]] = 500 /\ s[1] \in failed)

IndInv == TypeOK /\ Numbered /\ Distinct /\ Progress /\ Answered /\ Positive

\* No rows, no requests.
LEMMA InitIndInv == Init => IndInv
  <1> SUFFICES ASSUME Init PROVE IndInv
    OBVIOUS
  <1>1. Ids = {} /\ Creators = {}
    BY DEF Init, Creators, Ids
  <1>2. TypeOK
    BY <1>1, TriesAssumption DEF Init, TypeOK, Emails
  <1>3. Numbered
    BY <1>1, FS_EmptySet DEF Numbered
  <1>4. Distinct /\ Progress /\ Answered /\ Positive
    BY <1>1 DEF Init, Distinct, Progress, Answered, Positive
  <1> QED
    BY <1>2, <1>3, <1>4 DEF IndInv

\* Finitely many creators, as many as rows.
LEMMA CountCreators ==
  ASSUME Numbered
  PROVE  /\ IsFiniteSet(Creators) /\ Cardinality(Creators) \in Nat
         /\ IsFiniteSet(Ids) /\ Cardinality(Ids) = Cardinality(Creators)
  <1>1. IsFiniteSet(Creators) /\ Cardinality(Creators) \in Nat
    BY RequestsAssumption, FS_Subset, FS_CardinalityType DEF Creators
  <1> QED
    BY <1>1, FS_Interval DEF Numbered

\* The two indexes leave at most one row for an identity and one for an email.
LEMMA FoundOnce ==
  ASSUME Distinct, NEW n, NEW d, NEW e, NEW i \in Found(n, d, e), NEW j \in Found(n, d, e)
  PROVE  i = j
  <1>1. CASE e = NoEmail
    BY <1>1 DEF Found, Distinct, SameIdentity
  <1>2. CASE e # NoEmail
    BY <1>2 DEF Found, Distinct, SameEmail
  <1> QED
    BY <1>1, <1>2

\* A request that only answers; a failure may have left it a session.
LEMMA AnswerOnly ==
  ASSUME IndInv, NEW r \in Requests, NEW code \in {400, 401, 409, 500}, Answer(r, code),
         pc[r] # "done", code # 500 \/ r \notin failed' => user[r] = 0,
         sessions \subseteq sessions', sessions' \subseteq sessions \cup {<<r, user[r]>>},
         sessions' = sessions \/ (code = 500 /\ r \in failed' /\ user[r] \in Ids),
         UNCHANGED <<users, name, email, disc, user>>,
         tries' = tries, failed \subseteq failed', failed' \subseteq failed \cup {r}
  PROVE  IndInv'
  <1> USE DEF IndInv
  <1>1. /\ pc'[r] = "done" /\ status'[r] = code
        /\ \A q \in Requests \ {r} : pc'[q] = pc[q] /\ status'[q] = status[q]
    BY DEF Answer, TypeOK
  <1>2. Ids' = Ids /\ Creators' = Creators /\ \A q : Named(q)' <=> Named(q)
    BY DEF Ids, Creators, Named, Found, SameEmail
  <1>3. TypeOK'
    <2>1. sessions' \subseteq Requests \X Ids'
      BY <1>2 DEF TypeOK
    <2> QED
      BY <1>2, <2>1 DEF TypeOK, Answer
  <1>4. Numbered' /\ Distinct'
    BY <1>2 DEF Numbered, Distinct, SameEmail, SameIdentity
  <1>5. Progress'
    BY <1>1, <1>2 DEF Progress
  <1>6. Answered'
    BY <1>1, <1>2 DEF Answered, Progress
  <1>7. Positive'
    <2>1. status[r] = 0
      BY DEF Progress
    <2>2. \A s \in sessions : s[1] \in Requests \ {r}
      BY <2>1 DEF Positive, TypeOK
    <2>3. \A s \in sessions' \ sessions : s[1] = r /\ status'[r] = 500 /\ r \in failed'
      BY <1>1
    <2>4. \A s \in sessions : status'[s[1]] \in {200, 201}
                               \/ (status'[s[1]] = 500 /\ s[1] \in failed')
      BY <1>1, <2>2 DEF Positive
    <2> QED
      BY <2>3, <2>4 DEF Positive
  <1> QED
    BY <1>3, <1>4, <1>5, <1>6, <1>7

\* An insert commits a row that no other row equals under the indexes.
LEMMA InsertIndInv ==
  ASSUME IndInv, NEW r \in Requests, NEW d \in Discs, Insert(r, d) \/ InsertUnconfirmed(r, d)
  PROVE  IndInv'
  <1> DEFINE n == Cardinality(Creators) + 1
  <1> USE DEF IndInv
  <1>1. /\ pc[r] = "creating" /\ user[r] = 0 /\ disc[r] = 0 /\ status[r] = 0
        /\ name[r] \in Names /\ r \notin Creators /\ InsertRow(r, d)
    BY DEF Insert, InsertUnconfirmed, InsertRow, Progress, Creators
  <1>2. /\ Cardinality(Creators) \in Nat /\ Ids = 1 .. Cardinality(Creators)
        /\ Cardinality(Ids) + 1 = n
    BY CountCreators DEF Numbered
  <1> HIDE DEF n
  <1>3. n \in Nat /\ n # 0 /\ n \notin Ids /\ Ids \cup {n} = 1 .. n
    BY <1>2 DEF n
  <1>4. /\ Ids' = Ids \cup {n}
        /\ users'[n] = [name |-> name[r], disc |-> d, email |-> email[r]]
        /\ \A i \in Ids : users'[i] = users[i]
    BY <1>1, <1>2, <1>3 DEF InsertRow, Ids
  <1>5. /\ user' = [user EXCEPT ![r] = n]
        /\ UNCHANGED <<sessions, name, email, disc, tries>>
    BY <1>1, <1>2 DEF InsertRow
  <1>6. /\ user'[r] = n
        /\ \A q \in Requests \ {r} : /\ pc'[q] = pc[q] /\ user'[q] = user[q]
                                     /\ status'[q] = status[q]
        /\ \/ pc'[r] = "issuing" /\ status'[r] = 0 /\ failed' = failed
           \/ pc'[r] = "done" /\ status'[r] = 500 /\ failed' = failed \cup {r}
        /\ pc' \in [Requests -> {"idle", "creating", "issuing", "done"}]
        /\ status' \in [Requests -> {0, 200, 201, 400, 401, 409, 500}]
    <2>1. CASE Insert(r, d)
      BY <1>1, <1>5, <2>1 DEF Insert, TypeOK
    <2>2. CASE InsertUnconfirmed(r, d)
      BY <1>1, <1>5, <2>2 DEF InsertUnconfirmed, Answer, TypeOK
    <2> QED
      BY <2>1, <2>2
  <1>7. Creators' = Creators \cup {r}
    BY <1>1, <1>3, <1>5, <1>6 DEF Creators
  <1>8. Cardinality(Creators') = n /\ n <= Cardinality(Requests)
    <2>1. Cardinality(Creators') = n
      BY <1>1, <1>7, CountCreators, FS_AddElement DEF n
    <2>2. Creators' \in SUBSET Requests
      BY DEF Creators
    <2> QED
      BY <2>1, <2>2, RequestsAssumption, FS_Subset
  <1>9. TypeOK'
    <2>1. Ids' \subseteq 1 .. Cardinality(Requests)
      BY <1>3, <1>4, <1>8, RequestsAssumption, FS_CardinalityType
    <2>2. \A i \in Ids' : users'[i] \in Rows
      BY <1>1, <1>4 DEF TypeOK, Rows
    <2>3. user' \in [Requests -> Ids' \cup {0}] /\ sessions' \subseteq Requests \X Ids'
      BY <1>4, <1>5 DEF TypeOK
    <2> QED
      BY <1>5, <1>6, <2>1, <2>2, <2>3 DEF TypeOK
  <1>10. Numbered'
    BY <1>3, <1>4, <1>8 DEF Numbered
  <1>11. Distinct'
    <2>1. /\ ~\E i \in Ids : SameIdentity(users[i], name[r], d)
          /\ ~\E i \in Ids : SameEmail(users[i], email[r])
      BY <1>1 DEF InsertRow, Constraints, Violates
    <2>2. \A i \in Ids : /\ ~SameIdentity(users'[i], users'[n].name, users'[n].disc)
                         /\ ~SameIdentity(users'[n], users'[i].name, users'[i].disc)
                         /\ ~SameEmail(users'[i], users'[n].email)
                         /\ ~SameEmail(users'[n], users'[i].email)
      BY <1>4, <2>1 DEF SameIdentity, SameEmail
    <2>3. \A i, j \in Ids : /\ SameIdentity(users'[i], users'[j].name, users'[j].disc) => i = j
                            /\ SameEmail(users'[i], users'[j].email) => i = j
      BY <1>4 DEF Distinct
    <2> QED
      BY <1>4, <2>2, <2>3 DEF Distinct
  <1>12. \A q \in Requests \ {r} : Named(q) => Named(q)'
    BY <1>4, <1>5, <1>6 DEF Named, Found, SameEmail
  <1>13. Progress'
    <2>1. Named(r)'
      BY <1>1, <1>4, <1>5, <1>6 DEF Named
    <2> QED
      BY <1>1, <1>5, <1>6, <1>12, <2>1 DEF Progress
  <1>14. Answered'
    BY <1>1, <1>5, <1>6, <1>12 DEF Answered
  <1>15. Positive'
    <2>1. \A s \in sessions : s[1] \in Requests \ {r}
      BY <1>1 DEF Positive, TypeOK
    <2> QED
      BY <1>5, <1>6, <2>1 DEF Positive
  <1> QED
    BY <1>9, <1>10, <1>11, <1>13, <1>14, <1>15

\* The other steps leave the rows alone.
LEMMA RegisterIndInv ==
  ASSUME IndInv, NEW r \in Requests, Register(r)
  PROVE  IndInv'
  <1> USE DEF IndInv
  <1>1. /\ pc[r] = "idle" /\ pc'[r] = "creating" /\ name'[r] \in Names /\ name' \in [Requests -> Names \cup {NoEmail}]
        /\ email' \in [Requests -> Emails]
        /\ \A q \in Requests \ {r} :
             pc'[q] = pc[q] /\ name'[q] = name[q] /\ email'[q] = email[q]
        /\ UNCHANGED <<users, sessions, disc, tries, user, status, failed>>
    BY DEF Register, TypeOK
  <1>2. Ids' = Ids /\ Creators' = Creators /\ \A q \in Requests \ {r} : Named(q)' <=> Named(q)
    BY <1>1 DEF Ids, Creators, Named, Found, SameEmail
  <1>3. TypeOK'
    BY <1>1, <1>2 DEF TypeOK, Register
  <1>4. Numbered' /\ Distinct'
    BY <1>1, <1>2 DEF Numbered, Distinct, SameEmail, SameIdentity
  <1>5. Progress'
    BY <1>1, <1>2 DEF Progress
  <1>6. Answered' /\ Positive'
    BY <1>1, <1>2 DEF Answered, Progress, Positive
  <1> QED
    BY <1>3, <1>4, <1>5, <1>6

\* A conflict sends a request round its loop again, or ends it.
LEMMA InsertConflictsIndInv ==
  ASSUME IndInv, NEW r \in Requests, NEW d \in Discs, InsertConflicts(r, d)
  PROVE  IndInv'
  <1>1. PICK c \in Constraints :
          /\ pc[r] = "creating" /\ Violates(c, name[r], d, email[r])
          /\ IF c = "user_identity_key" /\ tries[r] + 1 < MaxTries
             THEN tries' = [tries EXCEPT ![r] = @ + 1] /\ UNCHANGED <<pc, status>>
             ELSE /\ Answer(r, IF c \in {"user_identity_key", "users_email_key"} THEN 409 ELSE 500)
                  /\ UNCHANGED tries
          /\ UNCHANGED <<users, sessions, name, email, disc, user, failed>>
    BY DEF InsertConflicts
  <1>2. c # "user_identity_key"
    BY DEF Constraints
  <1>3. PICK code \in {400, 401, 409, 500} : Answer(r, code)
    BY <1>1, <1>2
  <1>4. user[r] = 0 /\ failed' = failed /\ tries' = tries
    BY <1>1, <1>2 DEF IndInv, Progress
  <1>5. pc[r] # "done" /\ UNCHANGED <<users, name, email, disc, user>>
    BY <1>1
  <1>6. sessions' = sessions
    BY <1>1
  <1> QED
    BY <1>3, <1>4, <1>5, <1>6, AnswerOnly

\* A login that finds an account has the one it named.
LEMMA LoginIndInv ==
  ASSUME IndInv, NEW r \in Requests, Login(r)
  PROVE  IndInv'
  <1> USE DEF IndInv
  <1>0. PICK n \in Names, d \in Discs, e \in Emails :
          /\ name' = [name EXCEPT ![r] = n] /\ disc' = [disc EXCEPT ![r] = d]
          /\ email' = [email EXCEPT ![r] = e]
          /\ \E id \in Found(n, d, e) : user' = [user EXCEPT ![r] = id]
    BY DEF Login
  <1>1. PICK id \in Found(n, d, e) : user' = [user EXCEPT ![r] = id]
    BY <1>0
  <1>2. d # 0 /\ id \in Ids
    BY <1>1, DiscsAssumption DEF Found
  <1>3. /\ name'[r] = n /\ disc'[r] = d /\ email'[r] = e /\ user'[r] = id
        /\ \A q \in Requests \ {r} : /\ name'[q] = name[q] /\ disc'[q] = disc[q]
                                     /\ email'[q] = email[q] /\ user'[q] = user[q]
    BY <1>0, <1>1 DEF TypeOK
  <1>4. /\ pc[r] = "idle" /\ pc'[r] = "issuing" /\ \A q \in Requests \ {r} : pc'[q] = pc[q]
        /\ UNCHANGED <<users, sessions, tries, status, failed>>
    BY DEF Login, TypeOK
  <1>5. Ids' = Ids /\ \A q \in Requests \ {r} : Named(q)' <=> Named(q)
    BY <1>3, <1>4 DEF Ids, Named, Found, SameEmail
  <1>6. Named(r)'
    BY <1>2, <1>3, <1>4, <1>5 DEF Named, Found, SameEmail
  <1>7. Creators' = Creators
    <2>1. user[r] = 0
      BY <1>4 DEF Progress
    <2> QED
      BY <1>2, <1>3, <2>1 DEF Creators
  <1>8. TypeOK'
    BY <1>0, <1>1, <1>2, <1>4, <1>5 DEF TypeOK, Login
  <1>9. Numbered' /\ Distinct'
    BY <1>4, <1>5, <1>7 DEF Numbered, Distinct, SameEmail, SameIdentity
  <1>10. Progress'
    <2>1. \A q \in Requests \ {r} : Named(q) => Named(q)'
      BY <1>5
    <2> QED
      BY <1>3, <1>4, <1>6, <2>1 DEF Progress
  <1>11. Answered'
    <2> SUFFICES ASSUME NEW q \in Requests
                 PROVE  /\ status'[q] \in {200, 201} => <<q, user'[q]>> \in sessions' /\ Named(q)'
                        /\ status'[q] = 200 => disc'[q] # 0
                        /\ status'[q] = 201 => disc'[q] = 0
                        /\ status'[q] \in {400, 401, 409} \/ (status'[q] = 500 /\ q \notin failed')
                             => user'[q] = 0
      BY DEF Answered
    <2>1. CASE q = r
      <3>1. status'[r] = 0
        BY <1>4 DEF Progress
      <3> QED
        BY <2>1, <3>1
    <2>2. CASE q # r
      BY <1>3, <1>4, <1>5, <2>2 DEF Answered
    <2> QED
      BY <2>1, <2>2
  <1>12. Positive'
    BY <1>4 DEF Positive
  <1> QED
    BY <1>8, <1>9, <1>10, <1>11, <1>12

\* The session and the positive answer come in one step.
LEMMA RespondIndInv ==
  ASSUME IndInv, NEW r \in Requests, Respond(r)
  PROVE  IndInv'
  <1> USE DEF IndInv
  <1>1. /\ pc[r] = "issuing" /\ sessions' = sessions \cup {<<r, user[r]>>}
        /\ UNCHANGED <<users, name, email, disc, tries, user, failed>>
    BY DEF Respond
  <1>2. /\ pc'[r] = "done" /\ status'[r] \in {200, 201} /\ (status'[r] = 201 <=> disc[r] = 0)
        /\ \A q \in Requests \ {r} : pc'[q] = pc[q] /\ status'[q] = status[q]
    BY DEF Respond, Answer, TypeOK
  <1>3. Ids' = Ids /\ Creators' = Creators /\ \A q : Named(q)' <=> Named(q)
    BY <1>1 DEF Ids, Creators, Named, Found, SameEmail
  <1>4. Named(r)
    BY <1>1 DEF Progress
  <1>5. TypeOK'
    <2>1. sessions' \subseteq Requests \X Ids'
      BY <1>1, <1>3, <1>4 DEF TypeOK, Named
    <2>2. /\ pc' \in [Requests -> {"idle", "creating", "issuing", "done"}]
          /\ status' \in [Requests -> {0, 200, 201, 400, 401, 409, 500}]
      BY DEF Respond, Answer, TypeOK
    <2> QED
      BY <1>1, <1>3, <2>1, <2>2 DEF TypeOK
  <1>6. Numbered' /\ Distinct'
    BY <1>1, <1>3 DEF Numbered, Distinct, SameEmail, SameIdentity
  <1>7. Progress'
    BY <1>1, <1>2, <1>3 DEF Progress
  <1>8. Answered'
    BY <1>1, <1>2, <1>3, <1>4 DEF Answered
  <1>9. Positive'
    <2>1. \A s \in sessions : s[1] \in Requests
      BY DEF TypeOK
    <2>2. \A s \in sessions : status'[s[1]] \in {200, 201}
                               \/ (status'[s[1]] = 500 /\ s[1] \in failed)
      BY <1>2, <2>1 DEF Positive
    <2> QED
      BY <1>1, <1>2, <2>2 DEF Positive
  <1> QED
    BY <1>5, <1>6, <1>7, <1>8, <1>9

\* Every step preserves the inductive invariant.
LEMMA NextIndInv == IndInv /\ [Next]_vars => IndInv'
  <1> SUFFICES ASSUME IndInv, [Next]_vars PROVE IndInv'
    OBVIOUS
  <1>1. CASE UNCHANGED vars
    <2>1. Ids' = Ids /\ Creators' = Creators /\ \A q : Named(q)' <=> Named(q)
      BY <1>1 DEF vars, request, Ids, Creators, Named, Found, SameEmail
    <2>2. TypeOK' /\ Numbered' /\ Distinct'
      BY <1>1, <2>1 DEF vars, request, IndInv, TypeOK, Numbered, Distinct, SameEmail, SameIdentity
    <2>3. Progress' /\ Answered' /\ Positive'
      BY <1>1, <2>1 DEF vars, request, IndInv, Progress, Answered, Positive
    <2> QED
      BY <2>2, <2>3 DEF IndInv
  <1>2. ASSUME NEW r \in Requests,
               RegisterInvalid(r) \/ CreateFails(r) \/ LoginRefused(r) \/ IssueFails(r)
        PROVE  IndInv'
    <2>1. PICK code \in {400, 401, 409, 500} :
            /\ Answer(r, code) /\ (code # 500 => pc[r] = "idle")
            /\ failed' = IF code = 500 THEN failed \cup {r} ELSE failed
            /\ sessions' = sessions \/ (code = 500 /\ pc[r] = "issuing")
      BY <1>2 DEF RegisterInvalid, CreateFails, LoginRefused, IssueFails
    <2>2. (code # 500 => user[r] = 0) /\ (pc[r] = "issuing" => user[r] \in Ids)
      BY <2>1 DEF IndInv, Progress, Named
    <2>3. /\ pc[r] # "done" /\ tries' = tries /\ UNCHANGED <<users, name, email, disc, user>>
          /\ sessions \subseteq sessions' /\ sessions' \subseteq sessions \cup {<<r, user[r]>>}
      BY <1>2 DEF RegisterInvalid, CreateFails, LoginRefused, IssueFails
    <2> QED
      BY <2>1, <2>2, <2>3, AnswerOnly
  <1> QED
    BY <1>1, <1>2, RegisterIndInv, InsertIndInv, InsertConflictsIndInv, LoginIndInv,
      RespondIndInv DEF Next

\* The inductive invariant holds in every reachable state.
THEOREM Invariance == Spec => []IndInv
  BY InitIndInv, NextIndInv, PTL DEF Spec

\* Every variable keeps its type, and there are never more rows than requests.
THEOREM TypeCorrect == Spec => []TypeOK
  <1>1. IndInv => TypeOK
    BY DEF IndInv
  <1> QED
    BY <1>1, Invariance, PTL

\* Whatever is typed to log in selects at most one account, whatever the
\* interleaving of the registrations that came before.
THEOREM LoginsUnambiguous == Spec => []LoginUnambiguous
  <1>1. IndInv => LoginUnambiguous
    <2> SUFFICES ASSUME IndInv, NEW n \in Names, NEW d \in Discs, NEW e \in Emails
                 PROVE  Cardinality(Found(n, d, e)) <= 1
      BY DEF LoginUnambiguous
    <2>1. CASE Found(n, d, e) = {}
      BY <2>1, FS_EmptySet
    <2>2. CASE Found(n, d, e) # {}
      <3>1. PICK i : i \in Found(n, d, e)
        BY <2>2
      <3>2. Found(n, d, e) = {i}
        BY <3>1, FoundOnce DEF IndInv
      <3>3. Cardinality({i}) = 1
        BY FS_Singleton
      <3> QED
        BY <3>2, <3>3
    <2> QED
      BY <2>1, <2>2
  <1> QED
    BY <1>1, Invariance, PTL

\* A positive answer stands for a session of the account named, a refusal for
\* nothing, an internal error for nothing unless the database failed.
THEOREM AnswersAlwaysMeanIt == Spec => []AnswersMeanIt
  <1>1. IndInv => AnswersMeanIt
    <2> SUFFICES ASSUME IndInv PROVE AnswersMeanIt
      OBVIOUS
    <2>1. ASSUME NEW r \in Requests, NEW id \in Ids, <<r, id>> \in sessions
          PROVE  status[r] \in {200, 201} \/ (status[r] = 500 /\ r \in failed)
      BY <2>1 DEF IndInv, Positive
    <2> QED
      BY <2>1 DEF IndInv, AnswersMeanIt, Answered, Named
  <1> QED
    BY <1>1, Invariance, PTL
===============================================================================
