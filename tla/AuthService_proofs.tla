------------------------ MODULE AuthService_proofs ------------------------
(***************************************************************************)
(* That one email has one account, that a registration is answered truly,  *)
(* and that a role which is taken away runs out with the access tokens.    *)
(***************************************************************************)
EXTENDS AuthService, FiniteSetTheorems, TLAPS

-----------------------------------------------------------------------------
(* The inductive invariant *)

\* Ids are given out in order, and no row is ever deleted.
IdsInv ==
    /\ IsFiniteSet(users)
    /\ \A u \in users : u.id \in 1 .. Cardinality(users)

\* The account id has the role, or has had it at the time since or later.
HasHeld(id, role, since) ==
    \/ \E u \in users : u.id = id /\ u.role = role
    \/ \E h \in lastHeld : h.id = id /\ h.role = role /\ h.at >= since

\* Between the read of an account and the signing of its tokens the clock
\* stands still: the role they will carry is held now, or was a moment ago.
SignInv == \A c \in Calls :
    /\ pc[c] \in {"save", "sign"} => user[c] \in Accounts
    /\ pc[c] = "sign" => HasHeld(user[c].id, user[c].role, now)

\* The role of an access token was held when it was signed, or later.
TokenInv == \A t \in tokens : t.use = "access" =>
    t.expires <= now + AccessTtl /\ HasHeld(t.sub, t.role, t.expires - AccessTtl)

\* A registration past its insert has made an account; one that was refused
\* without a fault has met the email.
RegisterInv == \A c \in Calls : kind[c] = "register" =>
    /\ pc[c] = "sign" \/ (pc[c] = "done" /\ reply[c] = 201) =>
           \E u \in users : u.id = user[c].id /\ u.email = user[c].email
    /\ pc[c] = "done" /\ (reply[c] = 409 \/ (reply[c] = 500 /\ faults = 0)) =>
           FindByEmail(user[c].email) # {}

IndInv ==
    /\ TypeOK
    /\ IdsInv
    /\ OneAccountPerEmail
    /\ SignInv
    /\ TokenInv
    /\ RegisterInv

-----------------------------------------------------------------------------
(* Types *)

\* With the seeded account, or none, the types are right.
LEMMA InitTypes == Init => TypeOK
BY BoundsAssumption DEF Init, TypeOK, Accounts, Account, Roles

\* What a call does to its own variables.
LEMMA StepTypes ==
    ASSUME TypeOK, NEW c \in Calls, NEW next \in {"idle", "save", "sign", "done"},
           NEW status \in {0, 201, 401, 409, 500}, NEW u \in Accounts \union {None},
           Step(c, next, status, u)
    PROVE  /\ pc' \in [Calls -> {"idle", "save", "sign", "done"}]
           /\ user' \in [Calls -> Accounts \union {None}]
           /\ reply' \in [Calls -> {0, 201, 401, 409, 500}]
           /\ pc'[c] = next /\ reply'[c] = status /\ user'[c] = u
           /\ \A d \in Calls \ {c} : pc'[d] = pc[d] /\ reply'[d] = reply[d] /\ user'[d] = user[d]
BY DEF Step, TypeOK

\* A row to insert, and the tokens signed for a row.
LEMMA RowTypes ==
    /\ \A e \in Emails, p \in Passwords : NewUser(e, p) \in Accounts
    /\ \A u \in Accounts, n \in Nat : [u EXCEPT !.id = n] \in Accounts
    /\ \A u \in Accounts, n \in Nat :
           /\ [u EXCEPT !.id = n].id = n
           /\ [u EXCEPT !.id = n].email = u.email
           /\ [u EXCEPT !.id = n].role = u.role
BY DEF NewUser, Account, Accounts, Roles

\* What is signed is a token.
LEMMA TokenTypes ==
    ASSUME TypeOK, NEW u \in Accounts, NEW ttl \in Nat, NEW use \in {"access", "refresh"}
    PROVE  Token(u, use, ttl) \in [use : {"access", "refresh"}, sub : Nat, role : Roles, expires : Nat]
BY DEF Token, TypeOK, Accounts

-----------------------------------------------------------------------------
(* Rows of users *)

\* A save adds a row with the next id and an email nobody has.
LEMMA SaveEffect ==
    ASSUME TypeOK, IdsInv, SignInv, NEW c \in Calls, Save(c)
    PROVE  LET u == [user[c] EXCEPT !.id = Cardinality(users) + 1] IN
           /\ u \in Accounts
           /\ u.id = Cardinality(users) + 1 /\ u.email = user[c].email /\ u.role = user[c].role
           /\ \A v \in users : v.email # u.email /\ v.id # u.id
           /\ users' = users \union {u}
           /\ Step(c, "sign", 0, u)
           /\ UNCHANGED <<tokens, now, kind, lastHeld, faults>>
<1> DEFINE u == [user[c] EXCEPT !.id = Cardinality(users) + 1]
<1>1. Cardinality(users) \in Nat
  BY FS_CardinalityType DEF IdsInv
<1>2. user[c] \in Accounts
  BY DEF Save, SignInv
<1>3. u \in Accounts /\ u.id = Cardinality(users) + 1 /\ u.email = user[c].email /\ u.role = user[c].role
  BY <1>1, <1>2, RowTypes
<1>4. \A v \in users : v.email # u.email
  BY <1>3 DEF Save, FindByEmail
<1>5. \A v \in users : v.id # u.id
  BY <1>1, <1>3 DEF IdsInv
<1> QED BY <1>3, <1>4, <1>5 DEF Save, Insert

\* The seed replaces the row of an email, keeping its id, or adds one.
LEMMA SeedEffect ==
    ASSUME TypeOK, IdsInv, OneAccountPerEmail, NEW row \in SeedRows, SeedUser(row)
    PROVE  \E n \in Nat :
           LET new == Account(n, row.email, row.passwordHash, row.role) IN
           /\ new \in Accounts
           /\ \/ /\ FindByEmail(row.email) = {}
                 /\ n = Cardinality(users) + 1
                 /\ users' = users \union {new}
                 /\ lastHeld' = lastHeld
              \/ \E old \in users :
                    /\ old.email = row.email /\ n = old.id
                    /\ users' = (users \ {old}) \union {new}
                    /\ lastHeld' = lastHeld \union
                           (IF old.role # row.role THEN {[id |-> n, role |-> old.role, at |-> now]} ELSE {})
<1> DEFINE found == FindByEmail(row.email)
           n == IF found = {} THEN Cardinality(users) + 1 ELSE (CHOOSE u \in found : TRUE).id
           new == Account(n, row.email, row.passwordHash, row.role)
<1>1. /\ users' = {u \in users : u.email # row.email} \union {new}
      /\ lastHeld' = lastHeld \union
             {[id |-> u.id, role |-> u.role, at |-> now] : u \in {u \in found : u.role # row.role}}
  BY Zenon DEF SeedUser
<1>2. Cardinality(users) \in Nat
  BY FS_CardinalityType DEF IdsInv
<1>3. ASSUME NEW k \in Nat PROVE Account(k, row.email, row.passwordHash, row.role) \in Accounts
  BY SeedAssumption DEF Account, Accounts, Roles
<1>4. CASE found = {}
  <2>1. n = Cardinality(users) + 1 /\ n \in Nat
    BY <1>2, <1>4
  <2>2. {u \in users : u.email # row.email} = users
    BY <1>4 DEF FindByEmail
  <2>3. users' = users \union {new} /\ lastHeld' = lastHeld
    BY <1>1, <1>4, <2>2
  <2> QED BY <1>3, <1>4, <2>1, <2>3
<1>5. CASE found # {}
  <2>1. PICK old \in users : found = {old} /\ old.email = row.email
    BY <1>5 DEF FindByEmail, OneAccountPerEmail
  <2>2. n = old.id /\ n \in Nat
    BY <2>1 DEF TypeOK, Accounts
  <2>3. {u \in users : u.email # row.email} = users \ {old}
    BY <2>1 DEF FindByEmail
  <2>4. {[id |-> u.id, role |-> u.role, at |-> now] : u \in {u \in found : u.role # row.role}}
            = IF old.role # row.role THEN {[id |-> old.id, role |-> old.role, at |-> now]} ELSE {}
    BY <2>1
  <2>5. users' = (users \ {old}) \union {new}
    BY <1>1, <2>3
  <2>6. lastHeld' = lastHeld \union
            (IF old.role # row.role THEN {[id |-> old.id, role |-> old.role, at |-> now]} ELSE {})
    BY <1>1, <2>4
  <2> HIDE DEF n
  <2> QED BY <1>3, <2>1, <2>2, <2>5, <2>6
<1> QED BY <1>4, <1>5

\* Only a save and the seed write users.
LEMMA UsersChange ==
    ASSUME Next
    PROVE  \/ UNCHANGED <<users, lastHeld>>
           \/ \E c \in Calls : Save(c)
           \/ \E row \in SeedRows : SeedUser(row)
BY DEF Next, Register, Login, Refresh, Arrives, SaveRefused, IssueTokenPair, StatementFails, Tick

\* Accounts are added under new ids and emails, and none is taken away.
LEMMA AccountsStep ==
    ASSUME TypeOK, IdsInv, OneAccountPerEmail, SignInv, Next
    PROVE  /\ IdsInv'
           /\ OneAccountPerEmail'
           /\ users' \subseteq Accounts
           /\ \A u \in users : \E v \in users' : v.id = u.id /\ v.email = u.email
<1> DEFINE Goal == /\ IdsInv'
                   /\ OneAccountPerEmail'
                   /\ users' \subseteq Accounts
                   /\ \A u \in users : \E v \in users' : v.id = u.id /\ v.email = u.email
<1>1. Cardinality(users) \in Nat /\ users \subseteq Accounts
  BY FS_CardinalityType DEF IdsInv, TypeOK
<1>2. CASE UNCHANGED users
  BY <1>1, <1>2 DEF IdsInv, OneAccountPerEmail
<1>3. ASSUME NEW new \in Accounts, users' = users \union {new}, new.id = Cardinality(users) + 1,
             \A u \in users : u.email # new.email
      PROVE  Goal
  <2>1. \A u \in users : u.id # new.id
    BY <1>1, <1>3 DEF IdsInv
  <2>2. new \notin users
    BY <1>3
  <2>3. IsFiniteSet(users') /\ Cardinality(users') = Cardinality(users) + 1
    BY <1>3, <2>2, FS_AddElement DEF IdsInv
  <2>4. IdsInv'
    <3>1. \A u \in users' : u.id \in 1 .. Cardinality(users) + 1
      BY <1>1, <1>3 DEF IdsInv
    <3> QED BY <2>3, <3>1 DEF IdsInv
  <2>5. OneAccountPerEmail'
    BY <1>3, <2>1 DEF OneAccountPerEmail
  <2> QED BY <1>1, <1>3, <2>4, <2>5
<1>4. ASSUME NEW old \in users, NEW new \in Accounts, users' = (users \ {old}) \union {new},
             new.id = old.id, new.email = old.email
      PROVE  Goal
  <2> DEFINE rest == users \ {old}
  <2>1. IsFiniteSet(rest) /\ Cardinality(rest) = Cardinality(users) - 1
    BY FS_RemoveElement DEF IdsInv
  <2>2. \A u \in rest : u.id # new.id /\ u.email # new.email
    BY <1>4 DEF OneAccountPerEmail
  <2>3. new \notin rest
    BY <2>2
  <2>4. IsFiniteSet(rest \union {new}) /\ Cardinality(rest \union {new}) = Cardinality(rest) + 1
    BY <2>1, <2>3, FS_AddElement
  <2>5. IsFiniteSet(users') /\ Cardinality(users') = Cardinality(users)
    BY <1>1, <1>4, <2>1, <2>4
  <2>6. IdsInv'
    BY <1>4, <2>5 DEF IdsInv
  <2>7. OneAccountPerEmail'
    BY <1>4, <2>2 DEF OneAccountPerEmail
  <2> QED BY <1>1, <1>4, <2>6, <2>7
<1>5. ASSUME NEW c \in Calls, Save(c) PROVE Goal
  <2> DEFINE u == [user[c] EXCEPT !.id = Cardinality(users) + 1]
  <2>1. /\ u \in Accounts /\ u.id = Cardinality(users) + 1
        /\ \A v \in users : v.email # u.email
        /\ users' = users \union {u}
    BY <1>5, SaveEffect
  <2> HIDE DEF u, Goal
  <2> QED BY <1>3, <2>1
<1>6. ASSUME NEW row \in SeedRows, SeedUser(row) PROVE Goal
  <2> DEFINE new(n) == Account(n, row.email, row.passwordHash, row.role)
  <2>1. PICK n \in Nat :
           /\ new(n) \in Accounts
           /\ \/ /\ FindByEmail(row.email) = {}
                 /\ n = Cardinality(users) + 1
                 /\ users' = users \union {new(n)}
              \/ \E old \in users : /\ old.email = row.email /\ n = old.id
                                    /\ users' = (users \ {old}) \union {new(n)}
    BY <1>6, SeedEffect
  <2>2. new(n).id = n /\ new(n).email = row.email
    BY DEF Account
  <2> HIDE DEF new, Goal
  <2>3. CASE FindByEmail(row.email) = {} /\ n = Cardinality(users) + 1 /\ users' = users \union {new(n)}
    <3>1. \A u \in users : u.email # new(n).email
      BY <2>2, <2>3 DEF FindByEmail
    <3> QED BY <1>3, <2>1, <2>2, <2>3, <3>1
  <2>4. CASE \E old \in users : old.email = row.email /\ n = old.id /\ users' = (users \ {old}) \union {new(n)}
    BY <1>4, <2>1, <2>2, <2>4
  <2> QED BY <2>1, <2>3, <2>4
<1> QED BY <1>2, <1>5, <1>6, UsersChange

\* Whoever has held a role will have held it.
LEMMA HeldStays ==
    ASSUME TypeOK, IdsInv, OneAccountPerEmail, SignInv, Next,
           NEW id, NEW role, NEW since \in Int, since <= now, HasHeld(id, role, since)
    PROVE  HasHeld(id, role, since)'
<1>1. CASE UNCHANGED <<users, lastHeld>>
  BY <1>1 DEF HasHeld
<1>2. ASSUME users \subseteq users', lastHeld \subseteq lastHeld' PROVE HasHeld(id, role, since)'
  BY <1>2 DEF HasHeld
<1>3. ASSUME NEW c \in Calls, Save(c) PROVE HasHeld(id, role, since)'
  <2>1. users \subseteq users' /\ lastHeld' = lastHeld
    BY <1>3 DEF Save, Insert
  <2> QED BY <1>2, <2>1
<1>4. ASSUME NEW row \in SeedRows, SeedUser(row) PROVE HasHeld(id, role, since)'
  <2> DEFINE new(n) == Account(n, row.email, row.passwordHash, row.role)
             Replaced(old, n) ==
                /\ n = old.id
                /\ users' = (users \ {old}) \union {new(n)}
                /\ lastHeld' = lastHeld \union
                      (IF old.role # row.role THEN {[id |-> n, role |-> old.role, at |-> now]} ELSE {})
  <2>1. PICK n \in Nat :
            \/ users' = users \union {new(n)} /\ lastHeld' = lastHeld
            \/ \E old \in users : Replaced(old, n)
    BY <1>4, SeedEffect
  <2>2. new(n).id = n /\ new(n).role = row.role
    BY DEF Account
  <2> HIDE DEF new
  <2>3. ASSUME NEW old \in users, Replaced(old, n) PROVE HasHeld(id, role, since)'
    <3>1. CASE old.id = id /\ old.role = role /\ old.role = row.role
      BY <2>2, <2>3, <3>1 DEF HasHeld
    <3>2. CASE old.id = id /\ old.role = role /\ old.role # row.role
      <4> DEFINE h == [id |-> n, role |-> old.role, at |-> now]
      <4>1. h \in lastHeld' /\ h.id = id /\ h.role = role /\ h.at >= since
        BY <2>3, <3>2 DEF TypeOK
      <4> QED BY <4>1 DEF HasHeld
    <3>3. CASE ~ (old.id = id /\ old.role = role)
      BY <2>3, <3>3 DEF HasHeld
    <3> QED BY <3>1, <3>2, <3>3
  <2> QED BY <1>2, <2>1, <2>3
<1> QED BY <1>1, <1>3, <1>4, UsersChange

-----------------------------------------------------------------------------
(* The steps *)

\* Every step keeps the types.
LEMMA TypeStep == TypeOK /\ IdsInv /\ OneAccountPerEmail /\ SignInv /\ Next => TypeOK'
<1> SUFFICES ASSUME TypeOK, IdsInv, OneAccountPerEmail, SignInv, Next PROVE TypeOK'
  OBVIOUS
<1> DEFINE Call == /\ pc' \in [Calls -> {"idle", "save", "sign", "done"}]
                   /\ user' \in [Calls -> Accounts \union {None}]
                   /\ reply' \in [Calls -> {0, 201, 401, 409, 500}]
<1>1. users' \subseteq Accounts
  BY AccountsStep
<1>2. ASSUME NEW c \in Calls, NEW next \in {"save", "sign", "done"}, NEW status \in {0, 201, 401, 409, 500},
             NEW u \in Accounts \union {None}, Step(c, next, status, u)
      PROVE  Call
  BY <1>2, StepTypes
<1>3. ASSUME NEW c \in Calls, NEW what \in {"register", "login", "refresh"}, Arrives(c, what), Call
      PROVE  TypeOK'
  BY <1>1, <1>3 DEF Arrives, TypeOK
<1>4. ASSUME Call, UNCHANGED <<tokens, now, kind, lastHeld, faults>> PROVE TypeOK'
  BY <1>1, <1>4 DEF TypeOK
<1> HIDE DEF Call
<1>5. ASSUME NEW c \in Calls, NEW status \in {0, 201, 401, 409, 500}, Answer(c, status) PROVE Call
  <2>1. user[c] \in Accounts \union {None}
    BY DEF TypeOK
  <2> QED BY <1>2, <1>5, <2>1 DEF Answer
<1>6. ASSUME NEW c \in Calls, NEW e \in Emails, NEW p \in Passwords, Register(c, e, p) PROVE TypeOK'
  <2>1. Call
    BY <1>2, <1>6, RowTypes DEF Register
  <2> QED BY <1>3, <1>6, <2>1 DEF Register
<1>7. ASSUME NEW c \in Calls, NEW e \in Emails, NEW p \in Passwords, Login(c, e, p) PROVE TypeOK'
  <2>1. FindByEmail(e) \subseteq Accounts
    BY DEF FindByEmail, TypeOK
  <2>2. Call
    BY <1>2, <1>7, <2>1 DEF Login
  <2> QED BY <1>3, <1>7, <2>2 DEF Login
<1>8. ASSUME NEW c \in Calls, NEW t \in tokens, Refresh(c, t) PROVE TypeOK'
  <2>1. FindById(t.sub) \subseteq Accounts
    BY DEF FindById, TypeOK
  <2>2. Call
    BY <1>2, <1>8, <2>1 DEF Refresh, RoleOfAccount
  <2> QED BY <1>3, <1>8, <2>2 DEF Refresh
<1>9. ASSUME NEW c \in Calls, Save(c) PROVE TypeOK'
  <2>1. \E u \in Accounts : Step(c, "sign", 0, u)
    BY <1>9, SaveEffect, Zenon
  <2>2. Call
    BY <1>2, <2>1
  <2> QED BY <1>4, <1>9, <2>2 DEF Save, Insert
<1>10. ASSUME NEW c \in Calls, SaveRefused(c) PROVE TypeOK'
  BY <1>4, <1>5, <1>10 DEF SaveRefused
<1>11. ASSUME NEW c \in Calls, IssueTokenPair(c) PROVE TypeOK'
  <2>1. user[c] \in Accounts
    BY <1>11 DEF IssueTokenPair, SignInv
  <2>2. tokens' \subseteq [use : {"access", "refresh"}, sub : Nat, role : Roles, expires : Nat]
    <3> DEFINE Tokens == [use : {"access", "refresh"}, sub : Nat, role : Roles, expires : Nat]
    <3>1. Token(user[c], "access", AccessTtl) \in Tokens /\ Token(user[c], "refresh", RefreshTtl) \in Tokens
      BY <2>1, TokenTypes, TtlAssumption
    <3>2. tokens \subseteq Tokens
      BY DEF TypeOK
    <3> HIDE DEF Tokens
    <3>3. tokens' \subseteq Tokens
      BY <1>11, <3>1, <3>2 DEF IssueTokenPair
    <3> QED BY <3>3 DEF Tokens
  <2>3. Call
    BY <1>5, <1>11 DEF IssueTokenPair
  <2> QED BY <1>1, <1>11, <2>2, <2>3 DEF IssueTokenPair, TypeOK, Call
<1>12. ASSUME NEW c \in Calls, StatementFails(c) PROVE TypeOK'
  <2>1. Call
    <3>1. CASE Answer(c, 500)
      BY <1>5, <3>1
    <3>2. CASE Step(c, "done", 500, None)
      BY <1>2, <3>2
    <3>3. CASE \E t \in tokens : \E u \in FindById(t.sub) : Step(c, "done", 401, u)
      <4>1. \A t \in tokens : FindById(t.sub) \subseteq Accounts
        BY DEF FindById, TypeOK
      <4> QED BY <1>2, <3>3, <4>1
    <3> QED BY <1>12, <3>1, <3>2, <3>3 DEF StatementFails
  <2>2. kind' \in [Calls -> {"register", "login", "refresh"}] /\ faults' \in 0 .. MaxFaults
    BY <1>12, BoundsAssumption DEF StatementFails, TypeOK
  <2> QED BY <1>1, <1>12, <2>1, <2>2 DEF StatementFails, TypeOK, Call
<1>13. ASSUME NEW row \in SeedRows, SeedUser(row) PROVE TypeOK'
  <2>1. lastHeld' \subseteq [id : Nat, role : Roles, at : Nat]
    <3>1. \A u \in FindByEmail(row.email) : u.id \in Nat /\ u.role \in Roles
      BY DEF FindByEmail, TypeOK, Accounts
    <3> QED BY <1>13, <3>1 DEF SeedUser, TypeOK
  <2> QED BY <1>1, <1>13, <2>1 DEF SeedUser, TypeOK
<1>14. CASE Tick
  BY <1>1, <1>14 DEF Tick, TypeOK
<1> QED BY <1>6, <1>7, <1>8, <1>9, <1>10, <1>11, <1>12, <1>13, <1>14 DEF Next

\* The role about to be signed was read from the account, at this tick of the clock.
LEMMA SignStep == TypeOK /\ IdsInv /\ OneAccountPerEmail /\ SignInv /\ Next => SignInv'
<1> SUFFICES ASSUME TypeOK, IdsInv, OneAccountPerEmail, SignInv, Next PROVE SignInv'
  OBVIOUS
<1> DEFINE Signs(c) == /\ pc[c] \in {"save", "sign"} => user[c] \in Accounts
                       /\ pc[c] = "sign" => HasHeld(user[c].id, user[c].role, now)
<1>1. now \in Int /\ users \subseteq Accounts
  BY DEF TypeOK
<1>2. ASSUME NEW c \in Calls, pc'[c] = pc[c], user'[c] = user[c], now' = now PROVE Signs(c)'
  <2>1. Signs(c)
    BY DEF SignInv
  <2>2. ASSUME NEW id, NEW role, HasHeld(id, role, now) PROVE HasHeld(id, role, now)'
    BY <1>1, <1>2, <2>2, HeldStays DEF HasHeld
  <2> QED BY <1>2, <2>1, <2>2 DEF HasHeld
<1>3. ASSUME NEW c \in Calls, pc'[c] \notin {"save", "sign"} PROVE Signs(c)'
  BY <1>3
<1>4. ASSUME NEW c \in Calls, Signs(c)', now' = now,
             \A d \in Calls \ {c} : pc'[d] = pc[d] /\ user'[d] = user[d]
      PROVE  SignInv'
  BY <1>2, <1>4 DEF SignInv
<1> HIDE DEF Signs
<1>5. ASSUME NEW c \in Calls, NEW next, NEW status, NEW u, Step(c, next, status, u), now' = now,
             next \in {"save", "sign"} => u \in Accounts,
             next = "sign" => \E v \in users' : v.id = u.id /\ v.role = u.role
      PROVE  SignInv'
  <2>1. /\ pc'[c] = next /\ user'[c] = u
        /\ \A d \in Calls \ {c} : pc'[d] = pc[d] /\ user'[d] = user[d]
    BY <1>5 DEF Step, TypeOK
  <2>2. Signs(c)'
    BY <1>5, <2>1 DEF Signs, HasHeld
  <2> QED BY <1>4, <1>5, <2>1, <2>2
<1>6. ASSUME NEW c \in Calls, NEW e \in Emails, NEW p \in Passwords, Register(c, e, p) PROVE SignInv'
  BY <1>5, <1>6, RowTypes DEF Register, Arrives
<1>7. ASSUME NEW c \in Calls, NEW e \in Emails, NEW p \in Passwords, Login(c, e, p) PROVE SignInv'
  <2>1. users' = users /\ now' = now
    BY <1>7 DEF Login, Arrives
  <2>2. CASE \E u \in FindByEmail(e) : Step(c, "sign", 0, u)
    BY <1>1, <1>5, <2>1, <2>2 DEF FindByEmail
  <2>3. CASE \E u : Step(c, "done", 401, u)
    BY <1>5, <2>1, <2>3
  <2> QED BY <1>7, <2>2, <2>3 DEF Login
<1>8. ASSUME NEW c \in Calls, NEW t \in tokens, Refresh(c, t) PROVE SignInv'
  <2>1. users' = users /\ now' = now
    BY <1>8 DEF Refresh, Arrives
  <2>2. CASE \E u \in FindById(t.sub) : Step(c, "sign", 0, u)
    BY <1>1, <1>5, <2>1, <2>2 DEF FindById
  <2>3. CASE Step(c, "done", 401, None)
    BY <1>5, <2>1, <2>3
  <2> QED BY <1>8, <2>2, <2>3 DEF Refresh, RoleOfAccount
<1>9. ASSUME NEW c \in Calls, Save(c) PROVE SignInv'
  <2>1. PICK u \in Accounts : Step(c, "sign", 0, u) /\ users' = users \union {u} /\ now' = now
    BY <1>9, SaveEffect, Zenon
  <2> QED BY <1>5, <2>1
<1>10. ASSUME NEW c \in Calls, SaveRefused(c) \/ IssueTokenPair(c) PROVE SignInv'
  <2>1. \E status : Step(c, "done", status, user[c])
    BY <1>10 DEF SaveRefused, IssueTokenPair, Answer
  <2>2. now' = now
    BY <1>10 DEF SaveRefused, IssueTokenPair
  <2> QED BY <1>5, <2>1, <2>2
<1>11. ASSUME NEW c \in Calls, StatementFails(c) PROVE SignInv'
  <2>1. \E status, u : Step(c, "done", status, u)
    BY <1>11 DEF StatementFails, Answer
  <2>2. now' = now
    BY <1>11 DEF StatementFails
  <2> QED BY <1>5, <2>1, <2>2
<1>12. ASSUME NEW row \in SeedRows, SeedUser(row) PROVE SignInv'
  <2>1. UNCHANGED <<pc, user, now>>
    BY <1>12 DEF SeedUser
  <2> QED BY <1>2, <2>1 DEF SignInv, Signs
<1>13. CASE Tick
  BY <1>13 DEF Tick, SignInv
<1> QED BY <1>6, <1>7, <1>8, <1>9, <1>10, <1>11, <1>12, <1>13 DEF Next

\* A token is signed with a role the account holds, or held a moment ago.
LEMMA TokenStep == TypeOK /\ IdsInv /\ OneAccountPerEmail /\ SignInv /\ TokenInv /\ Next => TokenInv'
<1> SUFFICES ASSUME TypeOK, IdsInv, OneAccountPerEmail, SignInv, TokenInv, Next PROVE TokenInv'
  OBVIOUS
<1> DEFINE Honest(t) == t.expires <= now + AccessTtl /\ HasHeld(t.sub, t.role, t.expires - AccessTtl)
<1>1. now \in Nat /\ AccessTtl \in Nat /\ \A t \in tokens : t.expires \in Nat
  BY TtlAssumption DEF TypeOK
<1>2. now' \in Nat /\ now' >= now
  <2>1. now' \in {now, now + 1}
    BY DEF Next, Register, Login, Refresh, Arrives, Save, Insert, SaveRefused, IssueTokenPair,
         StatementFails, SeedUser, Tick
  <2> QED BY <1>1, <2>1
<1>3. ASSUME NEW t \in tokens, t.use = "access" PROVE Honest(t)'
  <2> DEFINE since == t.expires - AccessTtl
  <2>1. t.expires <= now + AccessTtl /\ HasHeld(t.sub, t.role, since)
    BY <1>3 DEF TokenInv
  <2>2. since \in Int /\ since <= now
    BY <1>1, <1>3, <2>1
  <2>3. HasHeld(t.sub, t.role, since)'
    BY <2>1, <2>2, HeldStays
  <2>4. t.expires <= now' + AccessTtl
    BY <1>1, <1>2, <2>1
  <2> QED BY <2>3, <2>4
<1>4. CASE tokens' = tokens
  BY <1>3, <1>4 DEF TokenInv
<1>5. ASSUME NEW c \in Calls, IssueTokenPair(c) PROVE TokenInv'
  <2> DEFINE access == Token(user[c], "access", AccessTtl)
             refresh == Token(user[c], "refresh", RefreshTtl)
  <2>1. tokens' = tokens \union {access, refresh} /\ now' = now /\ users' = users /\ lastHeld' = lastHeld
    BY <1>5 DEF IssueTokenPair
  <2>2. /\ refresh.use = "refresh"
        /\ access.sub = user[c].id /\ access.role = user[c].role /\ access.expires = now + AccessTtl
    BY DEF Token
  <2>3. HasHeld(user[c].id, user[c].role, now)
    BY <1>5 DEF IssueTokenPair, SignInv
  <2>4. access.expires - AccessTtl = now
    BY <1>1, <2>2
  <2> HIDE DEF access, refresh
  <2>5. access.expires <= now' + AccessTtl /\ HasHeld(access.sub, access.role, access.expires - AccessTtl)
    BY <1>1, <2>1, <2>2, <2>3, <2>4
  <2>6. ASSUME NEW t \in tokens', t.use = "access" PROVE Honest(t)'
    <3>1. CASE t \in tokens
      BY <1>3, <2>6, <3>1
    <3>2. CASE t = access
      BY <2>1, <2>5, <3>2 DEF HasHeld
    <3> QED BY <2>1, <2>2, <2>6, <3>1, <3>2
  <2> QED BY <2>6 DEF TokenInv
<1>6. tokens' = tokens \/ \E c \in Calls : IssueTokenPair(c)
  BY DEF Next, Register, Login, Refresh, Arrives, Save, Insert, SaveRefused, StatementFails, SeedUser, Tick
<1> QED BY <1>4, <1>5, <1>6

\* A registration that was told of a rival met one; one that was not has its account.
LEMMA RegisterStep ==
    TypeOK /\ IdsInv /\ OneAccountPerEmail /\ SignInv /\ RegisterInv /\ Next => RegisterInv'
<1> SUFFICES ASSUME TypeOK, IdsInv, OneAccountPerEmail, SignInv, RegisterInv, Next PROVE RegisterInv'
  OBVIOUS
<1> DEFINE Made(c) == \E u \in users : u.id = user[c].id /\ u.email = user[c].email
           Met(c) == FindByEmail(user[c].email) # {}
           True(c) == kind[c] = "register" =>
                         /\ pc[c] = "sign" \/ (pc[c] = "done" /\ reply[c] = 201) => Made(c)
                         /\ pc[c] = "done" /\ (reply[c] = 409 \/ (reply[c] = 500 /\ faults = 0)) => Met(c)
<1>1. ASSUME NEW c \in Calls, user'[c] = user[c] PROVE (Made(c) => Made(c)') /\ (Met(c) => Met(c)')
  BY <1>1, AccountsStep DEF FindByEmail
<1>2. faults' = 0 => faults = 0
  <2>1. faults \in Int
    BY DEF TypeOK
  <2>2. faults >= 0
    BY DEF TypeOK
  <2>3. faults' \in {faults, faults + 1}
    BY DEF Next, Register, Login, Refresh, Arrives, Save, Insert, SaveRefused, IssueTokenPair,
           StatementFails, SeedUser, Tick
  <2> QED BY <2>1, <2>2, <2>3
<1>3. ASSUME NEW c \in Calls, UNCHANGED <<kind[c], pc[c], user[c], reply[c]>> PROVE True(c)'
  <2>1. True(c)
    BY DEF RegisterInv
  <2>2. (Made(c) => Made(c)') /\ (Met(c) => Met(c)')
    BY <1>1, <1>3
  <2> HIDE DEF Made, Met
  <2> QED BY <1>2, <1>3, <2>1, <2>2
<1>4. ASSUME NEW c \in Calls, True(c)',
             \A d \in Calls \ {c} : UNCHANGED <<kind[d], pc[d], user[d], reply[d]>>
      PROVE  RegisterInv'
  BY <1>3, <1>4 DEF RegisterInv
<1> HIDE DEF True
<1>5. ASSUME NEW c \in Calls, NEW next, NEW status, NEW u, Step(c, next, status, u),
             \A d \in Calls \ {c} : kind'[d] = kind[d],
             kind'[c] = "register" =>
                 /\ next = "sign" \/ (next = "done" /\ status = 201) =>
                        \E v \in users' : v.id = u.id /\ v.email = u.email
                 /\ next = "done" /\ (status = 409 \/ (status = 500 /\ faults' = 0)) =>
                        FindByEmail(u.email)' # {}
      PROVE  RegisterInv'
  <2>1. /\ pc'[c] = next /\ reply'[c] = status /\ user'[c] = u
        /\ \A d \in Calls \ {c} : UNCHANGED <<pc[d], user[d], reply[d]>>
    BY <1>5 DEF Step, TypeOK
  <2>2. True(c)'
    BY <1>5, <2>1 DEF True, FindByEmail
  <2> QED BY <1>4, <1>5, <2>1, <2>2
<1>6. ASSUME NEW c \in Calls, NEW what, Arrives(c, what)
      PROVE  /\ users' = users /\ kind'[c] = what
             /\ \A d \in Calls \ {c} : kind'[d] = kind[d]
  BY <1>6 DEF Arrives, TypeOK
<1>7. ASSUME NEW c \in Calls, NEW e \in Emails, NEW p \in Passwords, Register(c, e, p) PROVE RegisterInv'
  <2>1. users' = users /\ \A d \in Calls \ {c} : kind'[d] = kind[d]
    BY <1>6, <1>7 DEF Register
  <2>2. NewUser(e, p).email = e
    BY DEF NewUser, Account
  <2>3. CASE FindByEmail(e) # {} /\ Step(c, "done", 409, NewUser(e, p))
    BY <1>5, <2>1, <2>2, <2>3 DEF FindByEmail
  <2>4. CASE Step(c, "save", 0, NewUser(e, p))
    BY <1>5, <2>1, <2>4
  <2> QED BY <1>7, <2>3, <2>4 DEF Register
<1>8. ASSUME NEW c \in Calls, NEW e \in Emails, NEW p \in Passwords, Login(c, e, p) PROVE RegisterInv'
  <2>1. kind'[c] = "login" /\ \A d \in Calls \ {c} : kind'[d] = kind[d]
    BY <1>6, <1>8 DEF Login
  <2>2. \E next, status, u : Step(c, next, status, u)
    BY <1>8 DEF Login
  <2> QED BY <1>5, <2>1, <2>2
<1>9. ASSUME NEW c \in Calls, NEW t \in tokens, Refresh(c, t) PROVE RegisterInv'
  <2>1. kind'[c] = "refresh" /\ \A d \in Calls \ {c} : kind'[d] = kind[d]
    BY <1>6, <1>9 DEF Refresh
  <2>2. \E next, status, u : Step(c, next, status, u)
    BY <1>9 DEF Refresh
  <2> QED BY <1>5, <2>1, <2>2
<1>10. ASSUME NEW c \in Calls, Save(c) PROVE RegisterInv'
  <2>1. PICK u : Step(c, "sign", 0, u) /\ users' = users \union {u} /\ kind' = kind
    BY <1>10, SaveEffect, Zenon
  <2> QED BY <1>5, <2>1
<1>11. ASSUME NEW c \in Calls, SaveRefused(c) PROVE RegisterInv'
  <2>1. Step(c, "done", 500, user[c]) /\ Met(c) /\ kind' = kind /\ users' = users
    BY <1>11 DEF SaveRefused, Answer
  <2> QED BY <1>5, <2>1 DEF FindByEmail
<1>12. ASSUME NEW c \in Calls, IssueTokenPair(c) PROVE RegisterInv'
  <2>1. Step(c, "done", 201, user[c]) /\ pc[c] = "sign" /\ kind' = kind /\ users' = users
    BY <1>12 DEF IssueTokenPair, Answer
  <2>2. kind[c] = "register" => Made(c)
    BY <2>1 DEF RegisterInv
  <2> QED BY <1>5, <2>1, <2>2
<1>13. ASSUME NEW c \in Calls, StatementFails(c) PROVE RegisterInv'
  <2>1. \A d \in Calls \ {c} : kind'[d] = kind[d]
    BY <1>13 DEF StatementFails, TypeOK
  <2>2. faults' # 0
    BY <1>13 DEF StatementFails, TypeOK
  <2>3. \E status \in {500, 401} : \E u : Step(c, "done", status, u)
    BY <1>13 DEF StatementFails, Answer
  <2> QED BY <1>5, <2>1, <2>2, <2>3
<1>14. ASSUME NEW row \in SeedRows, SeedUser(row) PROVE RegisterInv'
  <2>1. UNCHANGED <<kind, pc, user, reply>>
    BY <1>14 DEF SeedUser
  <2> QED BY <1>3, <2>1 DEF RegisterInv, True
<1>15. CASE Tick
  <2>1. UNCHANGED <<kind, pc, user, reply>>
    BY <1>15 DEF Tick
  <2> QED BY <1>3, <2>1 DEF RegisterInv, True
<1> QED BY <1>7, <1>8, <1>9, <1>10, <1>11, <1>12, <1>13, <1>14, <1>15 DEF Next

-----------------------------------------------------------------------------
(* The invariant *)

\* The invariant holds before any call.
LEMMA InitInv == Init => IndInv
<1> SUFFICES ASSUME Init PROVE IndInv
  OBVIOUS
<1>1. TypeOK
  BY InitTypes
<1>2. IdsInv /\ OneAccountPerEmail
  <2>1. CASE users = {}
    BY <2>1, FS_EmptySet DEF IdsInv, OneAccountPerEmail
  <2>2. CASE \E e \in Emails : users = {Account(1, e, None, "user")}
    <3>1. PICK e \in Emails : users = {Account(1, e, None, "user")}
      BY <2>2
    <3> DEFINE u == Account(1, e, None, "user")
    <3>2. u.id = 1
      BY DEF Account
    <3>3. IsFiniteSet({u}) /\ Cardinality({u}) = 1
      BY FS_Singleton
    <3> HIDE DEF u
    <3>4. users = {u}
      BY <3>1 DEF u
    <3> QED BY <3>2, <3>3, <3>4 DEF IdsInv, OneAccountPerEmail
  <2> QED BY <2>1, <2>2 DEF Init
<1>3. SignInv /\ TokenInv /\ RegisterInv
  BY DEF Init, SignInv, TokenInv, RegisterInv
<1> QED BY <1>1, <1>2, <1>3 DEF IndInv

\* A stuttering step keeps it.
LEMMA Stutter == IndInv /\ UNCHANGED vars => IndInv'
BY DEF IndInv, vars, TypeOK, IdsInv, OneAccountPerEmail, SignInv, TokenInv, RegisterInv, HasHeld, FindByEmail

\* The inductive invariant holds in every reachable state.
THEOREM Invariance == Spec => []IndInv
<1>1. Init => IndInv
  BY InitInv
<1>2. IndInv /\ [Next]_vars => IndInv'
  BY TypeStep, AccountsStep, SignStep, TokenStep, RegisterStep, Stutter DEF IndInv
<1> QED BY <1>1, <1>2, PTL DEF Spec

\* Type correctness of the table, the tokens and the calls.
THEOREM TypeCorrect == Spec => []TypeOK
<1>1. IndInv => TypeOK
  BY DEF IndInv
<1> QED BY <1>1, Invariance, PTL

\* However many registrations of one email and runs of the seed compete, there
\* is one account for an email and one for an id.
THEOREM OneAccount == Spec => []OneAccountPerEmail
<1>1. IndInv => OneAccountPerEmail
  BY DEF IndInv
<1> QED BY <1>1, Invariance, PTL

\* 201 is answered for an account that is there, and a refusal nothing but the
\* email explains for an email that is taken.
THEOREM RegisterIsTrue == Spec => []RegisterAnswersAreTrue
<1>1. IndInv => RegisterAnswersAreTrue
  BY DEF IndInv, RegisterInv, RegisterAnswersAreTrue
<1> QED BY <1>1, Invariance, PTL

\* A role that an account has lost is in force for less than AccessTtl, whatever
\* refreshes and logins happen meanwhile.
THEOREM RolesRunOut == Spec => []RoleRunsOut
<1>1. ASSUME IndInv PROVE RoleRunsOut
  <2> SUFFICES ASSUME NEW t \in tokens, Valid(t, "access"), NEW route \in DOMAIN RequiredScopes,
                      Permits(t.role, route)
               PROVE  \/ \E u \in users : u.id = t.sub /\ Permits(u.role, route)
                      \/ \E h \in lastHeld :
                             h.id = t.sub /\ Permits(h.role, route) /\ h.at > now - AccessTtl
    BY DEF RoleRunsOut
  <2>1. HasHeld(t.sub, t.role, t.expires - AccessTtl) /\ now < t.expires
    BY <1>1 DEF IndInv, TokenInv, Valid
  <2>2. now \in Int /\ t.expires \in Int /\ AccessTtl \in Int /\ \A h \in lastHeld : h.at \in Int
    BY <1>1, TtlAssumption DEF IndInv, TypeOK
  <2>3. CASE \E u \in users : u.id = t.sub /\ u.role = t.role
    BY <2>3
  <2>4. CASE \E h \in lastHeld : h.id = t.sub /\ h.role = t.role /\ h.at >= t.expires - AccessTtl
    BY <2>1, <2>2, <2>4
  <2> QED BY <2>1, <2>3, <2>4 DEF HasHeld
<1> QED BY <1>1, Invariance, PTL

\* Every route a user may use an administrator may use.
THEOREM AdminsMay == Spec => []AdminsMayDoWhatUsersMay
<1>1. ASSUME NEW route \in DOMAIN RequiredScopes, Permits("user", route) PROVE Permits("admin", route)
  <2>1. \A scope \in RequiredScopes[route] : Covers(RoleScopes["admin"], scope)
    BY DEF RequiredScopes, RoleScopes, Covers
  <2>2. RequiredRoles[route] # {} => "admin" \in RequiredRoles[route]
    BY DEF RequiredRoles, RequiredScopes
  <2> QED BY <2>1, <2>2 DEF Permits
<1>2. AdminsMayDoWhatUsersMay
  BY <1>1 DEF AdminsMayDoWhatUsersMay
<1> QED BY <1>2, PTL
=============================================================================
