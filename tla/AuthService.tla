----------------------------- MODULE AuthService -----------------------------
(***************************************************************************)
(* Accounts, tokens and what they permit: AuthService and UsersService of  *)
(* src/modules, the strategies and guards that honour tokens, and the seed *)
(* as the other writer of accounts.  A step is the code up to the next     *)
(* await; what a call has read may be out of date when it goes on.         *)
(***************************************************************************)
EXTENDS Integers, FiniteSets

CONSTANTS
    Calls,          \* concurrent calls of register, login and refresh
    Emails,         \* spellings: the column and the lookup are case sensitive
    Passwords,
    SeedRows,       \* email, password and role of the accounts the seed writes; the
                    \* file may change between two runs
    None,           \* no password_hash, no user
    AccessTtl,      \* JWT_ACCESS_EXPIRES_IN, in ticks
    RefreshTtl,     \* JWT_REFRESH_EXPIRES_IN
    MaxTime,        \* bound: ticks
    MaxFaults       \* bound: statements that fail

ASSUME TtlAssumption == AccessTtl \in Nat /\ RefreshTtl \in Nat /\ AccessTtl < RefreshTtl

ASSUME BoundsAssumption == MaxTime \in Nat /\ MaxFaults \in Nat

ASSUME SeedAssumption ==
    SeedRows \subseteq [email : Emails, passwordHash : Passwords, role : {"admin", "user"}]

VARIABLES
    users,      \* the users table; a hash is known by the password it is of
    tokens,     \* every token signed so far
    now,
    pc,         \* what each call does next
    kind,       \* register, login or refresh
    user,       \* the row the call has read, or wants to write
    reply,      \* the status of its answer
    lastHeld,   \* history: when an account had a role it has no more
    faults

vars == <<users, tokens, now, pc, kind, user, reply, lastHeld, faults>>

Roles == {"admin", "user"}
Accounts == [id : Nat, email : Emails, passwordHash : Passwords \union {None}, role : Roles]

\* A row of users.
Account(id, email, hash, role) ==
    [id |-> id, email |-> email, passwordHash |-> hash, role |-> role]
FindByEmail(email) == {u \in users : u.email = email}
FindById(id) == {u \in users : u.id = id}

\* Users from before migration 1700000003000 have no password.
Init ==
    /\ users \in {{}} \union {{Account(1, e, None, "user")} : e \in Emails}
    /\ tokens = {}
    /\ now = 0
    /\ pc = [c \in Calls |-> "idle"]
    /\ kind = [c \in Calls |-> "login"]
    /\ user = [c \in Calls |-> None]
    /\ reply = [c \in Calls |-> 0]
    /\ lastHeld = {}
    /\ faults = 0

Step(c, next, status, u) ==
    /\ pc' = [pc EXCEPT ![c] = next]
    /\ reply' = [reply EXCEPT ![c] = status]
    /\ user' = [user EXCEPT ![c] = u]

Answer(c, status) == Step(c, "done", status, user[c])

Arrives(c, what) ==
    /\ pc[c] \in {"idle", "done"}
    /\ kind' = [kind EXCEPT ![c] = what]
    /\ UNCHANGED <<users, tokens, now, lastHeld, faults>>

\* Mutant: the role is left out, and the column has no default.
WithoutRole(email, password) == Account(0, email, password, None)

NewUser(email, password) == Account(0, email, password, "user")

\* register: 409 when the email is known; otherwise the password is hashed.
Register(c, email, password) ==
    /\ Arrives(c, "register")
    /\ LET u == NewUser(email, password) IN
       IF FindByEmail(email) # {} THEN Step(c, "done", 409, u) ELSE Step(c, "save", 0, u)

Insert(c) ==
    /\ pc[c] = "save"
    /\ LET u == [user[c] EXCEPT !.id = Cardinality(users) + 1] IN
       users' = users \union {u} /\ Step(c, "sign", 0, u)
    /\ UNCHANGED <<tokens, now, kind, lastHeld, faults>>

\* Mutant: users.email without the unique constraint.
InsertAnyway(c) == Insert(c)

\* Mutant: the promise of create is not awaited, and the insert fails.
SaveNotAwaited(c) ==
    /\ pc[c] = "save"
    /\ Step(c, "sign", 0, [user[c] EXCEPT !.id = Cardinality(users) + 1])
    /\ UNCHANGED <<users, tokens, now, kind, lastHeld, faults>>

\* repository.save of the new account.
Save(c) == pc[c] = "save" /\ FindByEmail(user[c].email) = {} /\ Insert(c)

\* The unique constraint on email refuses it; nobody catches the error.
SaveRefused(c) ==
    /\ pc[c] = "save"
    /\ FindByEmail(user[c].email) # {}
    /\ Answer(c, 500)
    /\ UNCHANGED <<users, tokens, now, kind, lastHeld, faults>>

\* login: bcrypt.compare with the hash just read.
Login(c, email, password) ==
    /\ Arrives(c, "login")
    /\ \/ \E u \in FindByEmail(email) :
              IF u.passwordHash = password THEN Step(c, "sign", 0, u) ELSE Step(c, "done", 401, u)
       \/ FindByEmail(email) = {} /\ Step(c, "done", 401, None)

Valid(t, use) == t.use = use /\ now < t.expires

\* Mutant: the role of the refresh token goes into the new tokens.
RoleOfToken(t, u) == [u EXCEPT !.role = t.role]

\* The account as it is now.
RoleOfAccount(t, u) == u

\* refresh: the guard has verified the token, and the account is read again.
Refresh(c, t) ==
    /\ Arrives(c, "refresh")
    /\ Valid(t, "refresh")
    /\ \/ \E u \in FindById(t.sub) : Step(c, "sign", 0, RoleOfAccount(t, u))
       \/ FindById(t.sub) = {} /\ Step(c, "done", 401, None)

\* A statement fails.  refresh catches the error and answers 401, as it does
\* when there is no such user; register and login answer 500.
StatementFails(c) ==
    /\ faults < MaxFaults
    /\ faults' = faults + 1
    /\ \/ /\ pc[c] = "save"
          /\ Answer(c, 500)
          /\ UNCHANGED kind
       \/ /\ pc[c] \in {"idle", "done"}
          /\ \E what \in {"register", "login"} : kind' = [kind EXCEPT ![c] = what]
          /\ Step(c, "done", 500, None)
       \/ /\ pc[c] \in {"idle", "done"}
          /\ kind' = [kind EXCEPT ![c] = "refresh"]
          /\ \E t \in tokens : \E u \in FindById(t.sub) :
                 Valid(t, "refresh") /\ Step(c, "done", 401, u)
    /\ UNCHANGED <<users, tokens, now, lastHeld>>

Token(u, use, ttl) == [use |-> use, sub |-> u.id, role |-> u.role, expires |-> now + ttl]

\* issueTokenPair: both tokens carry the role as it was read.
IssueTokenPair(c) ==
    /\ pc[c] = "sign"
    /\ tokens' = tokens \union {Token(user[c], "access", AccessTtl),
                                Token(user[c], "refresh", RefreshTtl)}
    /\ Answer(c, 201)
    /\ UNCHANGED <<users, now, kind, lastHeld, faults>>

\* The seed upserts an account on its email: role and password become the seed's.
SeedUser(row) ==
    /\ LET old == FindByEmail(row.email) IN
       /\ users' = {u \in users : u.email # row.email} \union
             {Account(IF old = {} THEN Cardinality(users) + 1 ELSE (CHOOSE u \in old : TRUE).id,
                      row.email, row.passwordHash, row.role)}
       /\ lastHeld' = lastHeld \union
             {[id |-> u.id, role |-> u.role, at |-> now] : u \in {u \in old : u.role # row.role}}
    /\ UNCHANGED <<tokens, now, pc, kind, user, reply, faults>>

\* A call takes far less time than a token lives: the clock stands still
\* while one is under way.
Tick ==
    /\ now < MaxTime
    /\ \A c \in Calls : pc[c] \in {"idle", "done"}
    /\ now' = now + 1
    /\ UNCHANGED <<users, tokens, pc, kind, user, reply, lastHeld, faults>>

Next ==
    \/ \E c \in Calls :
          \/ \E e \in Emails, p \in Passwords : Register(c, e, p) \/ Login(c, e, p)
          \/ \E t \in tokens : Refresh(c, t)
          \/ Save(c) \/ SaveRefused(c) \/ IssueTokenPair(c) \/ StatementFails(c)
    \/ \E row \in SeedRows : SeedUser(row)
    \/ Tick

Spec == Init /\ [][Next]_vars

-----------------------------------------------------------------------------
(* Guards *)

\* ROLE_SCOPES, a scope being a pair of a resource and an action.
RoleScopes == [
    admin |-> {"product", "order", "user", "file"} \X {"manage"},
    user  |-> {<<"product", "read">>, <<"order", "create">>, <<"order", "read">>,
               <<"user", "read">>, <<"file", "create">>, <<"file", "read">>}]

\* @RequireScopes and @Roles of the controllers' routes.
RequiredScopes == [
    getProducts |-> {<<"product", "read">>}, getOrders |-> {<<"order", "read">>},
    createOrder |-> {<<"order", "create">>}, presign |-> {<<"file", "create">>},
    complete |-> {<<"file", "create">>}, getFile |-> {<<"file", "read">>}, getUsers |-> {}]
RequiredRoles == [r \in DOMAIN RequiredScopes |-> IF r = "getUsers" THEN {"admin"} ELSE {}]

\* Mutant: no rule for manage.
Verbatim(scopes, scope) == scope \in scopes

\* ScopesGuard: the scope itself, or manage on its resource.
Covers(scopes, scope) == scope \in scopes \/ <<scope[1], "manage">> \in scopes

Permits(role, route) ==
    /\ \A scope \in RequiredScopes[route] : Covers(RoleScopes[role], scope)
    /\ RequiredRoles[route] # {} => role \in RequiredRoles[route]

-----------------------------------------------------------------------------
(* Correctness *)

\* Type correctness of the table, the tokens and the calls.
TypeOK ==
    /\ users \subseteq Accounts
    /\ tokens \subseteq [use : {"access", "refresh"}, sub : Nat, role : Roles, expires : Nat]
    /\ now \in Nat
    /\ pc \in [Calls -> {"idle", "save", "sign", "done"}]
    /\ kind \in [Calls -> {"register", "login", "refresh"}]
    /\ user \in [Calls -> Accounts \union {None}]
    /\ reply \in [Calls -> {0, 201, 401, 409, 500}]
    /\ lastHeld \subseteq [id : Nat, role : Roles, at : Nat]
    /\ faults \in 0 .. MaxFaults

\* Of any number of concurrent registrations of one email, and the seed, one
\* makes the account: two accounts never share an email or an id
\* (auth.service.ts:24-34, user.entity.ts:20).
OneAccountPerEmail ==
    \A u, v \in users : u.email = v.email \/ u.id = v.id => u = v

\* A registration is answered truly: 201 means the account is there under the
\* id the tokens name, and a refusal without a fault that someone has the email.
RegisterAnswersAreTrue ==
    \A c \in Calls : pc[c] = "done" /\ kind[c] = "register" =>
        /\ reply[c] = 201 => \E u \in users : u.id = user[c].id /\ u.email = user[c].email
        /\ reply[c] = 409 \/ (reply[c] = 500 /\ faults = 0) => FindByEmail(user[c].email) # {}

\* What a valid access token permits, its account was permitted at most
\* AccessTtl ago, however long the client has been refreshing: a role that is
\* taken away runs out with the access tokens (auth.service.ts:58-63, 69-71).
RoleRunsOut ==
    \A t \in tokens : Valid(t, "access") => \A route \in DOMAIN RequiredScopes :
        Permits(t.role, route) =>
            \/ \E u \in users : u.id = t.sub /\ Permits(u.role, route)
            \/ \E h \in lastHeld :
                   h.id = t.sub /\ Permits(h.role, route) /\ h.at > now - AccessTtl

\* An administrator may use every route a user may, though ROLE_SCOPES gives
\* the two no scope in common (scopes.guard.ts:20-26, permission.types.ts:25-40).
AdminsMayDoWhatUsersMay ==
    \A t \in tokens : \A route \in DOMAIN RequiredScopes :
        t.role = "admin" /\ Permits("user", route) => Permits(t.role, route)
=============================================================================
