------------------------------ MODULE Accounts ------------------------------
(***************************************************************************)
(* Accounts, second factors and sessions: backend/app/security.py,         *)
(* api/auth.py, api/users.py, scripts/reset_admin_mfa.py and the creation  *)
(* of the first administrator in main.py.                                  *)
(*                                                                         *)
(* A request authenticates its session, reads the user row it is about,    *)
(* verifies passwords (bcrypt takes its time) and codes on what it has     *)
(* read, and then commits: either a compare-and-set on the values read     *)
(* (_commit_mfa_transition, change_password) or an ORM update, which       *)
(* writes the columns that differ from what was read.  Between reading and *)
(* committing other requests commit.                                       *)
(*                                                                         *)
(* The reset script is a process of its own that works on the same         *)
(* database while requests are served; here it is one of the workers.      *)
(*                                                                         *)
(* Abstracted: passwords, secrets and auth_ids are numbers, 0 for none; a  *)
(* code is the TOTP counter it was made for; a session is a JWT.  Cookies, *)
(* CSRF, origins and auditing are left out.  So is step_up_limiter, which  *)
(* mfa_disable and change_password ask before they verify a password: a    *)
(* refusal (429) or a wrong password ends the request and leaves the       *)
(* account alone, so it is a request that is not made here.  An id is not  *)
(* given again while a request on the account that had it is under way.    *)
(***************************************************************************)
EXTENDS LoginRateLimiter

CONSTANTS
    Worker,       \* requests and script runs at the same time
    RequireMfa,   \* require_admin_mfa
    Counter,      \* TOTP counters, a set of positive numbers
    MaxNumber,    \* bound: auth_ids, passwords and secrets
    MaxVersion,   \* bound: token versions
    MaxSessions,  \* bound: tokens that have not expired
    None

ASSUME CounterAssumption == Counter \subseteq Nat \ {0} /\ {MaxNumber, MaxVersion, MaxSessions} \subseteq Nat

Number  == 0 .. MaxNumber
Version == 0 .. MaxVersion

Account == [aid : Number, role : {"admin", "viewer"}, active : BOOLEAN, pw : Number,
            ver : Version, secret : Number, confirmed : BOOLEAN, last : Counter \cup {0}]

\* pw is history: the password the session was opened with.
Session == [user : User, aid : Number, ver : Version, mfa : BOOLEAN, pw : Number]

Request == [op : {"login", "setup", "confirm", "disable", "logout", "password",
                  "update", "reset", "delete", "script"},
            ip : Ip \cup {None}, user : User, row : Account \cup {None},
            new : Account \cup {None}, code : Counter \cup {0}, mfa : BOOLEAN]

ASSUME WorkerAssumption == IsFiniteSet(Worker)

ASSUME NoneAssumption == None \notin Account \cup Request

VARIABLES
    account,   \* the users table
    session,   \* tokens issued
    request,   \* what a worker has read
    fresh,     \* history: the last auth_id, password and secret made
    uses,      \* history: how often a code of a secret was accepted
    rewound,     \* history: secrets kept by a reset that set their counter back,
                 \* or in hand when the script overwrote a version
    overwritten  \* history: auth_ids of the accounts whose version the script
                 \* has overwritten after somebody else had raised it

codes       == <<uses, rewound, overwritten>>
accountVars == <<account, session, request, fresh, codes>>
vars        == <<accountVars, limiterVars>>

TypeOK ==
    /\ LimiterTypeOK
    /\ account \in [User -> Account \cup {None}]
    /\ session \in SUBSET Session
    /\ request \in [Worker -> Request \cup {None}]
    /\ fresh \in [aid : Number, pw : Number, secret : Number]
    /\ uses \in [Number \X Counter -> Nat]
    /\ rewound \subseteq Number
    /\ overwritten \subseteq Number

\* A new row; mfa_last_counter is -1 in the code and 0 here.
NewAccount(role) ==
    [aid |-> fresh.aid + 1, role |-> role, active |-> TRUE, pw |-> fresh.pw + 1, ver |-> 0,
     secret |-> 0, confirmed |-> FALSE, last |-> 0]

Init ==
    /\ LimiterInit
    /\ account = [u \in User |-> None]
    /\ session = {}
    /\ request = [w \in Worker |-> None]
    /\ fresh = [aid |-> 0, pw |-> 0, secret |-> 0]
    /\ uses = [k \in Number \X Counter |-> 0]
    /\ rewound = {}
    /\ overwritten = {}

-----------------------------------------------------------------------------
(* security.py                                                             *)

Enrolled(row) == row.secret # 0 /\ row.confirmed

\* get_current_user.
Accepted(t) ==
    /\ account[t.user] # None
    /\ account[t.user].active
    /\ account[t.user].aid = t.aid
    /\ account[t.user].ver = t.ver

\* require_admin.
AdminSession(t) ==
    /\ Accepted(t)
    /\ account[t.user].role = "admin"
    /\ RequireMfa => Enrolled(account[t.user]) /\ t.mfa

\* verify_totp: a counter is newer than the last one used.
Verifies(row, c) == c \in Counter /\ c > row.last

\* Mutant: the version is read again after the commit.
TokenInheriting(r, mfa, ver) ==
    [user |-> r.user, aid |-> r.row.aid, ver |-> account[r.user].ver, mfa |-> mfa,
     pw |-> r.row.pw]

\* create_access_token: the version is the one the request has read or made,
\* never one read after its commit; the auth_id is that of the row.
Token(r, mfa, ver) ==
    [user |-> r.user, aid |-> r.row.aid, ver |-> ver, mfa |-> mfa, pw |-> r.row.pw]

\* The token is handed out.
Issue(t) == Cardinality(session) < MaxSessions /\ session' = session \cup {t}

-----------------------------------------------------------------------------
(* Steps that requests have in common.                                     *)

Reads(w, op, u, new, code, mfa) ==
    /\ request[w] = None
    /\ request' = [request EXCEPT ![w] =
          [op |-> op, ip |-> None, user |-> u, row |-> account[u], new |-> new,
           code |-> code, mfa |-> mfa]]
    /\ UNCHANGED <<account, session, fresh, codes, limiterVars>>

Answered(w) == request' = [request EXCEPT ![w] = None]

Doing(w, op) == request[w] # None /\ request[w].op = op

\* Mutant: the counter that was read is not compared.
SameVersion(r) ==
    /\ account[r.user] # None
    /\ account[r.user].ver = r.row.ver

\* The WHERE clause of _commit_mfa_transition.
Unchanged(r) ==
    /\ account[r.user] # None
    /\ account[r.user].last = r.row.last
    /\ account[r.user].ver = r.row.ver

Accept(r) ==
    /\ uses' = [uses EXCEPT ![<<r.row.secret, r.code>>] = @ + 1]
    /\ UNCHANGED <<rewound, overwritten>>

\* An ORM flush: the columns that differ from what was read.
Written(r) ==
    LET now == account[r.user]
        Col(f) == IF r.new[f] # r.row[f] THEN r.new[f] ELSE now[f]
    IN  [aid |-> now.aid, role |-> Col("role"), active |-> Col("active"), pw |-> Col("pw"),
         ver |-> now.ver, secret |-> Col("secret"), confirmed |-> Col("confirmed"),
         last |-> Col("last")]

\* The counter is set back and the secret stays: the row had a counter and no
\* secret when it was read, and got its secret from a set-up since.
Rewinds(r) ==
    /\ account[r.user].secret # 0
    /\ Written(r).secret = account[r.user].secret
    /\ Written(r).last < account[r.user].last

\* increment_token_version: token_version + 1 in SQL.
Revoked(row) == [row EXCEPT !.ver = @ + 1]

\* A request that is refused after it has read, is given up, or fails.
Abandon(w) ==
    /\ request[w] # None
    /\ Answered(w)
    /\ UNCHANGED <<account, session, fresh, codes, limiterVars>>

-----------------------------------------------------------------------------
(* api/auth.py                                                             *)

\* _authenticate first asks the limiter; for an unknown user it goes on with
\* a dummy hash.
LoginChecks(w, ip, u) ==
    /\ request[w] = None
    /\ Allowed(ip, u)
    /\ request' = [request EXCEPT ![w] =
          [op |-> "login", ip |-> ip, user |-> u, row |-> None, new |-> None,
           code |-> 0, mfa |-> FALSE]]
    /\ UNCHANGED <<account, session, fresh, codes, limiterVars>>

NeedsCode(row) == row.role = "admin" /\ RequireMfa /\ Enrolled(row)

\* The password is right, the account active, and the code, if one is
\* needed, is newer than the last.
LoginVerifies(w, c) ==
    /\ Doing(w, "login") /\ request[w].row = None
    /\ LET row == account[request[w].user]
       IN  /\ row # None /\ row.active
           /\ IF NeedsCode(row) THEN Verifies(row, c) ELSE c = 0
           /\ request' = [request EXCEPT ![w].row = row, ![w].code = c]
    /\ UNCHANGED <<account, session, fresh, codes, limiterVars>>

\* No such user, a wrong password, a disabled account or a wrong code.
LoginFails(w) ==
    /\ Doing(w, "login") /\ request[w].row = None
    /\ RecordFailure(request[w].ip, request[w].user)
    /\ Answered(w)
    /\ UNCHANGED <<account, session, fresh, codes>>

\* Without a second factor the token is made from the row read before.
LoginIssues(w) ==
    /\ Doing(w, "login") /\ request[w].row # None /\ request[w].code = 0
    /\ Issue(Token(request[w], FALSE, request[w].row.ver))
    /\ RecordSuccess(request[w].ip, request[w].user)
    /\ Answered(w)
    /\ UNCHANGED <<account, fresh, codes>>

\* With one the counter is consumed first; whoever finds the row changed has
\* failed.
LoginConsumes(w) ==
    LET r == request[w]
    IN  /\ Doing(w, "login") /\ r.row # None /\ r.code # 0
        /\ \/ /\ Unchanged(r)
              /\ account' = [account EXCEPT ![r.user].last = r.code]
              /\ Accept(r)
              /\ Issue(Token(r, TRUE, r.row.ver))
              /\ RecordSuccess(r.ip, r.user)
           \/ /\ ~Unchanged(r)
              /\ RecordFailure(r.ip, r.user)
              /\ UNCHANGED <<account, session, codes>>
        /\ Answered(w)
        /\ UNCHANGED fresh

\* mfa_setup: any administrator's session that is not enrolled.
SetupReads(w, t) ==
    LET row == account[t.user]
    IN  /\ Accepted(t) /\ row.role = "admin" /\ ~Enrolled(row)
        /\ Reads(w, "setup", t.user, None, 0, t.mfa)

\* The new secret, unconfirmed; an ORM update.
SetupCommits(w) ==
    /\ Doing(w, "setup") /\ account[request[w].user] # None
    /\ fresh.secret < MaxNumber
    /\ fresh' = [fresh EXCEPT !.secret = @ + 1]
    /\ LET r == [request[w] EXCEPT !.new =
                    [request[w].row EXCEPT !.secret = fresh.secret + 1,
                                           !.confirmed = FALSE, !.last = 0]]
       IN  account' = [account EXCEPT ![r.user] = Written(r)]
    /\ Answered(w)
    /\ UNCHANGED <<session, codes, limiterVars>>

\* mfa_confirm, and mfa_disable with the password: both verify a code.
ConfirmReads(w, t, c) ==
    LET row == account[t.user]
    IN  /\ Accepted(t) /\ row.role = "admin" /\ row.secret # 0 /\ Verifies(row, c)
        /\ Reads(w, "confirm", t.user,
                 [row EXCEPT !.confirmed = TRUE, !.last = c], c, TRUE)

DisableReads(w, t, c) ==
    LET row == account[t.user]
    IN  /\ Accepted(t) /\ row.role = "admin" /\ Enrolled(row) /\ Verifies(row, c)
        /\ Reads(w, "disable", t.user,
                 [row EXCEPT !.secret = 0, !.confirmed = FALSE, !.last = 0], c, FALSE)

\* The transition and the revocation of older sessions are one statement; the
\* new token carries the version this statement has made.
FactorCommits(w) ==
    LET r == request[w]
    IN  /\ Doing(w, "confirm") \/ Doing(w, "disable")
        /\ Unchanged(r) /\ account[r.user].ver < MaxVersion
        /\ account' = [account EXCEPT ![r.user] =
              Revoked([account[r.user] EXCEPT
                          !.confirmed = r.new.confirmed, !.last = r.new.last,
                          !.secret = IF r.op = "disable" THEN 0 ELSE @])]
        /\ Accept(r)
        /\ Issue(Token(r, r.mfa, r.row.ver + 1))
        /\ Answered(w)
        /\ UNCHANGED <<fresh, limiterVars>>

LogoutReads(w, t) == Accepted(t) /\ Reads(w, "logout", t.user, None, 0, t.mfa)

LogoutCommits(w) ==
    LET u == request[w].user
    IN  /\ Doing(w, "logout") /\ account[u] # None /\ account[u].ver < MaxVersion
        /\ account' = [account EXCEPT ![u] = Revoked(@)]
        /\ Answered(w)
        /\ UNCHANGED <<session, fresh, codes, limiterVars>>

-----------------------------------------------------------------------------
(* api/users.py                                                            *)

PasswordReads(w, t) == Accepted(t) /\ Reads(w, "password", t.user, None, 0, t.mfa)

\* change_password: compare-and-set on the hash and the version.
PasswordCommits(w) ==
    LET r   == request[w]
        row == account[r.user]
    IN  /\ Doing(w, "password") /\ row # None
        /\ row.pw = r.row.pw /\ row.ver = r.row.ver
        /\ fresh.pw < MaxNumber /\ row.ver < MaxVersion
        /\ fresh' = [fresh EXCEPT !.pw = @ + 1]
        /\ account' = [account EXCEPT ![r.user] = Revoked([@ EXCEPT !.pw = fresh.pw + 1])]
        /\ Issue([Token(r, r.mfa, r.row.ver + 1) EXCEPT !.pw = fresh.pw + 1])
        /\ Answered(w)
        /\ UNCHANGED <<codes, limiterVars>>

\* create_user; the username is unique.
CreateUser(t, u, role) ==
    /\ AdminSession(t) /\ account[u] = None
    /\ \A w \in Worker : request[w] # None => request[w].user # u
    /\ fresh.aid < MaxNumber /\ fresh.pw < MaxNumber
    /\ account' = [account EXCEPT ![u] = NewAccount(role)]
    /\ fresh' = [fresh EXCEPT !.aid = @ + 1, !.pw = @ + 1]
    /\ UNCHANGED <<session, request, codes, limiterVars>>

\* What one body may ask update_user to make of a row: any role, whether it
\* is active, and the old or a new password.
Updates(row) ==
    {[row EXCEPT !.role = body.role, !.active = body.active, !.pw = body.pw] :
        body \in [role : {"admin", "viewer"}, active : BOOLEAN,
                  pw : {row.pw} \cup (IF fresh.pw < MaxNumber THEN {fresh.pw + 1} ELSE {})]}

\* Administrators may not demote or disable themselves.
UpdateReads(w, t, u) ==
    /\ AdminSession(t) /\ account[u] # None
    /\ \E new \in Updates(account[u]) \ {account[u]} :
          /\ u = t.user => new.role = "admin" /\ new.active
          /\ Reads(w, "update", u, new, 0, t.mfa)

\* Mutant: the counter is cleared to NULL.
ResetReadsNull(w, t, u) ==
    /\ AdminSession(t) /\ account[u] # None /\ u # t.user
    /\ Reads(w, "reset", u,
             [account[u] EXCEPT !.secret = 0, !.confirmed = FALSE, !.last = None], 0, t.mfa)

\* reset_user_mfa, of somebody else.
ResetReads(w, t, u) ==
    /\ AdminSession(t) /\ account[u] # None /\ u # t.user
    /\ Reads(w, "reset", u,
             [account[u] EXCEPT !.secret = 0, !.confirmed = FALSE, !.last = 0], 0, t.mfa)

\* Mutant: only a password revokes the sessions of an account.
UserCommitsKeeping(w) ==
    LET r == request[w]
    IN  /\ Doing(w, "update") \/ Doing(w, "reset")
        /\ account[r.user] # None /\ account[r.user].ver < MaxVersion
        /\ account' = [account EXCEPT ![r.user] =
              IF r.new.pw # r.row.pw THEN Revoked(Written(r)) ELSE Written(r)]
        /\ fresh' = [fresh EXCEPT !.pw = IF r.new.pw > @ THEN r.new.pw ELSE @]
        /\ rewound' = IF Rewinds(r) THEN rewound \cup {account[r.user].secret} ELSE rewound
        /\ Answered(w)
        /\ UNCHANGED <<session, uses, overwritten, limiterVars>>

\* The ORM update and the revocation, in one transaction.
UserCommits(w) ==
    LET r == request[w]
    IN  /\ Doing(w, "update") \/ Doing(w, "reset")
        /\ account[r.user] # None /\ account[r.user].ver < MaxVersion
        /\ account' = [account EXCEPT ![r.user] = Revoked(Written(r))]
        /\ fresh' = [fresh EXCEPT !.pw = IF r.new.pw > @ THEN r.new.pw ELSE @]
        /\ rewound' = IF Rewinds(r) THEN rewound \cup {account[r.user].secret} ELSE rewound
        /\ Answered(w)
        /\ UNCHANGED <<session, uses, overwritten, limiterVars>>

DeleteReads(w, t, u) ==
    /\ AdminSession(t) /\ account[u] # None /\ u # t.user
    /\ Reads(w, "delete", u, None, 0, t.mfa)

DeleteCommits(w) ==
    /\ Doing(w, "delete")
    /\ account' = [account EXCEPT ![request[w].user] = None]
    /\ Answered(w)
    /\ UNCHANGED <<session, fresh, codes, limiterVars>>

-----------------------------------------------------------------------------
(* The host.                                                               *)

Busy   == \E w \in Worker : request[w] # None
Admins == {u \in User : account[u] # None /\ account[u].role = "admin"}

\* scripts/reset_admin_mfa.py --apply, on the database of a running service:
\* it loads an administrator ...
ScriptReads(w, u) ==
    /\ account[u] # None /\ account[u].role = "admin"
    /\ account[u].ver < MaxVersion
    /\ Reads(w, "script", u,
             [account[u] EXCEPT !.secret = 0, !.confirmed = FALSE, !.last = 0], 0, FALSE)

\* The secrets the account has, or had when a request read its row.
InHand(u) ==
    {account[u].secret} \cup
    {request[v].row.secret :
        v \in {x \in Worker : /\ request[x] # None /\ request[x].row # None
                             /\ request[x].user = u}}

\* ... and commits.  token_version is an attribute like the others here: the
\* number that was read plus one is written, whatever the version is by now.
\* When requests have raised it meanwhile it stays, or is set back.
ScriptCommits(w) ==
    LET r   == request[w]
        now == account[r.user]
    IN  /\ Doing(w, "script") /\ now # None
        /\ account' = [account EXCEPT ![r.user] = [Written(r) EXCEPT !.ver = r.row.ver + 1]]
        /\ \/ /\ now.ver = r.row.ver
              /\ rewound' = IF Rewinds(r) THEN rewound \cup {now.secret} ELSE rewound
              /\ UNCHANGED overwritten
           \/ /\ now.ver # r.row.ver
              /\ rewound' = rewound \cup InHand(r.user)
              /\ overwritten' = overwritten \cup {now.aid}
        /\ Answered(w)
        /\ UNCHANGED <<session, fresh, uses, limiterVars>>

\* A start or restart: the requests and the limiter are gone, sessions are
\* signed tokens and live on.  Without an administrator lifespan creates one,
\* if the name is free.
Restart ==
    /\ Busy \/ (DOMAIN byIp) \cup (DOMAIN byPair) # {} \/ Admins = {}
    /\ request' = [w \in Worker |-> None]
    /\ LimiterForgets
    /\ UNCHANGED <<session, codes>>
    /\ \/ Admins # {} /\ UNCHANGED <<account, fresh>>
       \/ /\ Admins = {}
          /\ fresh.aid < MaxNumber /\ fresh.pw < MaxNumber
          /\ \E u \in User :
                /\ account[u] = None
                /\ account' = [account EXCEPT ![u] = NewAccount("admin")]
          /\ fresh' = [fresh EXCEPT !.aid = @ + 1, !.pw = @ + 1]

TimePasses == ClockTicks /\ UNCHANGED accountVars

\* A token's exp has passed.
Expire(t) ==
    /\ session' = session \ {t}
    /\ UNCHANGED <<account, request, fresh, codes, limiterVars>>

-----------------------------------------------------------------------------
Login(w) ==
    \/ \E ip \in Ip, u \in User : LoginChecks(w, ip, u)
    \/ \E c \in Counter \cup {0} : LoginVerifies(w, c)
    \/ LoginFails(w) \/ LoginIssues(w) \/ LoginConsumes(w)

Own(w, t) ==
    \/ SetupReads(w, t) \/ LogoutReads(w, t) \/ PasswordReads(w, t)
    \/ \E c \in Counter : ConfirmReads(w, t, c) \/ DisableReads(w, t, c)

Manage(w, t, u) == UpdateReads(w, t, u) \/ ResetReads(w, t, u) \/ DeleteReads(w, t, u)

Commits(w) ==
    \/ SetupCommits(w) \/ FactorCommits(w) \/ LogoutCommits(w)
    \/ PasswordCommits(w) \/ UserCommits(w) \/ DeleteCommits(w) \/ ScriptCommits(w)

Next ==
    \/ \E w \in Worker :
         \/ Login(w) \/ Commits(w) \/ Abandon(w)
         \/ \E t \in session : Own(w, t) \/ \E u \in User : Manage(w, t, u)
         \/ \E u \in User : ScriptReads(w, u)
    \/ \E t \in session, u \in User, role \in {"admin", "viewer"} : CreateUser(t, u, role)
    \/ \E t \in session : Expire(t)
    \/ Restart \/ TimePasses

Spec == Init /\ [][Next]_vars

-----------------------------------------------------------------------------
\* A code of a secret is accepted once, by whichever of the requests that
\* verified it commits first: "atomically consume one TOTP counter across
\* concurrent login requests", through set-ups, resets and restarts.  The
\* exceptions are secrets whose counter a reset has set back (Rewinds), and
\* those the account or a request had in hand when the reset script overwrote
\* a version it had not read (ScriptCommits): the WHERE clauses compare
\* against that version.
CodeUsedOnce == \A k \in DOMAIN uses : uses[k] <= 1 \/ k[1] \in rewound

\* A session that is accepted was opened with the password the account has
\* now, however its login or its re-issue overlapped with changes of the
\* password, logouts and resets: "never let a later concurrent revocation be
\* inherited".  An account whose version the reset script has overwritten is
\* excepted: sessions of before a change of password may carry its present
\* version again.
SessionsCurrent ==
    \A t \in session :
        Accepted(t) => t.pw = account[t.user].pw \/ t.aid \in overwritten

\* A session once refused stays refused, also when the account is enabled
\* again, or deleted and its id given to a new one, and across restarts:
\* README.md:62-63 says that old tokens are invalid at once.  The reset script
\* breaks this for the accounts in overwritten, and nothing else does.
RevokedForGood ==
    [][\A t \in session :
          ~Accepted(t) => ~Accepted(t)' \/ t.aid \in overwritten']_vars

\* See LoginRateLimiter; the workers are the logins under way.
GuessesBounded == FailuresBounded(Worker)
=============================================================================
