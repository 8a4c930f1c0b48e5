-------------------------- MODULE AccountsProofs --------------------------
(***************************************************************************)
(* Proofs about Accounts for every number of users, requests at a time,    *)
(* addresses and codes, in three parts with an invariant each.             *)
(*                                                                         *)
(* Inv, which sessions are accepted: whatever changes a password, or       *)
(* enables an account, raises token_version in the same statement, and a   *)
(* token is made with a version its request has read or made.  Only the    *)
(* reset script may set a version back, and then the account is one of     *)
(* those it has overwritten.                                               *)
(*                                                                         *)
(* CodeInv, that a code is accepted once: the counter of a secret moves    *)
(* with every code accepted, and a request whose row is older than that    *)
(* does not commit.  Secrets in hand when the script overwrites a version  *)
(* are left out from then on.                                              *)
(*                                                                         *)
(* LimiterInv, how often a login may fail: the failures kept of a key and  *)
(* those it has had agree as long as its lock does not outlive them.       *)
(***************************************************************************)
EXTENDS Accounts, FiniteSetTheorems, TLAPS

Types ==
    /\ account \in [User -> Account \cup {None}]
    /\ session \in SUBSET Session
    /\ request \in [Worker -> Request \cup {None}]
    /\ fresh \in [aid : Number, pw : Number, secret : Number]

\* What a request has read: only a login that has not verified its password
\* yet has read no row.
Shapes ==
    \A w \in Worker : request[w] # None =>
        /\ request[w].op # "login" => request[w].row # None
        /\ request[w].op \in {"confirm", "disable", "update", "reset", "script"} =>
              request[w].new # None
        /\ request[w].op = "script" => request[w].row.ver < MaxVersion

-----------------------------------------------------------------------------
(* Types.                                                                  *)

LEMMA ReadsType ==
    ASSUME Types, Shapes, NEW w \in Worker, NEW u \in User, NEW op, NEW new, NEW code, NEW mfa,
           op \in {"setup", "confirm", "disable", "logout", "password", "update", "reset",
                   "delete", "script"},
           op = "script" => account[u].ver < MaxVersion,
           account[u] # None, new \in Account \cup {None}, code \in Counter \cup {0},
           mfa \in BOOLEAN,
           op \in {"confirm", "disable", "update", "reset", "script"} => new # None,
           Reads(w, op, u, new, code, mfa)
    PROVE  Types' /\ Shapes'
<1>1. [op |-> op, ip |-> None, user |-> u, row |-> account[u], new |-> new,
       code |-> code, mfa |-> mfa] \in Request
  BY DEF Types, Request
<1> QED
  BY <1>1 DEF Reads, Types, Shapes

\* An ORM update keeps the identity and the version of a row.
LEMMA WrittenType ==
    ASSUME NEW r \in Request, r.row \in Account, r.new \in Account,
           account[r.user] \in Account
    PROVE  /\ Written(r) \in Account
           /\ Written(r).aid = account[r.user].aid
           /\ Written(r).ver = account[r.user].ver
           /\ r.new.pw = r.row.pw => Written(r).pw = account[r.user].pw
           /\ r.new.active = r.row.active => Written(r).active = account[r.user].active
  BY DEF Written, Account

\* The reset script writes the version it has read plus one.
LEMMA ScriptRow ==
    ASSUME NEW row \in Account, NEW v \in Nat, v < MaxVersion
    PROVE  /\ [row EXCEPT !.ver = v + 1] \in Account
           /\ [row EXCEPT !.ver = v + 1].aid = row.aid
           /\ [row EXCEPT !.ver = v + 1].ver = v + 1
           /\ [row EXCEPT !.ver = v + 1].secret = row.secret
           /\ [row EXCEPT !.ver = v + 1].last = row.last
           /\ [row EXCEPT !.ver = v + 1].confirmed = row.confirmed
<1>1. v + 1 \in Version
  BY CounterAssumption DEF Version
<1> QED
  BY <1>1 DEF Account

\* The row a request about to commit has read, and the one it finds.
LEMMA CommitRow ==
    ASSUME Types, Shapes, NEW w \in Worker, request[w] # None
    PROVE  /\ request[w] \in Request /\ request[w].user \in User
           /\ account[request[w].user] # None => account[request[w].user] \in Account
           /\ request[w].op # "login" => request[w].row \in Account
           /\ request[w].row # None => request[w].row \in Account
           /\ request[w].op \in {"confirm", "disable", "update", "reset", "script"} =>
                 request[w].new \in Account
           /\ request[w].op = "script" => request[w].row.ver < MaxVersion
  BY DEF Types, Shapes, Request

\* Zero is a number, a version and a counter; what changes in a row.
LEMMA RowTypes ==
    /\ 0 \in Number /\ 0 \in Version
    /\ \A row \in Account :
          /\ row.ver \in Version /\ row.pw \in Number /\ row.aid \in Number
          /\ \A x \in Number : [row EXCEPT !.secret = x, !.confirmed = FALSE, !.last = 0]
                                  \in Account
          /\ \A c \in Counter : [row EXCEPT !.confirmed = TRUE, !.last = c] \in Account
          /\ \A x \in Number : [row EXCEPT !.pw = x] \in Account
          /\ row.ver < MaxVersion => Revoked(row) \in Account
<1>1. 0 \in Number /\ 0 \in Version
  BY CounterAssumption DEF Number, Version
<1>2. ASSUME NEW row \in Account
      PROVE  row.ver \in Version /\ row.pw \in Number /\ row.aid \in Number
  BY DEF Account
<1>3. ASSUME NEW row \in Account, NEW x \in Number
      PROVE  [row EXCEPT !.secret = x, !.confirmed = FALSE, !.last = 0] \in Account
  <2>1. 0 \in Counter \cup {0}
    OBVIOUS
  <2> QED
    BY <2>1 DEF Account
<1>4. ASSUME NEW row \in Account, NEW c \in Counter
      PROVE  [row EXCEPT !.confirmed = TRUE, !.last = c] \in Account
  BY DEF Account
<1>5. ASSUME NEW row \in Account, NEW x \in Number PROVE [row EXCEPT !.pw = x] \in Account
  BY DEF Account
<1>6. ASSUME NEW row \in Account, row.ver < MaxVersion PROVE Revoked(row) \in Account
  <2>1. row.ver + 1 \in Version
    BY <1>2, <1>6, CounterAssumption DEF Version
  <2>2. ASSUME NEW v \in Version PROVE [row EXCEPT !.ver = v] \in Account
    BY DEF Account
  <2> QED
    BY <2>1, <2>2 DEF Revoked
<1> QED
  BY <1>1, <1>2, <1>3, <1>4, <1>5, <1>6

\* What update_user may make of a row: its role, whether it is active and its
\* password.
LEMMA UpdatesFacts ==
    ASSUME Types, NEW row \in Account, NEW new \in Updates(row)
    PROVE  /\ new \in Account
           /\ new.secret = row.secret /\ new.last = row.last /\ new.confirmed = row.confirmed
<1> DEFINE Pws == {row.pw} \cup (IF fresh.pw < MaxNumber THEN {fresh.pw + 1} ELSE {})
<1>1. PICK body \in [role : {"admin", "viewer"}, active : BOOLEAN, pw : Pws] :
         new = [row EXCEPT !.role = body.role, !.active = body.active, !.pw = body.pw]
  BY DEF Updates
<1>2. body.pw \in Number
  <2>1. row.pw \in Number /\ fresh.pw \in Number
    BY RowTypes DEF Types
  <2>2. fresh.pw < MaxNumber => fresh.pw + 1 \in Number
    BY <2>1, CounterAssumption DEF Number
  <2> QED
    BY <2>1, <2>2
<1> QED
  BY <1>1, <1>2 DEF Account

LEMMA NewAccountType ==
    ASSUME Types, fresh.aid < MaxNumber, fresh.pw < MaxNumber, NEW role \in {"admin", "viewer"}
    PROVE  /\ NewAccount(role) \in Account
           /\ [fresh EXCEPT !.aid = @ + 1, !.pw = @ + 1]
                 \in [aid : Number, pw : Number, secret : Number]
           /\ NewAccount(role).aid = fresh.aid + 1
<1>1. fresh.aid + 1 \in Number /\ fresh.pw + 1 \in Number
  BY CounterAssumption DEF Types, Number
<1>2. NewAccount(role) \in Account
  BY <1>1, RowTypes DEF NewAccount, Account
<1> QED
  BY <1>1, <1>2 DEF Types, NewAccount

LEMMA TokenType ==
    ASSUME NEW r \in Request, r.row \in Account, NEW mfa \in BOOLEAN, NEW ver \in Version
    PROVE  Token(r, mfa, ver) \in Session
  BY DEF Token, Session, Request, Account

\* A request that ends leaves the others as they are.
LEMMA AnsweredType ==
    ASSUME Types, Shapes, NEW w \in Worker, Answered(w)
    PROVE  request' \in [Worker -> Request \cup {None}] /\ Shapes'
  BY DEF Answered, Types, Shapes

LEMMA TypesNext == Types /\ Shapes /\ [Next]_vars => Types' /\ Shapes'
<1> SUFFICES ASSUME Types, Shapes, [Next]_vars PROVE Types' /\ Shapes'
  OBVIOUS
<1> USE CounterAssumption, NoneAssumption DEF accountVars
<1>1. CASE UNCHANGED accountVars
  BY <1>1 DEF Types, Shapes
<1>2. ASSUME NEW w \in Worker, NEW ip \in Ip, NEW u \in User, LoginChecks(w, ip, u)
      PROVE  Types' /\ Shapes'
  <2>1. [op |-> "login", ip |-> ip, user |-> u, row |-> None, new |-> None,
         code |-> 0, mfa |-> FALSE] \in Request
    BY DEF Request
  <2> QED
    BY <1>2, <2>1 DEF LoginChecks, Types, Shapes
<1>3. ASSUME NEW w \in Worker, NEW c \in Counter \cup {0}, LoginVerifies(w, c)
      PROVE  Types' /\ Shapes'
  <2>1. [request[w] EXCEPT !.row = account[request[w].user], !.code = c] \in Request
    <3>1. request[w] \in Request /\ account[request[w].user] \in Account
      BY <1>3, CommitRow DEF LoginVerifies, Doing
    <3> QED
      BY <3>1 DEF Request
  <2>2. request' = [request EXCEPT ![w] =
                       [request[w] EXCEPT !.row = account[request[w].user], !.code = c]]
    BY <1>3 DEF LoginVerifies, Types, Request
  <2>3. request[w].op = "login" /\ request[w] \in Request
    BY <1>3, CommitRow DEF LoginVerifies, Doing
  <2>4. UNCHANGED <<account, session, fresh>>
    BY <1>3 DEF LoginVerifies
  <2> QED
    BY <2>1, <2>2, <2>3, <2>4 DEF Types, Shapes, Request
<1>4. ASSUME NEW w \in Worker, LoginFails(w) \/ Abandon(w) PROVE Types' /\ Shapes'
  BY <1>4, AnsweredType DEF LoginFails, Abandon, Types
<1>5. ASSUME NEW w \in Worker, LoginIssues(w) PROVE Types' /\ Shapes'
  <2>1. request[w] \in Request /\ request[w].row \in Account /\ request[w].row.ver \in Version
    BY <1>5, CommitRow DEF LoginIssues, Doing, Account
  <2> QED
    BY <1>5, <2>1, TokenType, AnsweredType DEF LoginIssues, Issue, Types
<1>6. ASSUME NEW w \in Worker, LoginConsumes(w) PROVE Types' /\ Shapes'
  <2>1. /\ request[w] \in Request /\ request[w].row \in Account
        /\ request[w].row.ver \in Version /\ request[w].code \in Counter \cup {0}
    BY <1>6, CommitRow DEF LoginConsumes, Doing, Account, Request
  <2>2. CASE Unchanged(request[w])
    <3>1. account[request[w].user] \in Account /\ request[w].user \in User
      BY <1>6, <2>2, CommitRow DEF LoginConsumes, Doing, Unchanged
    <3>2. account' \in [User -> Account \cup {None}]
      <4>1. account' = [account EXCEPT ![request[w].user].last = request[w].code]
        BY <1>6, <2>2 DEF LoginConsumes
      <4>2. [account[request[w].user] EXCEPT !.last = request[w].code] \in Account
        BY <2>1, <3>1 DEF Account
      <4> QED
        BY <3>1, <4>1, <4>2 DEF Types
    <3> QED
      BY <1>6, <2>1, <2>2, <3>2, TokenType, AnsweredType, ZenonT(60) DEF LoginConsumes, Issue, Types
  <2>3. CASE ~Unchanged(request[w])
    BY <1>6, <2>3, AnsweredType DEF LoginConsumes, Types
  <2> QED
    BY <2>2, <2>3
<1>7. ASSUME NEW w \in Worker, NEW t \in session, Own(w, t) PROVE Types' /\ Shapes'
  <2>1. t.user \in User /\ t.mfa \in BOOLEAN
    BY DEF Types, Session
  <2>2. Accepted(t) => account[t.user] \in Account
    BY <2>1 DEF Accepted, Types
  <2>3. ASSUME NEW c \in Counter, Accepted(t)
        PROVE  /\ [account[t.user] EXCEPT !.confirmed = TRUE, !.last = c] \in Account
               /\ [account[t.user] EXCEPT !.secret = 0, !.confirmed = FALSE, !.last = 0] \in Account
    BY <2>2, <2>3, RowTypes
  <2>4. CASE SetupReads(w, t) \/ LogoutReads(w, t) \/ PasswordReads(w, t)
    BY <2>1, <2>2, <2>4, ReadsType DEF SetupReads, LogoutReads, PasswordReads, Accepted
  <2>5. ASSUME NEW c \in Counter, ConfirmReads(w, t, c) \/ DisableReads(w, t, c)
        PROVE  Types' /\ Shapes'
    <3>1. Accepted(t) /\ account[t.user] # None
      BY <2>5 DEF ConfirmReads, DisableReads, Accepted
    <3> DEFINE on  == [account[t.user] EXCEPT !.confirmed = TRUE, !.last = c]
               off == [account[t.user] EXCEPT !.secret = 0, !.confirmed = FALSE, !.last = 0]
    <3>2. on \in Account /\ off \in Account
      BY <2>3, <3>1
    <3>3. CASE Reads(w, "confirm", t.user, on, c, TRUE)
      <4> DEFINE mfa == TRUE
      <4>1. mfa \in BOOLEAN /\ Reads(w, "confirm", t.user, on, c, mfa)
        BY <3>3
      <4> HIDE DEF on, mfa
      <4> QED
        BY <2>1, <3>1, <3>2, <4>1, ReadsType
    <3>4. CASE Reads(w, "disable", t.user, off, c, FALSE)
      <4> DEFINE mfa == FALSE
      <4>1. mfa \in BOOLEAN /\ Reads(w, "disable", t.user, off, c, mfa)
        BY <3>4
      <4> HIDE DEF off, mfa
      <4> QED
        BY <2>1, <3>1, <3>2, <4>1, ReadsType
    <3> QED
      BY <2>5, <3>3, <3>4 DEF ConfirmReads, DisableReads
  <2> QED
    BY <1>7, <2>4, <2>5 DEF Own
<1>8. ASSUME NEW w \in Worker, NEW t \in session, NEW u \in User, Manage(w, t, u)
      PROVE  Types' /\ Shapes'
  <2>1. t.user \in User /\ t.mfa \in BOOLEAN /\ account[u] \in Account
    BY <1>8 DEF Types, Session, Manage, UpdateReads, ResetReads, DeleteReads
  <2>2. [account[u] EXCEPT !.secret = 0, !.confirmed = FALSE, !.last = 0] \in Account
    BY <2>1, RowTypes
  <2>3. Updates(account[u]) \subseteq Account
    BY <2>1, UpdatesFacts
  <2>4. CASE UpdateReads(w, t, u)
    <3>1. PICK new \in Updates(account[u]) : Reads(w, "update", u, new, 0, t.mfa)
      BY <2>4 DEF UpdateReads
    <3> QED
      BY <2>1, <2>3, <3>1, ReadsType
  <2>5. CASE ResetReads(w, t, u) \/ DeleteReads(w, t, u)
    BY <2>1, <2>2, <2>5, ReadsType DEF ResetReads, DeleteReads
  <2> QED
    BY <1>8, <2>4, <2>5 DEF Manage
<1>9. ASSUME NEW w \in Worker, SetupCommits(w) PROVE Types' /\ Shapes'
  <2> DEFINE r == [request[w] EXCEPT !.new =
                     [request[w].row EXCEPT !.secret = fresh.secret + 1,
                                            !.confirmed = FALSE, !.last = 0]]
  <2>1. /\ request[w] \in Request /\ request[w].row \in Account
        /\ account[request[w].user] \in Account /\ request[w].user \in User
    BY <1>9, CommitRow DEF SetupCommits, Doing
  <2>2. r \in Request /\ r.row \in Account /\ r.new \in Account /\ r.user = request[w].user
    <3>1. fresh.secret + 1 \in Number
      BY <1>9 DEF SetupCommits, Types, Number
    <3>2. [request[w].row EXCEPT !.secret = fresh.secret + 1, !.confirmed = FALSE, !.last = 0]
             \in Account
      BY <2>1, <3>1, RowTypes
    <3> QED
      BY <2>1, <3>2 DEF Request
  <2>3. account' = [account EXCEPT ![r.user] = Written(r)]
    BY <1>9 DEF SetupCommits
  <2>4. fresh' \in [aid : Number, pw : Number, secret : Number] /\ UNCHANGED session
    BY <1>9 DEF SetupCommits, Types, Number
  <2>5. request' \in [Worker -> Request \cup {None}] /\ Shapes'
    BY <1>9, AnsweredType DEF SetupCommits
  <2> HIDE DEF r
  <2> QED
    BY <2>1, <2>2, <2>3, <2>4, <2>5, WrittenType DEF Types
<1>10. ASSUME NEW w \in Worker, FactorCommits(w) PROVE Types' /\ Shapes'
  <2> DEFINE r == request[w]
  <2>1. /\ r \in Request /\ r.row \in Account /\ r.new \in Account
        /\ account[r.user] \in Account /\ r.user \in User /\ r.mfa \in BOOLEAN
        /\ r.row.ver = account[r.user].ver
    BY <1>10, CommitRow DEF FactorCommits, Doing, Unchanged, Request
  <2>2. r.row.ver + 1 \in Version
    <3>1. account[r.user].ver \in Version /\ account[r.user].ver < MaxVersion
      BY <1>10, <2>1, RowTypes DEF FactorCommits
    <3> QED
      BY <2>1, <3>1 DEF Version
  <2> DEFINE row == [account[r.user] EXCEPT !.confirmed = r.new.confirmed, !.last = r.new.last,
                        !.secret = IF r.op = "disable" THEN 0 ELSE @]
  <2>3. row \in Account /\ row.ver = account[r.user].ver
    <3> DEFINE kept == IF r.op = "disable" THEN 0 ELSE account[r.user].secret
    <3>1. r.new.confirmed \in BOOLEAN /\ r.new.last \in Counter \cup {0}
      BY <2>1 DEF Account
    <3>2. kept \in Number
      BY <2>1, RowTypes DEF Account
    <3>3. row = [account[r.user] EXCEPT !.confirmed = r.new.confirmed,
                                        !.last = r.new.last, !.secret = kept]
      OBVIOUS
    <3> HIDE DEF kept, row
    <3>4. LET new == [account[r.user] EXCEPT !.confirmed = r.new.confirmed,
                                              !.last = r.new.last, !.secret = kept]
          IN  new \in Account /\ new.ver = account[r.user].ver
      <4> HIDE DEF r
      <4>1. account[r.user] \in Account
        BY <2>1
      <4> QED
        BY <3>1, <3>2, <4>1 DEF Account
    <3> QED
      BY <3>3, <3>4
  <2>4. account' \in [User -> Account \cup {None}]
    <3>1. account' = [account EXCEPT ![r.user] = Revoked(row)]
      BY <1>10 DEF FactorCommits
    <3>2. Revoked(row) \in Account
      <4> HIDE DEF row
      <4> QED
        BY <1>10, <2>3, RowTypes DEF FactorCommits
    <3> HIDE DEF row
    <3> QED
      BY <2>1, <3>1, <3>2 DEF Types
  <2> QED
    BY <1>10, <2>1, <2>2, <2>4, TokenType, AnsweredType DEF FactorCommits, Issue, Types
<1>11. ASSUME NEW w \in Worker, LogoutCommits(w) PROVE Types' /\ Shapes'
  <2>1. account[request[w].user] \in Account /\ request[w].user \in User
    BY <1>11, CommitRow DEF LogoutCommits, Doing
  <2>2. Revoked(account[request[w].user]) \in Account
    BY <1>11, <2>1, RowTypes DEF LogoutCommits
  <2> QED
    BY <1>11, <2>1, <2>2, AnsweredType DEF LogoutCommits, Types
<1>12. ASSUME NEW w \in Worker, PasswordCommits(w) PROVE Types' /\ Shapes'
  <2> DEFINE r == request[w]
  <2>1. /\ r \in Request /\ r.row \in Account /\ r.mfa \in BOOLEAN
        /\ account[r.user] \in Account /\ r.user \in User
        /\ r.row.ver = account[r.user].ver
    BY <1>12, CommitRow DEF PasswordCommits, Doing, Request
  <2>2. fresh.pw + 1 \in Number /\ r.row.ver + 1 \in Version
    BY <1>12, <2>1, SMTT(40) DEF PasswordCommits, Types, Number, Version, Account
  <2>3. Revoked([account[r.user] EXCEPT !.pw = fresh.pw + 1]) \in Account
    <3>1. [account[r.user] EXCEPT !.pw = fresh.pw + 1] \in Account
      BY <2>1, <2>2, RowTypes
    <3>2. [account[r.user] EXCEPT !.pw = fresh.pw + 1].ver = account[r.user].ver
      BY <2>1 DEF Account
    <3> QED
      BY <1>12, <3>1, <3>2, RowTypes DEF PasswordCommits
  <2>4. [Token(r, r.mfa, r.row.ver + 1) EXCEPT !.pw = fresh.pw + 1] \in Session
    BY <2>1, <2>2 DEF Token, Session, Request, Account
  <2>5. account' \in [User -> Account \cup {None}] /\ session' \in SUBSET Session
    BY <1>12, <2>1, <2>3, <2>4 DEF PasswordCommits, Issue, Types
  <2>6. fresh' \in [aid : Number, pw : Number, secret : Number]
    BY <1>12, <2>2 DEF PasswordCommits, Types
  <2> QED
    BY <1>12, <2>5, <2>6, AnsweredType DEF PasswordCommits, Types
<1>13. ASSUME NEW w \in Worker, UserCommits(w) PROVE Types' /\ Shapes'
  <2> DEFINE r == request[w]
  <2>1. /\ r \in Request /\ r.row \in Account /\ r.new \in Account
        /\ account[r.user] \in Account /\ r.user \in User
    BY <1>13, CommitRow DEF UserCommits, Doing
  <2>2. Revoked(Written(r)) \in Account
    BY <1>13, <2>1, WrittenType, RowTypes DEF UserCommits
  <2>3. fresh' \in [aid : Number, pw : Number, secret : Number]
    BY <1>13, <2>1 DEF UserCommits, Types, Account
  <2> QED
    BY <1>13, <2>1, <2>2, <2>3, AnsweredType DEF UserCommits, Types
<1>14. ASSUME NEW w \in Worker, DeleteCommits(w) PROVE Types' /\ Shapes'
  BY <1>14, AnsweredType DEF DeleteCommits, Types
<1>15. ASSUME NEW t \in session, NEW u \in User, NEW role \in {"admin", "viewer"},
              CreateUser(t, u, role)
       PROVE  Types' /\ Shapes'
  BY <1>15, NewAccountType DEF CreateUser, Types, Shapes
<1>16. ASSUME NEW w \in Worker, NEW u \in User, ScriptReads(w, u) PROVE Types' /\ Shapes'
  <2> DEFINE off == [account[u] EXCEPT !.secret = 0, !.confirmed = FALSE, !.last = 0]
             mfa == FALSE
  <2>1. account[u] \in Account /\ account[u] # None /\ account[u].ver < MaxVersion
    BY <1>16 DEF ScriptReads, Types
  <2>2. off \in Account /\ mfa \in BOOLEAN /\ Reads(w, "script", u, off, 0, mfa)
    BY <1>16, <2>1, RowTypes DEF ScriptReads
  <2> HIDE DEF off, mfa
  <2> QED
    BY <2>1, <2>2, ReadsType
<1>19. ASSUME NEW w \in Worker, ScriptCommits(w) PROVE Types' /\ Shapes'
  <2> DEFINE r == request[w]
  <2>1. /\ r \in Request /\ r.row \in Account /\ r.new \in Account
        /\ account[r.user] \in Account /\ r.user \in User /\ r.row.ver < MaxVersion
        /\ r.row.ver \in Nat
    <3>1. /\ r \in Request /\ r.row \in Account /\ r.new \in Account
          /\ account[r.user] \in Account /\ r.user \in User /\ r.row.ver < MaxVersion
      BY <1>19, CommitRow DEF ScriptCommits, Doing
    <3>2. r.row.ver \in Nat
      BY <3>1 DEF Account, Version
    <3> QED
      BY <3>1, <3>2
  <2>2. account' = [account EXCEPT ![r.user] = [Written(r) EXCEPT !.ver = r.row.ver + 1]]
    BY <1>19 DEF ScriptCommits
  <2>3. [Written(r) EXCEPT !.ver = r.row.ver + 1] \in Account
    BY <2>1, WrittenType, ScriptRow
  <2>4. UNCHANGED <<session, fresh>> /\ Answered(w)
    BY <1>19 DEF ScriptCommits
  <2> HIDE DEF r
  <2>5. account' \in [User -> Account \cup {None}]
    BY <2>1, <2>2, <2>3 DEF Types
  <2> QED
    BY <2>4, <2>5, AnsweredType DEF Types
<1>17. ASSUME NEW t \in session, Expire(t) PROVE Types' /\ Shapes'
  BY <1>17 DEF Expire, Types, Shapes
<1>18. CASE Restart
  <2>1. UNCHANGED session /\ request' = [w \in Worker |-> None]
    BY <1>18 DEF Restart
  <2>2. CASE UNCHANGED <<account, fresh>>
    BY <2>1, <2>2 DEF Types, Shapes
  <2>3. CASE ~UNCHANGED <<account, fresh>>
    BY <1>18, <2>1, <2>3, NewAccountType, ZenonT(60) DEF Restart, Types, Shapes
  <2> QED
    BY <2>2, <2>3
<1> QED
  BY <1>1, <1>2, <1>3, <1>4, <1>5, <1>6, <1>7, <1>8, <1>9, <1>10, <1>11, <1>12,
     <1>13, <1>14, <1>15, <1>16, <1>17, <1>18, <1>19
  DEF Next, Login, Commits, TimePasses, vars

-----------------------------------------------------------------------------
(* What a step does to one account.                                        *)

Created(u) ==
    /\ account[u] = None /\ account'[u] \in Account
    /\ account'[u].aid = fresh.aid + 1 /\ fresh'.aid = fresh.aid + 1
    /\ \A w \in Worker : request'[w] # None => request'[w].user # u

Moved(u) ==
    /\ account[u] \in Account /\ account'[u] \in Account
    /\ account'[u].aid = account[u].aid
    /\ \/ account'[u].ver = account[u].ver + 1
       \/ /\ account'[u].ver = account[u].ver /\ account'[u].pw = account[u].pw
          /\ account'[u].active = account[u].active

\* The reset script has overwritten a version that had been raised.
SetBack(u) ==
    /\ account[u] \in Account /\ account'[u] \in Account
    /\ account'[u].aid = account[u].aid /\ account[u].aid \in overwritten'

\* Only the reset of a factor sets a counter back, and only the reset script
\* writes a version it has not made.
LEMMA HistoryStep ==
    ASSUME [Next]_vars
    PROVE  /\ \/ UNCHANGED <<rewound, overwritten>>
              \/ \E w \in Worker : UserCommits(w) \/ ScriptCommits(w)
           /\ rewound \subseteq rewound' /\ overwritten \subseteq overwritten'
<1> DEFINE Goal == \/ UNCHANGED <<rewound, overwritten>>
                   \/ \E w \in Worker : UserCommits(w) \/ ScriptCommits(w)
<1>1. ASSUME UNCHANGED codes PROVE Goal
  BY <1>1 DEF codes
<1>2. ASSUME NEW w \in Worker, LoginConsumes(w) \/ FactorCommits(w) PROVE Goal
  BY <1>2 DEF LoginConsumes, FactorCommits, Accept, codes
<1>3. ASSUME NEW w \in Worker,
             \/ \E ip \in Ip, u \in User : LoginChecks(w, ip, u)
             \/ \E c \in Counter \cup {0} : LoginVerifies(w, c)
             \/ LoginFails(w) \/ LoginIssues(w) \/ Abandon(w) \/ SetupCommits(w)
             \/ LogoutCommits(w) \/ PasswordCommits(w) \/ DeleteCommits(w)
      PROVE  UNCHANGED codes
  BY <1>3 DEF LoginChecks, LoginVerifies, LoginFails, LoginIssues, Abandon, SetupCommits,
     LogoutCommits, PasswordCommits, DeleteCommits
<1>4. ASSUME NEW w \in Worker, NEW t \in session, Own(w, t) \/ \E u \in User : Manage(w, t, u)
      PROVE  UNCHANGED codes
  BY <1>4
  DEF Own, SetupReads, LogoutReads, PasswordReads, ConfirmReads, DisableReads, Manage,
      UpdateReads, ResetReads, DeleteReads, Reads
<1>5. ASSUME \/ UNCHANGED vars \/ Restart \/ TimePasses
             \/ \E t \in session : Expire(t)
             \/ \E t \in session, u \in User, role \in {"admin", "viewer"} : CreateUser(t, u, role)
             \/ \E w \in Worker, u \in User : ScriptReads(w, u)
      PROVE  UNCHANGED codes
  BY <1>5 DEF vars, accountVars, codes, Restart, TimePasses, Expire, CreateUser, ScriptReads,
     Reads
<1>6. Goal
  <2> HIDE DEF Goal
  <2>1. ASSUME NEW w \in Worker, UserCommits(w) \/ ScriptCommits(w) PROVE Goal
    BY <2>1 DEF Goal
  <2> QED
    BY <1>1, <1>2, <1>3, <1>4, <1>5, <2>1 DEF Next, Login, Commits
<1>7. ASSUME NEW w \in Worker, UserCommits(w) \/ ScriptCommits(w)
      PROVE  rewound \subseteq rewound' /\ overwritten \subseteq overwritten'
  BY <1>7 DEF UserCommits, ScriptCommits
<1> QED
  BY <1>6, <1>7

\* Nobody raises the version without keeping the identity, and nobody changes
\* a password or enables an account without raising the version, but for the
\* reset script.
LEMMA AccountStep ==
    ASSUME Types, Shapes, [Next]_vars
    PROVE  /\ fresh'.aid \in {fresh.aid, fresh.aid + 1}
           /\ \A u \in User : \/ account'[u] = account[u] \/ account'[u] = None
                              \/ Created(u) \/ Moved(u) \/ SetBack(u)
<1> DEFINE Goal == /\ fresh'.aid \in {fresh.aid, fresh.aid + 1}
                   /\ \A u \in User : \/ account'[u] = account[u] \/ account'[u] = None
                                      \/ Created(u) \/ Moved(u) \/ SetBack(u)
<1> SUFFICES Goal
  OBVIOUS
<1> USE CounterAssumption, NoneAssumption
<1>1. ASSUME UNCHANGED <<account, fresh>> PROVE Goal
  BY <1>1
\* One account is written.
<1>2. ASSUME NEW u \in User, NEW row, account' = [account EXCEPT ![u] = row],
             fresh'.aid = fresh.aid, account[u] \in Account, row \in Account,
             row.aid = account[u].aid,
             \/ row.ver = account[u].ver + 1
             \/ row.ver = account[u].ver /\ row.pw = account[u].pw
                   /\ row.active = account[u].active
      PROVE  Goal
  <2>1. account'[u] = row /\ \A v \in User \ {u} : account'[v] = account[v]
    BY <1>2 DEF Types
  <2>2. Moved(u)
    BY <1>2, <2>1 DEF Moved
  <2> QED
    BY <1>2, <2>1, <2>2
\* A row of an account with a higher version.
<1>3. ASSUME NEW old \in Account, NEW row \in Account, row.aid = old.aid, row.ver = old.ver
      PROVE  Revoked(row).aid = old.aid /\ Revoked(row).ver = old.ver + 1
  BY <1>3 DEF Revoked, Account
<1>4. ASSUME NEW w \in Worker, LoginConsumes(w) PROVE Goal
  <2> DEFINE r == request[w]
  <2>1. CASE Unchanged(r)
    <3>1. account[r.user] \in Account /\ r.user \in User /\ r.code \in Counter \cup {0}
      BY <1>4, <2>1, CommitRow DEF LoginConsumes, Doing, Unchanged, Request
    <3> DEFINE row == [account[r.user] EXCEPT !.last = r.code]
    <3>2. account' = [account EXCEPT ![r.user] = row] /\ fresh' = fresh
      BY <1>4, <2>1 DEF LoginConsumes
    <3>3. /\ row \in Account /\ row.aid = account[r.user].aid /\ row.ver = account[r.user].ver
          /\ row.pw = account[r.user].pw /\ row.active = account[r.user].active
      BY <3>1 DEF Account
    <3> HIDE DEF row, Goal
    <3> QED
      BY <1>2, <3>1, <3>2, <3>3
  <2> QED
    BY <1>1, <1>4, <2>1 DEF LoginConsumes
<1>5. ASSUME NEW w \in Worker, SetupCommits(w) PROVE Goal
  <2> DEFINE r == [request[w] EXCEPT !.new =
                     [request[w].row EXCEPT !.secret = fresh.secret + 1,
                                            !.confirmed = FALSE, !.last = 0]]
  <2>1. /\ request[w] \in Request /\ request[w].row \in Account
        /\ account[request[w].user] \in Account /\ request[w].user \in User
    BY <1>5, CommitRow DEF SetupCommits, Doing
  <2>2. /\ r \in Request /\ r.row \in Account /\ r.new \in Account /\ r.user = request[w].user
        /\ r.new.pw = r.row.pw /\ r.new.active = r.row.active
    <3>1. fresh.secret + 1 \in Number
      BY <1>5 DEF SetupCommits, Types, Number
    <3>2. [request[w].row EXCEPT !.secret = fresh.secret + 1, !.confirmed = FALSE, !.last = 0]
             \in Account
      BY <2>1, <3>1, RowTypes
    <3> QED
      BY <2>1, <3>2 DEF Request, Account
  <2>3. account' = [account EXCEPT ![r.user] = Written(r)] /\ fresh'.aid = fresh.aid
    BY <1>5 DEF SetupCommits, Types
  <2> HIDE DEF r, Goal
  <2> QED
    BY <1>2, <2>1, <2>2, <2>3, WrittenType
<1>6. ASSUME NEW w \in Worker, FactorCommits(w) PROVE Goal
  <2> DEFINE r == request[w]
             row == [account[r.user] EXCEPT !.confirmed = r.new.confirmed, !.last = r.new.last,
                        !.secret = IF r.op = "disable" THEN 0 ELSE @]
  <2>1. /\ account[r.user] \in Account /\ r.user \in User /\ r.new \in Account
        /\ account[r.user].ver < MaxVersion
    BY <1>6, CommitRow DEF FactorCommits, Doing, Unchanged
  <2>2. /\ row \in Account /\ row.aid = account[r.user].aid /\ row.ver = account[r.user].ver
    BY <2>1, RowTypes, ZenonT(60) DEF Account
  <2>3. account' = [account EXCEPT ![r.user] = Revoked(row)] /\ fresh' = fresh
    BY <1>6 DEF FactorCommits
  <2> HIDE DEF row, r, Goal
  <2>4. Revoked(row) \in Account
    BY <2>1, <2>2, RowTypes
  <2> QED
    BY <1>2, <1>3, <2>1, <2>2, <2>3, <2>4
<1>7. ASSUME NEW w \in Worker, LogoutCommits(w) PROVE Goal
  <2> DEFINE u == request[w].user
  <2>1. account[u] \in Account /\ u \in User /\ Revoked(account[u]) \in Account
    BY <1>7, CommitRow, RowTypes DEF LogoutCommits, Doing
  <2>2. account' = [account EXCEPT ![u] = Revoked(account[u])] /\ fresh' = fresh
    BY <1>7 DEF LogoutCommits
  <2> HIDE DEF u, Goal
  <2> QED
    BY <1>2, <1>3, <2>1, <2>2
<1>8. ASSUME NEW w \in Worker, PasswordCommits(w) PROVE Goal
  <2> DEFINE u == request[w].user
             row == [account[u] EXCEPT !.pw = fresh.pw + 1]
  <2>1. account[u] \in Account /\ u \in User /\ account[u].ver < MaxVersion
    BY <1>8, CommitRow DEF PasswordCommits, Doing
  <2>2. fresh.pw + 1 \in Number
    BY <1>8 DEF PasswordCommits, Types, Number
  <2>3. row \in Account /\ row.aid = account[u].aid /\ row.ver = account[u].ver
    BY <2>1, <2>2, RowTypes DEF Account
  <2>4. account' = [account EXCEPT ![u] = Revoked(row)] /\ fresh'.aid = fresh.aid
    BY <1>8 DEF PasswordCommits, Types
  <2> HIDE DEF row, u, Goal
  <2>5. Revoked(row) \in Account
    BY <2>1, <2>3, RowTypes
  <2> QED
    BY <1>2, <1>3, <2>1, <2>3, <2>4, <2>5
<1>9. ASSUME NEW w \in Worker, UserCommits(w) PROVE Goal
  <2> DEFINE r == request[w]
  <2>1. /\ r \in Request /\ r.row \in Account /\ r.new \in Account
        /\ account[r.user] \in Account /\ r.user \in User /\ account[r.user].ver < MaxVersion
    BY <1>9, CommitRow DEF UserCommits, Doing
  <2>2. account' = [account EXCEPT ![r.user] = Revoked(Written(r))] /\ fresh'.aid = fresh.aid
    BY <1>9 DEF UserCommits, Types
  <2>3. /\ Written(r) \in Account /\ Written(r).aid = account[r.user].aid
        /\ Written(r).ver = account[r.user].ver
    BY <2>1, WrittenType
  <2> HIDE DEF r, Goal
  <2>4. Revoked(Written(r)) \in Account
    BY <2>1, <2>3, RowTypes
  <2> QED
    BY <1>2, <1>3, <2>1, <2>2, <2>3, <2>4
<1>10. ASSUME NEW w \in Worker, DeleteCommits(w) PROVE Goal
  BY <1>10, CommitRow DEF DeleteCommits, Doing, Types
<1>11. ASSUME NEW t \in session, NEW u \in User, NEW role \in {"admin", "viewer"},
              CreateUser(t, u, role)
       PROVE  Goal
  <2>1. NewAccount(role) \in Account /\ NewAccount(role).aid = fresh.aid + 1
    BY <1>11, NewAccountType DEF CreateUser
  <2>2. /\ account[u] = None /\ account' = [account EXCEPT ![u] = NewAccount(role)]
        /\ fresh'.aid = fresh.aid + 1
        /\ \A w \in Worker : request'[w] # None => request'[w].user # u
    BY <1>11 DEF CreateUser, Types
  <2>3. Created(u) /\ \A v \in User \ {u} : account'[v] = account[v]
    BY <2>1, <2>2 DEF Created, Types
  <2> QED
    BY <2>2, <2>3
<1>12. ASSUME NEW w \in Worker, ScriptCommits(w) PROVE Goal
  <2> DEFINE r   == request[w]
             row == [Written(r) EXCEPT !.ver = r.row.ver + 1]
  <2>1. /\ r \in Request /\ r.row \in Account /\ r.new \in Account
        /\ account[r.user] \in Account /\ r.user \in User /\ r.row.ver < MaxVersion
        /\ r.row.ver \in Nat
    <3>1. /\ r \in Request /\ r.row \in Account /\ r.new \in Account
          /\ account[r.user] \in Account /\ r.user \in User /\ r.row.ver < MaxVersion
      BY <1>12, CommitRow DEF ScriptCommits, Doing
    <3>2. r.row.ver \in Nat
      BY <3>1 DEF Account, Version
    <3> QED
      BY <3>1, <3>2
  <2>2. account' = [account EXCEPT ![r.user] = row] /\ fresh' = fresh
    BY <1>12 DEF ScriptCommits
  <2>3. row \in Account /\ row.aid = account[r.user].aid /\ row.ver = r.row.ver + 1
    BY <2>1, WrittenType, ScriptRow
  <2>4. CASE account[r.user].ver = r.row.ver
    <3> HIDE DEF row, r, Goal
    <3> QED
      BY <1>2, <2>1, <2>2, <2>3, <2>4
  <2>5. CASE account[r.user].ver # r.row.ver
    <3>1. account[r.user].aid \in overwritten'
      BY <1>12, <2>5 DEF ScriptCommits
    <3> HIDE DEF row, r
    <3>2. account'[r.user] = row /\ \A v \in User \ {r.user} : account'[v] = account[v]
      BY <2>1, <2>2 DEF Types
    <3>3. SetBack(r.user)
      BY <2>1, <2>3, <3>1, <3>2 DEF SetBack
    <3> QED
      BY <2>2, <3>2, <3>3
  <2> QED
    BY <2>4, <2>5
<1>13. CASE Restart
  <2>1. CASE UNCHANGED <<account, fresh>>
    BY <1>1, <2>1
  <2>2. CASE ~UNCHANGED <<account, fresh>>
    <3>1. PICK u \in User : account[u] = None /\ account' = [account EXCEPT ![u] = NewAccount("admin")]
      BY <1>13, <2>2 DEF Restart
    <3>2. NewAccount("admin") \in Account /\ NewAccount("admin").aid = fresh.aid + 1
      BY <1>13, <2>2, NewAccountType DEF Restart
    <3>3. fresh'.aid = fresh.aid + 1 /\ request' = [w \in Worker |-> None]
      BY <1>13, <2>2 DEF Restart, Types
    <3>4. Created(u) /\ \A v \in User \ {u} : account'[v] = account[v]
      BY <3>1, <3>2, <3>3 DEF Created, Types
    <3> QED
      BY <3>3, <3>4
  <2> QED
    BY <2>1, <2>2
<1>14. ASSUME NEW w \in Worker,
              \/ \E ip \in Ip, u \in User : LoginChecks(w, ip, u)
              \/ \E c \in Counter \cup {0} : LoginVerifies(w, c)
              \/ LoginFails(w) \/ LoginIssues(w) \/ Abandon(w)
       PROVE  Goal
  BY <1>1, <1>14 DEF LoginChecks, LoginVerifies, LoginFails, LoginIssues, Abandon
<1>15. ASSUME NEW w \in Worker, NEW t \in session,
              Own(w, t) \/ \E u \in User : Manage(w, t, u)
       PROVE  Goal
  BY <1>1, <1>15
  DEF Own, SetupReads, LogoutReads, PasswordReads, ConfirmReads, DisableReads, Manage,
      UpdateReads, ResetReads, DeleteReads, Reads
<1>16. CASE \/ UNCHANGED vars \/ TimePasses \/ \E t \in session : Expire(t)
            \/ \E w \in Worker, u \in User : ScriptReads(w, u)
  BY <1>1, <1>16 DEF vars, accountVars, TimePasses, Expire, ScriptReads, Reads
<1> HIDE DEF Goal
<1> QED
  BY <1>4, <1>5, <1>6, <1>7, <1>8, <1>9, <1>10, <1>11, <1>12, <1>13, <1>14, <1>15, <1>16
  DEF Next, Login, Commits

-----------------------------------------------------------------------------
(* What has been read, and what has been issued, is never ahead.           *)

\* A row that was read, or the row a session was opened on, against the
\* present one; nothing is said of the accounts the reset script has set back.
Behind(x, row, back) ==
    \/ x.aid \in back
    \/ x.aid = row.aid => x.ver <= row.ver /\ (x.ver = row.ver => x.pw = row.pw)

Numbered ==
    /\ \A u \in User : account[u] # None => account[u].aid <= fresh.aid
    /\ \A t \in session : t.aid <= fresh.aid
    /\ \A w \in Worker : request[w] # None /\ request[w].row # None =>
          request[w].row.aid <= fresh.aid

SessionsBehind ==
    \A t \in session : account[t.user] # None => Behind(t, account[t.user], overwritten)

RequestsBehind ==
    \A w \in Worker :
        request[w] # None /\ request[w].row # None /\ account[request[w].user] # None =>
            /\ request[w].row.aid = account[request[w].user].aid
            /\ Behind(request[w].row, account[request[w].user], overwritten)

Inv == Types /\ Shapes /\ Numbered /\ SessionsBehind /\ RequestsBehind

\* Sessions and rows that were behind an account stay behind it.
LEMMA BehindStep ==
    ASSUME Types, Shapes, [Next]_vars, NEW u \in User, NEW x \in Session \cup Account,
           x.aid <= fresh.aid, account[u] # None => Behind(x, account[u], overwritten),
           account'[u] # None
    PROVE  Behind(x, account'[u], overwritten')
<1> USE CounterAssumption, NoneAssumption
<1>1. x.aid \in Nat /\ x.ver \in Nat /\ fresh.aid \in Nat
  BY DEF Session, Account, Number, Version, Types
<1>5. overwritten \subseteq overwritten'
  BY HistoryStep
<1>2. CASE account'[u] = account[u]
  BY <1>2, <1>5 DEF Behind
<1>3. CASE Created(u)
  BY <1>1, <1>3 DEF Created, Behind
<1>4. CASE Moved(u)
  <2>1. account[u].ver \in Nat /\ account[u] # None
    BY <1>4 DEF Moved, Account, Version
  <2> QED
    BY <1>1, <1>4, <1>5, <2>1 DEF Moved, Behind
<1>6. CASE SetBack(u)
  <2>1. account[u] # None /\ account[u] \in Account
    BY <1>6 DEF SetBack
  <2>2. CASE x.aid = account[u].aid
    BY <1>6, <2>2 DEF SetBack, Behind
  <2>3. CASE x.aid # account[u].aid
    BY <1>6, <2>3 DEF SetBack, Behind
  <2> QED
    BY <2>2, <2>3
<1> QED
  BY <1>2, <1>3, <1>4, <1>6, AccountStep

\* A request reads the present row, keeps what it has read, or ends.
LEMMA RequestStep ==
    ASSUME Types, Shapes, [Next]_vars, NEW w \in Worker
    PROVE  \/ request'[w] \in {None, request[w]}
           \/ /\ UNCHANGED account
              /\ request'[w].row \in {None, account[request'[w].user]}
<1>1. ASSUME NEW v \in Worker, Answered(v) PROVE request'[w] \in {None, request[w]}
  BY <1>1 DEF Answered, Types
<1>2. ASSUME NEW v \in Worker, NEW op, NEW u, NEW new, NEW code, NEW mfa,
             Reads(v, op, u, new, code, mfa)
      PROVE  /\ UNCHANGED account
             /\ request'[w] = request[w] \/ request'[w].row = account[request'[w].user]
  BY <1>2 DEF Reads, Types
<1>3. ASSUME NEW v \in Worker, NEW ip, NEW u, LoginChecks(v, ip, u)
      PROVE  UNCHANGED account /\ (request'[w] = request[w] \/ request'[w].row = None)
  BY <1>3 DEF LoginChecks, Types
<1>4. ASSUME NEW v \in Worker, NEW c, LoginVerifies(v, c)
      PROVE  /\ UNCHANGED account
             /\ request'[w] = request[w] \/ request'[w].row = account[request'[w].user]
  BY <1>4, CommitRow DEF LoginVerifies, Types, Doing, Request
<1>5. ASSUME NEW v \in Worker, NEW t \in session, Own(v, t) \/ \E u \in User : Manage(v, t, u)
      PROVE  /\ UNCHANGED account
             /\ request'[w] = request[w] \/ request'[w].row = account[request'[w].user]
  BY <1>2, <1>5
  DEF Own, SetupReads, LogoutReads, PasswordReads, ConfirmReads, DisableReads, Manage,
      UpdateReads, ResetReads, DeleteReads
<1>6. ASSUME NEW v \in Worker,
             LoginFails(v) \/ LoginIssues(v) \/ LoginConsumes(v) \/ Abandon(v) \/ Commits(v)
      PROVE  Answered(v)
  BY <1>6 DEF LoginFails, LoginIssues, LoginConsumes, Abandon, Commits, SetupCommits,
     FactorCommits, LogoutCommits, PasswordCommits, UserCommits, DeleteCommits, ScriptCommits
<1>7. ASSUME \/ UNCHANGED vars \/ Restart \/ TimePasses
             \/ \E t \in session : Expire(t)
             \/ \E t \in session, u \in User, role \in {"admin", "viewer"} : CreateUser(t, u, role)
      PROVE  request'[w] \in {None, request[w]}
  BY <1>7 DEF vars, accountVars, Restart, TimePasses, Expire, CreateUser
<1>8. ASSUME NEW v \in Worker, NEW u \in User, ScriptReads(v, u)
      PROVE  /\ UNCHANGED account
             /\ request'[w] = request[w] \/ request'[w].row = account[request'[w].user]
  BY <1>2, <1>8 DEF ScriptReads
<1> QED
  BY <1>1, <1>3, <1>4, <1>5, <1>6, <1>7, <1>8 DEF Next, Login

\* A token is made for the version its request has read, or for the one its
\* own statement has made of that.
Made(t) ==
    \E w \in Worker :
        /\ request[w] # None /\ request[w].row # None
        /\ t.user = request[w].user /\ t.aid = request[w].row.aid
        /\ \/ UNCHANGED account /\ t.ver = request[w].row.ver /\ t.pw = request[w].row.pw
           \/ /\ account[t.user] # None /\ request[w].row.ver = account[t.user].ver
              /\ account'[t.user].ver = t.ver
              /\ \/ t.pw = account'[t.user].pw
                 \/ t.pw = request[w].row.pw /\ account'[t.user].pw = account[t.user].pw

LEMMA SessionStep ==
    ASSUME Types, Shapes, [Next]_vars
    PROVE  \A t \in session' : t \in session \/ Made(t)
<1> USE NoneAssumption
<1>1. ASSUME NEW w \in Worker, LoginIssues(w), NEW t \in session' PROVE t \in session \/ Made(t)
  BY <1>1, CommitRow DEF LoginIssues, Doing, Issue, Token, Made
<1>2. ASSUME NEW w \in Worker, LoginConsumes(w), NEW t \in session'
      PROVE  t \in session \/ Made(t)
  <2> DEFINE r == request[w]
  <2>1. CASE Unchanged(r) /\ t = Token(r, TRUE, r.row.ver)
    <3>1. /\ account[r.user] \in Account /\ r.user \in User /\ r.row \in Account
          /\ r.row.ver = account[r.user].ver /\ r # None
      BY <1>2, <2>1, CommitRow DEF LoginConsumes, Doing, Unchanged
    <3>2. account'[r.user] = [account[r.user] EXCEPT !.last = r.code]
      BY <1>2, <2>1, <3>1 DEF LoginConsumes, Types
    <3>3. account'[r.user].ver = account[r.user].ver /\ account'[r.user].pw = account[r.user].pw
      BY <3>1, <3>2 DEF Account
    <3>4. t.user = r.user /\ t.aid = r.row.aid /\ t.ver = r.row.ver /\ t.pw = r.row.pw
      BY <2>1 DEF Token
    <3> QED
      BY <3>1, <3>3, <3>4 DEF Made
  <2> QED
    BY <1>2, <2>1 DEF LoginConsumes, Issue
<1>3. ASSUME NEW w \in Worker, FactorCommits(w), NEW t \in session'
      PROVE  t \in session \/ Made(t)
  <2> DEFINE r == request[w]
  <2>1. CASE t = Token(r, r.mfa, r.row.ver + 1)
    <3>1. /\ account[r.user] \in Account /\ r.user \in User /\ r.row \in Account
          /\ r.row.ver = account[r.user].ver /\ r # None
      BY <1>3, CommitRow DEF FactorCommits, Doing, Unchanged
    <3>2. account'[r.user] =
             Revoked([account[r.user] EXCEPT !.confirmed = r.new.confirmed, !.last = r.new.last,
                         !.secret = IF r.op = "disable" THEN 0 ELSE @])
      BY <1>3, <3>1 DEF FactorCommits, Types
    <3>3. /\ account'[r.user].ver = account[r.user].ver + 1
          /\ account'[r.user].pw = account[r.user].pw
      BY <3>1, <3>2 DEF Account, Revoked
    <3>4. t.user = r.user /\ t.aid = r.row.aid /\ t.ver = r.row.ver + 1 /\ t.pw = r.row.pw
      BY <2>1 DEF Token
    <3> QED
      BY <3>1, <3>3, <3>4 DEF Made
  <2> QED
    BY <1>3, <2>1 DEF FactorCommits, Issue
<1>4. ASSUME NEW w \in Worker, PasswordCommits(w), NEW t \in session'
      PROVE  t \in session \/ Made(t)
  <2> DEFINE r == request[w]
  <2>1. CASE t = [Token(r, r.mfa, r.row.ver + 1) EXCEPT !.pw = fresh.pw + 1]
    <3>1. /\ account[r.user] \in Account /\ r.user \in User /\ r.row \in Account
          /\ r.row.ver = account[r.user].ver /\ r # None
      BY <1>4, CommitRow DEF PasswordCommits, Doing
    <3>2. account'[r.user] = Revoked([account[r.user] EXCEPT !.pw = fresh.pw + 1])
      BY <1>4, <3>1 DEF PasswordCommits, Types
    <3>3. account'[r.user].ver = account[r.user].ver + 1 /\ account'[r.user].pw = fresh.pw + 1
      BY <3>1, <3>2 DEF Account, Revoked
    <3>4. t.user = r.user /\ t.aid = r.row.aid /\ t.ver = r.row.ver + 1 /\ t.pw = fresh.pw + 1
      BY <2>1 DEF Token
    <3> QED
      BY <3>1, <3>3, <3>4 DEF Made
  <2> QED
    BY <1>4, <2>1 DEF PasswordCommits, Issue
<1>5. ASSUME NEW w \in Worker,
             \/ \E ip \in Ip, u \in User : LoginChecks(w, ip, u)
             \/ \E c \in Counter \cup {0} : LoginVerifies(w, c)
             \/ LoginFails(w) \/ Abandon(w) \/ SetupCommits(w) \/ LogoutCommits(w)
             \/ UserCommits(w) \/ DeleteCommits(w) \/ ScriptCommits(w)
      PROVE  session' = session
  BY <1>5 DEF LoginChecks, LoginVerifies, LoginFails, Abandon, SetupCommits, LogoutCommits,
     UserCommits, DeleteCommits, ScriptCommits
<1>6. ASSUME NEW w \in Worker, NEW t \in session, Own(w, t) \/ \E u \in User : Manage(w, t, u)
      PROVE  session' = session
  BY <1>6
  DEF Own, SetupReads, LogoutReads, PasswordReads, ConfirmReads, DisableReads, Manage,
      UpdateReads, ResetReads, DeleteReads, Reads
<1>7. ASSUME \/ UNCHANGED vars \/ Restart \/ TimePasses
             \/ \E t \in session : Expire(t)
             \/ \E t \in session, u \in User, role \in {"admin", "viewer"} : CreateUser(t, u, role)
             \/ \E w \in Worker, u \in User : ScriptReads(w, u)
      PROVE  session' \subseteq session
  BY <1>7 DEF vars, accountVars, Restart, TimePasses, Expire, CreateUser, ScriptReads, Reads
<1> QED
  BY <1>1, <1>2, <1>3, <1>4, <1>5, <1>6, <1>7 DEF Next, Login, Commits

LEMMA InvNext == Inv /\ [Next]_vars => Inv'
<1> SUFFICES ASSUME Inv, [Next]_vars PROVE Inv'
  OBVIOUS
<1> USE CounterAssumption, NoneAssumption
<1>1. Types' /\ Shapes' /\ Types /\ Shapes
  BY TypesNext DEF Inv
<1>2. fresh.aid \in Nat /\ fresh.aid <= fresh'.aid /\ fresh'.aid \in Nat
  BY <1>1, AccountStep DEF Types, Number
<1>3. \A t \in session : t.aid \in Nat /\ t.ver \in Nat /\ t.user \in User
  BY <1>1 DEF Types, Session, Number, Version
<1>4. \A row \in Account : row.aid \in Nat /\ row.ver \in Nat
  BY DEF Account, Number, Version
<1>5. \A u \in User : account[u] # None => account[u] \in Account
  BY <1>1 DEF Types
<1>6. ASSUME NEW w \in Worker, request[w] # None, request[w].row # None
      PROVE  /\ request[w].row \in Account /\ request[w].user \in User
             /\ request[w].row.aid <= fresh.aid
             /\ account[request[w].user] # None =>
                   /\ request[w].row.aid = account[request[w].user].aid
                   /\ Behind(request[w].row, account[request[w].user], overwritten)
  BY <1>1, <1>6, CommitRow DEF Inv, Numbered, RequestsBehind
<1>7. \A u \in User : account'[u] # None => account'[u].aid <= fresh'.aid
  <2>1. ASSUME NEW u \in User, account'[u] # None PROVE account'[u].aid <= fresh'.aid
    <3>1. CASE account'[u] = account[u]
      BY <1>2, <1>4, <1>5, <2>1, <3>1 DEF Inv, Numbered
    <3>2. CASE Created(u)
      BY <1>2, <3>2 DEF Created
    <3>3. CASE Moved(u)
      BY <1>2, <1>4, <3>3 DEF Moved, Inv, Numbered
    <3>4. CASE SetBack(u)
      BY <1>2, <1>4, <3>4 DEF SetBack, Inv, Numbered
    <3> QED
      BY <1>1, <2>1, <3>1, <3>2, <3>3, <3>4, AccountStep
  <2> QED
    BY <2>1
<1>8. ASSUME NEW t \in session'
      PROVE  /\ t.aid <= fresh'.aid
             /\ account'[t.user] # None => Behind(t, account'[t.user], overwritten')
  <2>1. CASE t \in session
    <3>1. t.aid <= fresh.aid /\ t.user \in User /\ t \in Session
          /\ (account[t.user] # None => Behind(t, account[t.user], overwritten))
      BY <1>1, <1>3, <2>1 DEF Inv, Numbered, SessionsBehind, Types
    <3> QED
      BY <1>1, <1>2, <1>3, <2>1, <3>1, BehindStep
  <2>2. CASE Made(t)
    <3>1. PICK w \in Worker :
             /\ request[w] # None /\ request[w].row # None
             /\ t.user = request[w].user /\ t.aid = request[w].row.aid
             /\ \/ UNCHANGED account /\ t.ver = request[w].row.ver /\ t.pw = request[w].row.pw
                \/ /\ account[t.user] # None /\ request[w].row.ver = account[t.user].ver
                   /\ account'[t.user].ver = t.ver
                   /\ \/ t.pw = account'[t.user].pw
                      \/ t.pw = request[w].row.pw /\ account'[t.user].pw = account[t.user].pw
      BY <2>2 DEF Made
    <3>2. t.aid <= fresh'.aid
      BY <1>2, <1>4, <1>6, <3>1
    <3>3. ASSUME account'[t.user] # None PROVE Behind(t, account'[t.user], overwritten')
      <4>3. overwritten \subseteq overwritten'
        BY HistoryStep
      <4>1. CASE UNCHANGED account /\ t.ver = request[w].row.ver /\ t.pw = request[w].row.pw
        BY <1>6, <3>1, <3>3, <4>1, <4>3 DEF Behind
      <4>2. CASE /\ account[t.user] # None /\ request[w].row.ver = account[t.user].ver
                 /\ account'[t.user].ver = t.ver
                 /\ \/ t.pw = account'[t.user].pw
                    \/ t.pw = request[w].row.pw /\ account'[t.user].pw = account[t.user].pw
        <5>1. t.ver \in Nat
          BY <1>1, <1>4, <1>6, <3>1, <3>3, <4>2 DEF Types
        <5>2. request[w].row.pw = account[t.user].pw \/ t.aid \in overwritten'
          BY <1>6, <3>1, <4>2, <4>3 DEF Behind
        <5> QED
          BY <4>2, <5>1, <5>2 DEF Behind
      <4> QED
        BY <3>1, <4>1, <4>2
    <3> QED
      BY <3>2, <3>3
  <2> QED
    BY <1>1, <2>1, <2>2, SessionStep
<1>9. ASSUME NEW w \in Worker, request'[w] # None, request'[w].row # None
      PROVE  /\ request'[w].row.aid <= fresh'.aid
             /\ account'[request'[w].user] # None =>
                   /\ request'[w].row.aid = account'[request'[w].user].aid
                   /\ Behind(request'[w].row, account'[request'[w].user], overwritten')
  <2> DEFINE r == request'[w]
             u == r.user
  <2>1. r \in Request /\ u \in User /\ r.row \in Account
    BY <1>1, <1>9 DEF Types, Request
  <2>2. CASE request'[w] = request[w]
    <3>1. /\ r.row.aid <= fresh.aid
          /\ account[u] # None =>
                r.row.aid = account[u].aid /\ Behind(r.row, account[u], overwritten)
      BY <1>6, <1>9, <2>2
    <3>2. ASSUME account'[u] # None PROVE r.row.aid = account'[u].aid
      <4>1. ~Created(u)
        BY <1>9 DEF Created
      <4>2. CASE account'[u] = account[u]
        BY <3>1, <3>2, <4>2
      <4>3. CASE Moved(u)
        BY <3>1, <4>3 DEF Moved
      <4>4. CASE SetBack(u)
        BY <3>1, <4>4 DEF SetBack
      <4> QED
        BY <1>1, <2>1, <3>2, <4>1, <4>2, <4>3, <4>4, AccountStep
    <3>3. ASSUME account'[u] # None PROVE Behind(r.row, account'[u], overwritten')
      <4>1. r.row \in Session \cup Account /\ r.row.aid <= fresh.aid
        BY <2>1, <3>1
      <4> QED
        BY <1>1, <2>1, <3>1, <3>3, <4>1, BehindStep
    <3>4. r.row.aid <= fresh'.aid
      BY <1>2, <1>4, <2>1, <3>1
    <3> QED
      BY <3>2, <3>3, <3>4
  <2>3. CASE UNCHANGED account /\ r.row \in {None, account[u]}
    BY <1>4, <1>7, <1>9, <2>1, <2>3 DEF Behind
  <2> QED
    BY <1>1, <1>9, <2>2, <2>3, RequestStep
<1>10. Numbered'
  BY <1>7, <1>8, <1>9 DEF Numbered
<1>11. SessionsBehind' /\ RequestsBehind'
  BY <1>8, <1>9 DEF SessionsBehind, RequestsBehind
<1> QED
  BY <1>1, <1>10, <1>11 DEF Inv

LEMMA Inductive == Spec => []Inv
<1>1. Init => Inv
  <2> SUFFICES ASSUME Init PROVE Inv
    OBVIOUS
  <2>1. Types
    BY RowTypes DEF Init, Types
  <2>2. Shapes /\ Numbered /\ SessionsBehind /\ RequestsBehind
    BY DEF Init, Shapes, Numbered, SessionsBehind, RequestsBehind
  <2> QED
    BY <2>1, <2>2 DEF Inv
<1> QED
  BY <1>1, InvNext, PTL DEF Spec

\* get_current_user: every session that is accepted was opened with the
\* account's present password, however logins, re-issues, changes of password,
\* resets, deletions and runs of the reset script overlap, unless the script
\* has overwritten a version of that account it had not read.
THEOREM OnlyCurrentSessions == Spec => []SessionsCurrent
<1>1. Inv => SessionsCurrent
  BY DEF Inv, SessionsBehind, Behind, SessionsCurrent, Accepted
<1> QED
  BY <1>1, Inductive, PTL

\* increment_token_version and auth_id: no step lets a session in again that
\* was refused before it.  The one exception is named: the account is one whose
\* version the reset script has overwritten after a request had raised it.
THEOREM RefusedStayRefused == Spec => RevokedForGood
<1>1. Inv /\ [Next]_vars =>
         [\A t \in session :
             ~Accepted(t) => ~Accepted(t)' \/ t.aid \in overwritten']_vars
  <2> SUFFICES ASSUME Inv, [Next]_vars, NEW t \in session, ~Accepted(t), Accepted(t)',
                      t.aid \notin overwritten'
               PROVE  FALSE
    OBVIOUS
  <2>1. Types /\ Shapes
    BY DEF Inv
  <2>2. /\ t.user \in User /\ t.aid \in Nat /\ t.ver \in Nat /\ t.aid <= fresh.aid
        /\ fresh.aid \in Nat
        /\ account[t.user] # None => Behind(t, account[t.user], overwritten)
        /\ t.aid \notin overwritten
    BY <2>1, HistoryStep, CounterAssumption
    DEF Inv, Types, Session, Number, Version, Numbered, SessionsBehind
  <2>3. /\ account'[t.user] # None /\ account'[t.user].active
        /\ account'[t.user].aid = t.aid /\ account'[t.user].ver = t.ver
    BY DEF Accepted
  <2>4. account'[t.user] # account[t.user]
    BY <2>3 DEF Accepted
  <2>5. ~Created(t.user)
    BY <2>2, <2>3 DEF Created
  <2>6. CASE Moved(t.user)
    <3>1. account[t.user] # None /\ account[t.user].ver \in Nat
      BY <2>6, NoneAssumption, CounterAssumption DEF Moved, Account, Version
    <3>2. account'[t.user].ver # account[t.user].ver + 1
      BY <2>2, <2>3, <2>6, <3>1 DEF Moved, Behind
    <3> QED
      BY <2>3, <2>6, <3>1, <3>2 DEF Moved, Accepted
  <2>7. ~SetBack(t.user)
    BY <2>3 DEF SetBack
  <2> QED
    BY <2>1, <2>2, <2>3, <2>4, <2>5, <2>6, <2>7, AccountStep
<1> QED
  BY <1>1, Inductive, PTL DEF Spec, RevokedForGood

-----------------------------------------------------------------------------
(* Codes.  A request that holds a code was given a row in which the code   *)
(* was newer than the counter; its commit compares the counter and the     *)
(* version.  Whatever sets the counter back without raising the version    *)
(* gives the account a new secret.                                         *)

\* A row has a counter exactly when its secret was confirmed.
Paired(row) == row.confirmed <=> row.last # 0

\* What a request has read, and what it is about to write.
Carries(r) ==
    /\ r.row # None => Paired(r.row)
    /\ r.row # None /\ r.code # 0 => r.row.secret # 0 /\ r.code > r.row.last
    /\ r.row # None /\ r.code # 0 /\ r.op = "login" => r.row.confirmed
    /\ r.op \in {"confirm", "disable"} => r.code # 0
    /\ r.op = "confirm" => r.new.confirmed /\ r.new.last = r.code
    /\ r.op \in {"disable", "reset", "script"} =>
          r.new.secret = 0 /\ ~r.new.confirmed /\ r.new.last = 0
    /\ r.op = "update" =>
          /\ r.new.secret = r.row.secret /\ r.new.last = r.row.last
          /\ r.new.confirmed = r.row.confirmed

AllPaired ==
    /\ \A u \in User : account[u] # None => Paired(account[u])
    /\ \A w \in Worker : request[w] # None => Carries(request[w])

\* u has the secret s now, or had it when a request read its row.
Has(u, s) ==
    \/ account[u] # None /\ account[u].secret = s
    \/ \E w \in Worker : /\ request[w] # None /\ request[w].row # None
                         /\ request[w].user = u /\ request[w].row.secret = s

\* Secrets are made one after the other, each for one account.
SecretsOwned ==
    /\ \A u \in User, s \in Number \ {0} : Has(u, s) => s <= fresh.secret
    /\ \A u, v \in User, s \in Number \ {0} : Has(u, s) /\ Has(v, s) => u = v
    /\ \A s \in Number, c \in Counter : uses[<<s, c>>] > 0 => s <= fresh.secret

\* The code c of the secret s was accepted.
Spent(s, c) == uses[<<s, c>>] > 0 /\ s \notin rewound

\* The request w holds a code and nothing has raised the version since it
\* read its row.
Holds(w) ==
    /\ request[w] # None /\ request[w].row # None /\ request[w].code # 0
    /\ request[w].row.secret \notin rewound
    /\ account[request[w].user] # None
    /\ account[request[w].user].ver = request[w].row.ver

\* The codes that were accepted for the present secret are behind its counter.
SpentBehind ==
    \A u \in User, c \in Counter :
        /\ account[u] # None /\ account[u].secret # 0 /\ Spent(account[u].secret, c)
        => c <= account[u].last

\* Who holds a code that was accepted since has read a counter the account no
\* longer has: it has reached the code, or there is a new secret without one.
SpentMissed ==
    \A w \in Worker :
        Holds(w) /\ Spent(request[w].row.secret, request[w].code) =>
            /\ request[w].row.last # 0
            /\ \/ account[request[w].user].last >= request[w].code
               \/ account[request[w].user].last = 0

\* Between two versions a secret is confirmed or not, for everybody.
SameStage ==
    /\ \A w \in Worker :
          Holds(w) /\ account[request[w].user].secret = request[w].row.secret =>
             (account[request[w].user].last = 0 <=> request[w].row.last = 0)
    /\ \A v, w \in Worker :
          /\ Holds(v) /\ Holds(w) /\ request[v].user = request[w].user
          /\ request[v].row.secret = request[w].row.secret
          => (request[v].row.last = 0 <=> request[w].row.last = 0)

CodesType ==
    /\ uses \in [Number \X Counter -> Nat]
    /\ rewound \subseteq Number /\ overwritten \subseteq Number

\* Nobody has read a version the account has not reached, unless the script
\* has set it back, with the secret in hand.
NoneAhead ==
    \A w \in Worker :
        /\ request[w] # None /\ request[w].row # None
        /\ account[request[w].user] # None /\ request[w].row.secret \notin rewound
        => request[w].row.ver <= account[request[w].user].ver

CodeInv ==
    /\ CodesType /\ AllPaired /\ SecretsOwned /\ NoneAhead
    /\ SpentBehind /\ SpentMissed /\ SameStage /\ CodeUsedOnce

-----------------------------------------------------------------------------
(* What a step does to the rows, as far as codes go.                       *)

\* From one row of an account to the next: nothing, a login, a set-up, or a
\* change that raises the version.
Turns(old, row) ==
    \/ row.ver = old.ver /\ row.secret = old.secret /\ row.last = old.last
    \/ row.ver = old.ver /\ row.secret = old.secret /\ old.last # 0 /\ row.last > old.last
    \/ /\ row.ver = old.ver /\ row.last \in {old.last, 0}
       /\ row.secret = fresh.secret + 1 /\ fresh'.secret = fresh.secret + 1
    \/ /\ row.ver = old.ver + 1
       /\ \/ row.secret = 0
          \/ row.secret = old.secret /\ (row.last >= old.last \/ old.secret \in rewound')

Born(u) == Created(u) /\ account'[u].secret = 0

\* The script writes the version it has read, whatever the version is by now.
Overwrites(u) ==
    /\ account[u] \in Account /\ account'[u] \in Account
    /\ account'[u].secret \in {0, account[u].secret}
    /\ InHand(u) \subseteq rewound'

\* One account is written, or none.
Stepped ==
    /\ \A u \in User : \/ account'[u] = None \/ Born(u) \/ Overwrites(u)
                       \/ /\ account[u] \in Account /\ account'[u] \in Account
                          /\ Turns(account[u], account'[u])
    /\ \A u \in User : account'[u] # None => Paired(account'[u])
    /\ \A u \in User : account'[u] # account[u] =>
          \A v \in User \ {u} : account'[v] = account[v]

\* The request w is answered and its code accepted.
Accepts(w) ==
    LET r   == request[w]
        old == account[r.user]
        row == account'[r.user]
    IN  /\ r # None /\ r.row # None /\ r.code # 0
        /\ old # None /\ row # None /\ old.ver = r.row.ver /\ old.last = r.row.last
        /\ uses' = [uses EXCEPT ![<<r.row.secret, r.code>>] = @ + 1]
        /\ \A v \in Worker : request'[v] \in {None, request[v]}
        /\ \/ row.ver = old.ver /\ r.row.last # 0 /\ row.last = r.code
           \/ row.ver = old.ver + 1 /\ row.last = r.code
           \/ row.ver = old.ver + 1 /\ row.secret = 0

LEMMA RowFacts ==
    ASSUME NEW row \in Account
    PROVE  /\ row.ver \in Nat /\ row.secret \in Nat /\ row.secret \in Number /\ row.last \in Nat
           /\ row.last \in Counter \cup {0} /\ row.confirmed \in BOOLEAN
<1>1. /\ row.ver \in Version /\ row.secret \in Number /\ row.last \in Counter \cup {0}
      /\ row.confirmed \in BOOLEAN
  BY DEF Account
<1>2. \A c \in Counter \cup {0} : c \in Nat
  BY CounterAssumption
<1> QED
  BY <1>1, <1>2 DEF Number, Version

\* Of the codes, an ORM update writes nothing, or it clears what it has read.
LEMMA WrittenCodes ==
    ASSUME NEW r \in Request, r.row \in Account, r.new \in Account,
           account[r.user] \in Account, Paired(r.row), Paired(account[r.user]),
           \/ r.new.last = r.row.last /\ r.new.confirmed = r.row.confirmed
           \/ r.new.last = 0 /\ ~r.new.confirmed
    PROVE  /\ Paired(Written(r))
           /\ Written(r).last \in {account[r.user].last, 0}
           /\ r.new.last = r.row.last => Written(r).last = account[r.user].last
           /\ Written(r).secret \in {account[r.user].secret, r.new.secret}
           /\ r.new.secret = r.row.secret => Written(r).secret = account[r.user].secret
           /\ r.new.secret # r.row.secret => Written(r).secret = r.new.secret
<1>1. /\ Written(r).last = IF r.new.last # r.row.last THEN r.new.last ELSE account[r.user].last
      /\ Written(r).confirmed = IF r.new.confirmed # r.row.confirmed THEN r.new.confirmed
                                ELSE account[r.user].confirmed
      /\ Written(r).secret = IF r.new.secret # r.row.secret THEN r.new.secret
                             ELSE account[r.user].secret
  BY DEF Written
<1>2. r.row.confirmed \in BOOLEAN /\ r.new.confirmed \in BOOLEAN
      /\ account[r.user].confirmed \in BOOLEAN
  BY RowFacts
<1> QED
  BY <1>1, <1>2 DEF Paired

LEMMA RevokedFacts ==
    ASSUME NEW row \in Account
    PROVE  /\ Revoked(row).ver = row.ver + 1 /\ Revoked(row).secret = row.secret
           /\ Revoked(row).last = row.last /\ Revoked(row).confirmed = row.confirmed
           /\ Paired(row) => Paired(Revoked(row))
<1>1. /\ Revoked(row).ver = row.ver + 1 /\ Revoked(row).secret = row.secret
      /\ Revoked(row).last = row.last /\ Revoked(row).confirmed = row.confirmed
  BY DEF Revoked, Account
<1> QED
  BY <1>1 DEF Paired

\* A request in the middle of a commit.
LEMMA CommitCodes ==
    ASSUME Types, Shapes, AllPaired, NEW w \in Worker, request[w] # None,
           account[request[w].user] # None
    PROVE  /\ request[w] \in Request /\ request[w].user \in User /\ Carries(request[w])
           /\ account[request[w].user] \in Account /\ Paired(account[request[w].user])
           /\ request[w].row # None => request[w].row \in Account /\ Paired(request[w].row)
           /\ request[w].op # "login" => request[w].row \in Account
           /\ request[w].op \in {"confirm", "disable", "update", "reset", "script"} =>
                 request[w].new \in Account
           /\ request[w].code \in Counter \cup {0}
<1>1. request[w] \in Request /\ request[w].user \in User /\ request[w].code \in Counter \cup {0}
  BY DEF Types, Request
<1>2. Carries(request[w]) /\ Paired(account[request[w].user])
  BY <1>1 DEF AllPaired
<1>3. request[w].row # None => Paired(request[w].row)
  BY <1>2 DEF Carries
<1> QED
  BY <1>1, <1>2, <1>3, CommitRow

LEMMA AccountCodes ==
    ASSUME Types, Shapes, AllPaired, SecretsOwned, [Next]_vars
    PROVE  Stepped
<1> USE CounterAssumption, NoneAssumption
<1>1. ASSUME UNCHANGED account PROVE Stepped
  <2>1. \A u \in User : account[u] # None =>
           account[u] \in Account /\ Turns(account[u], account[u]) /\ Paired(account[u])
    BY DEF Types, Turns, AllPaired
  <2> QED
    BY <1>1, <2>1 DEF Stepped
\* One account is written.
<1>2. ASSUME NEW u \in User, NEW row, account' = [account EXCEPT ![u] = row],
             \/ row = None
             \/ /\ account[u] \in Account /\ row \in Account /\ Paired(row)
                /\ Turns(account[u], row)
             \/ (Born(u) \/ Overwrites(u)) /\ Paired(row)
      PROVE  Stepped
  <2>1. account'[u] = row /\ \A v \in User \ {u} : account'[v] = account[v]
    BY <1>2 DEF Types
  <2>2. \A v \in User : account[v] # None =>
           account[v] \in Account /\ Turns(account[v], account[v]) /\ Paired(account[v])
    BY DEF Types, Turns, AllPaired
  <2> QED
    BY <1>2, <2>1, <2>2 DEF Stepped
<1>3. ASSUME NEW w \in Worker, LoginConsumes(w) PROVE Stepped
  <2> DEFINE r == request[w]
  <2>1. CASE Unchanged(r)
    <3>1. /\ account[r.user] \in Account /\ r.user \in User /\ r.row \in Account /\ Carries(r)
          /\ Paired(account[r.user]) /\ Paired(r.row) /\ r.code \in Counter /\ r.code # 0
      BY <1>3, <2>1, CommitCodes DEF LoginConsumes, Doing, Unchanged
    <3> DEFINE row == [account[r.user] EXCEPT !.last = r.code]
    <3>2. account' = [account EXCEPT ![r.user] = row]
      BY <1>3, <2>1 DEF LoginConsumes
    <3>3. /\ row \in Account /\ row.ver = account[r.user].ver /\ row.last = r.code
          /\ row.secret = account[r.user].secret /\ row.confirmed = account[r.user].confirmed
      BY <3>1 DEF Account
    <3>4. r.row.confirmed /\ r.code > r.row.last /\ account[r.user].last = r.row.last
      BY <1>3, <2>1, <3>1 DEF LoginConsumes, Doing, Unchanged, Carries
    <3>5. account[r.user].last # 0 /\ account[r.user].confirmed
      BY <3>1, <3>4 DEF Paired
    <3> HIDE DEF row, r
    <3>6. Turns(account[r.user], row) /\ Paired(row)
      BY <3>1, <3>3, <3>4, <3>5 DEF Turns, Paired
    <3> QED
      BY <1>2, <3>1, <3>2, <3>3, <3>6
  <2> QED
    BY <1>1, <1>3, <2>1 DEF LoginConsumes
<1>4. ASSUME NEW w \in Worker, SetupCommits(w) PROVE Stepped
  <2> DEFINE r == [request[w] EXCEPT !.new =
                     [request[w].row EXCEPT !.secret = fresh.secret + 1,
                                            !.confirmed = FALSE, !.last = 0]]
  <2>1. /\ request[w] \in Request /\ request[w].row \in Account /\ Paired(request[w].row)
        /\ account[request[w].user] \in Account /\ Paired(account[request[w].user])
        /\ request[w].user \in User
    BY <1>4, CommitCodes DEF SetupCommits, Doing
  <2>2. fresh.secret + 1 \in Number /\ fresh'.secret = fresh.secret + 1
    BY <1>4 DEF SetupCommits, Types, Number
  <2>3. [request[w].row EXCEPT !.secret = fresh.secret + 1, !.confirmed = FALSE, !.last = 0]
           \in Account
    BY <2>1, <2>2, RowTypes
  <2>4. /\ r \in Request /\ r.row = request[w].row /\ r.new \in Account
        /\ r.user = request[w].user
        /\ r.new.secret = fresh.secret + 1 /\ ~r.new.confirmed /\ r.new.last = 0
    BY <2>1, <2>3 DEF Request, Account
  <2>5. account' = [account EXCEPT ![r.user] = Written(r)]
    BY <1>4 DEF SetupCommits
  <2>6. r.row.secret # fresh.secret + 1
    <3>1. request[w].row.secret \in Nat /\ request[w].row.secret \in Number
          /\ fresh.secret \in Nat
      BY <2>1, RowFacts DEF Types, Number
    <3>2. Has(request[w].user, request[w].row.secret)
      BY <1>4, <2>1 DEF SetupCommits, Doing, Has
    <3> QED
      BY <2>1, <2>4, <3>1, <3>2 DEF SecretsOwned
  <2> HIDE DEF r
  <2>7. /\ Written(r) \in Account /\ Written(r).ver = account[r.user].ver
        /\ Paired(Written(r)) /\ Written(r).last \in {account[r.user].last, 0}
        /\ Written(r).secret = fresh.secret + 1
    BY <2>1, <2>4, <2>6, WrittenType, WrittenCodes
  <2> QED
    BY <1>2, <2>1, <2>2, <2>4, <2>5, <2>7 DEF Turns
<1>5. ASSUME NEW w \in Worker, FactorCommits(w) PROVE Stepped
  <2> DEFINE r   == request[w]
             row == [account[r.user] EXCEPT !.confirmed = r.new.confirmed, !.last = r.new.last,
                        !.secret = IF r.op = "disable" THEN 0 ELSE @]
  <2>1. /\ account[r.user] \in Account /\ r.user \in User /\ r.new \in Account
        /\ Carries(r) /\ r.row \in Account /\ account[r.user].ver < MaxVersion
        /\ r.op \in {"confirm", "disable"} /\ account[r.user].last = r.row.last
        /\ r.code \in Counter \cup {0}
    BY <1>5, CommitCodes DEF FactorCommits, Doing, Unchanged
  <2>2. /\ row \in Account /\ row.ver = account[r.user].ver
        /\ row.last = r.new.last /\ row.confirmed = r.new.confirmed
        /\ row.secret = IF r.op = "disable" THEN 0 ELSE account[r.user].secret
    <3>1. row \in Account
      BY <2>1, RowTypes, ZenonT(60) DEF Account
    <3> QED
      BY <2>1, <3>1 DEF Account
  <2>3. account' = [account EXCEPT ![r.user] = Revoked(row)]
    BY <1>5 DEF FactorCommits
  <2>4. r.code \in Nat /\ r.row.last \in Nat
    <3>1. \A c \in Counter \cup {0} : c \in Nat
      BY CounterAssumption
    <3> QED
      BY <2>1, <3>1, RowFacts
  <2>5. /\ r.code # 0 /\ r.code > r.row.last
        /\ r.op = "confirm" => r.new.confirmed /\ r.new.last = r.code
        /\ r.op = "disable" => ~r.new.confirmed /\ r.new.last = 0
    BY <2>1, NoneAssumption DEF Carries
  <2> HIDE DEF row, r
  <2>6. Revoked(row) \in Account /\ Paired(row) /\ Paired(Revoked(row))
    BY <2>1, <2>2, <2>5, RowTypes, RevokedFacts DEF Paired
  <2>7. Turns(account[r.user], Revoked(row))
    BY <2>1, <2>2, <2>4, <2>5, RevokedFacts DEF Turns
  <2> QED
    BY <1>2, <2>1, <2>3, <2>6, <2>7
<1>6. ASSUME NEW w \in Worker, LogoutCommits(w) PROVE Stepped
  <2> DEFINE u == request[w].user
  <2>1. /\ account[u] \in Account /\ u \in User /\ Paired(account[u])
        /\ account[u].ver < MaxVersion
    BY <1>6, CommitCodes DEF LogoutCommits, Doing
  <2>2. account' = [account EXCEPT ![u] = Revoked(account[u])]
    BY <1>6 DEF LogoutCommits
  <2> HIDE DEF u
  <2>3. Revoked(account[u]) \in Account /\ Paired(Revoked(account[u]))
    BY <2>1, RowTypes, RevokedFacts
  <2>4. Turns(account[u], Revoked(account[u]))
    BY <2>1, RowFacts, RevokedFacts DEF Turns
  <2> QED
    BY <1>2, <2>1, <2>2, <2>3, <2>4
<1>7. ASSUME NEW w \in Worker, PasswordCommits(w) PROVE Stepped
  <2> DEFINE u   == request[w].user
             row == [account[u] EXCEPT !.pw = fresh.pw + 1]
  <2>1. /\ account[u] \in Account /\ u \in User /\ Paired(account[u])
        /\ account[u].ver < MaxVersion
    BY <1>7, CommitCodes DEF PasswordCommits, Doing
  <2>2. fresh.pw + 1 \in Number
    BY <1>7 DEF PasswordCommits, Types, Number
  <2>3. /\ row \in Account /\ row.ver = account[u].ver /\ row.secret = account[u].secret
        /\ row.last = account[u].last /\ row.confirmed = account[u].confirmed
    BY <2>1, <2>2, RowTypes DEF Account
  <2>4. account' = [account EXCEPT ![u] = Revoked(row)]
    BY <1>7 DEF PasswordCommits
  <2> HIDE DEF row, u
  <2>5. Revoked(row) \in Account /\ Paired(row) /\ Paired(Revoked(row))
    BY <2>1, <2>3, RowTypes, RevokedFacts DEF Paired
  <2>6. Turns(account[u], Revoked(row))
    BY <2>1, <2>3, RowFacts, RevokedFacts DEF Turns
  <2> QED
    BY <1>2, <2>1, <2>4, <2>5, <2>6
<1>8. ASSUME NEW w \in Worker, UserCommits(w) PROVE Stepped
  <2> DEFINE r == request[w]
  <2>1. /\ r \in Request /\ r.row \in Account /\ r.new \in Account
        /\ account[r.user] \in Account /\ r.user \in User /\ account[r.user].ver < MaxVersion
        /\ Paired(r.row) /\ Paired(account[r.user]) /\ Carries(r)
        /\ r.op \in {"update", "reset"}
    BY <1>8, CommitCodes DEF UserCommits, Doing
  <2>2. account' = [account EXCEPT ![r.user] = Revoked(Written(r))]
    BY <1>8 DEF UserCommits
  <2>3. rewound' = IF Rewinds(r) THEN rewound \cup {account[r.user].secret} ELSE rewound
    BY <1>8 DEF UserCommits
  <2> HIDE DEF r
  <2>4. \/ /\ r.new.last = r.row.last /\ r.new.confirmed = r.row.confirmed
           /\ r.new.secret = r.row.secret
        \/ r.new.last = 0 /\ ~r.new.confirmed /\ r.new.secret = 0
    BY <2>1 DEF Carries
  <2>5. /\ Paired(Written(r)) /\ Written(r).last \in {account[r.user].last, 0}
        /\ Written(r).secret \in {account[r.user].secret, 0}
        /\ Written(r) \in Account /\ Written(r).ver = account[r.user].ver
    BY <2>1, <2>4, WrittenType, WrittenCodes
  <2>6. Revoked(Written(r)) \in Account /\ Paired(Revoked(Written(r)))
    BY <2>1, <2>5, RowTypes, RevokedFacts
  <2>7. Written(r).last < account[r.user].last => Written(r).secret = 0 \/ Rewinds(r)
    BY <2>5 DEF Rewinds
  <2>8. Turns(account[r.user], Revoked(Written(r)))
    BY <2>1, <2>3, <2>5, <2>7, RowFacts, RevokedFacts DEF Turns, Rewinds
  <2> QED
    BY <1>2, <2>1, <2>2, <2>6, <2>8
<1>9. ASSUME NEW w \in Worker, DeleteCommits(w) PROVE Stepped
  BY <1>2, <1>9, CommitRow DEF DeleteCommits, Doing
<1>10. ASSUME NEW u \in User, NEW role \in {"admin", "viewer"}, account[u] = None,
              account' = [account EXCEPT ![u] = NewAccount(role)],
              fresh.aid < MaxNumber, fresh.pw < MaxNumber, fresh'.aid = fresh.aid + 1,
              \A w \in Worker : request'[w] # None => request'[w].user # u
       PROVE  Stepped
  <2>1. NewAccount(role) \in Account /\ NewAccount(role).aid = fresh.aid + 1
    BY <1>10, NewAccountType
  <2>2. NewAccount(role).secret = 0 /\ Paired(NewAccount(role))
    BY DEF NewAccount, Paired
  <2>3. account'[u] = NewAccount(role)
    BY <1>10 DEF Types
  <2>4. Born(u)
    BY <1>10, <2>1, <2>2, <2>3 DEF Born, Created
  <2> QED
    BY <1>2, <1>10, <2>2, <2>4
<1>11. ASSUME NEW t \in session, NEW u \in User, NEW role \in {"admin", "viewer"},
              CreateUser(t, u, role)
       PROVE  Stepped
  <2>1. fresh'.aid = fresh.aid + 1
    BY <1>11 DEF CreateUser, Types
  <2> QED
    BY <1>10, <1>11, <2>1 DEF CreateUser
<1>12. ASSUME NEW w \in Worker, ScriptCommits(w) PROVE Stepped
  <2> DEFINE r   == request[w]
             row == [Written(r) EXCEPT !.ver = r.row.ver + 1]
  <2>1. /\ r \in Request /\ r.row \in Account /\ r.new \in Account
        /\ account[r.user] \in Account /\ r.user \in User
        /\ r.row.ver < MaxVersion /\ r.row.ver \in Nat
        /\ Paired(r.row) /\ Paired(account[r.user]) /\ Carries(r) /\ r.op = "script"
    BY <1>12, CommitRow, CommitCodes, RowFacts DEF ScriptCommits, Doing
  <2>2. account' = [account EXCEPT ![r.user] = row]
    BY <1>12 DEF ScriptCommits
  <2>3. r.new.last = 0 /\ ~r.new.confirmed /\ r.new.secret = 0
    BY <2>1 DEF Carries
  <2>4. /\ Paired(Written(r)) /\ Written(r).last \in {account[r.user].last, 0}
        /\ Written(r).secret \in {account[r.user].secret, 0} /\ Written(r) \in Account
    BY <2>1, <2>3, WrittenType, WrittenCodes
  <2>5. /\ row \in Account /\ row.ver = r.row.ver + 1 /\ row.secret = Written(r).secret
        /\ row.last = Written(r).last /\ row.confirmed = Written(r).confirmed
    BY <2>1, <2>4, ScriptRow
  <2>6. Paired(row)
    BY <2>4, <2>5 DEF Paired
  <2>7. CASE account[r.user].ver = r.row.ver
    <3>1. rewound' = IF Rewinds(r) THEN rewound \cup {account[r.user].secret} ELSE rewound
      BY <1>12, <2>7 DEF ScriptCommits
    <3>2. Written(r).last < account[r.user].last => Written(r).secret = 0 \/ Rewinds(r)
      BY <2>4 DEF Rewinds
    <3> HIDE DEF row, r
    <3>3. Turns(account[r.user], row)
      BY <2>1, <2>4, <2>5, <2>7, <3>1, <3>2, RowFacts DEF Turns
    <3> QED
      BY <1>2, <2>1, <2>2, <2>5, <2>6, <3>3
  <2>8. CASE account[r.user].ver # r.row.ver
    <3>1. InHand(r.user) \subseteq rewound'
      BY <1>12, <2>8 DEF ScriptCommits
    <3> HIDE DEF row, r
    <3>2. account'[r.user] = row
      BY <2>1, <2>2 DEF Types
    <3>3. Overwrites(r.user)
      BY <2>1, <2>4, <2>5, <3>1, <3>2 DEF Overwrites
    <3> QED
      BY <1>2, <2>1, <2>2, <2>6, <3>3
  <2> QED
    BY <2>7, <2>8
<1>13. CASE Restart
  <2>1. CASE UNCHANGED <<account, fresh>>
    BY <1>1, <2>1
  <2>2. CASE ~UNCHANGED <<account, fresh>>
    <3>1. PICK u \in User : account[u] = None /\ account' = [account EXCEPT ![u] = NewAccount("admin")]
      BY <1>13, <2>2 DEF Restart
    <3>2. fresh'.aid = fresh.aid + 1 /\ fresh.aid < MaxNumber /\ fresh.pw < MaxNumber
      BY <1>13, <2>2 DEF Restart, Types
    <3>3. request' = [w \in Worker |-> None]
      BY <1>13 DEF Restart
    <3> QED
      BY <1>10, <3>1, <3>2, <3>3
  <2> QED
    BY <2>1, <2>2
<1>14. ASSUME NEW w \in Worker,
              \/ \E ip \in Ip, u \in User : LoginChecks(w, ip, u)
              \/ \E c \in Counter \cup {0} : LoginVerifies(w, c)
              \/ LoginFails(w) \/ LoginIssues(w) \/ Abandon(w)
       PROVE  Stepped
  BY <1>1, <1>14 DEF LoginChecks, LoginVerifies, LoginFails, LoginIssues, Abandon
<1>15. ASSUME NEW w \in Worker, NEW t \in session,
              Own(w, t) \/ \E u \in User : Manage(w, t, u)
       PROVE  Stepped
  BY <1>1, <1>15
  DEF Own, SetupReads, LogoutReads, PasswordReads, ConfirmReads, DisableReads, Manage,
      UpdateReads, ResetReads, DeleteReads, Reads
<1>16. CASE \/ UNCHANGED vars \/ TimePasses \/ \E t \in session : Expire(t)
            \/ \E w \in Worker, u \in User : ScriptReads(w, u)
  BY <1>1, <1>16 DEF vars, accountVars, TimePasses, Expire, ScriptReads, Reads
<1> QED
  BY <1>3, <1>4, <1>5, <1>6, <1>7, <1>8, <1>9, <1>11, <1>12, <1>13, <1>14, <1>15, <1>16
  DEF Next, Login, Commits

LEMMA UsesCodes ==
    ASSUME Types, Shapes, AllPaired, [Next]_vars
    PROVE  /\ fresh'.secret \in {fresh.secret, fresh.secret + 1}
           /\ rewound \subseteq rewound'
           /\ UNCHANGED uses \/ \E w \in Worker : Accepts(w)
<1> DEFINE Goal == /\ fresh'.secret \in {fresh.secret, fresh.secret + 1}
                   /\ rewound \subseteq rewound'
                   /\ UNCHANGED uses \/ \E w \in Worker : Accepts(w)
<1> SUFFICES Goal
  OBVIOUS
<1> USE CounterAssumption, NoneAssumption
<1>1. ASSUME UNCHANGED codes, fresh'.secret \in {fresh.secret, fresh.secret + 1} PROVE Goal
  BY <1>1 DEF codes
<1>2. ASSUME NEW w \in Worker, Answered(w)
      PROVE  \A v \in Worker : request'[v] \in {None, request[v]}
  BY <1>2 DEF Answered, Types
<1>3. ASSUME NEW w \in Worker, LoginConsumes(w) PROVE Goal
  <2> DEFINE r == request[w]
  <2>1. CASE Unchanged(r)
    <3>1. /\ account[r.user] \in Account /\ r.user \in User /\ r.row \in Account /\ Carries(r)
          /\ r.code \in Counter \cup {0}
          /\ Paired(r.row) /\ r.code # 0 /\ r.row # None /\ r # None /\ r.op = "login"
          /\ account[r.user].ver = r.row.ver /\ account[r.user].last = r.row.last
      BY <1>3, <2>1, CommitCodes DEF LoginConsumes, Doing, Unchanged
    <3>2. account' = [account EXCEPT ![r.user] = [account[r.user] EXCEPT !.last = r.code]]
      BY <1>3, <2>1 DEF LoginConsumes
    <3>3. account'[r.user].ver = account[r.user].ver /\ account'[r.user].last = r.code
      BY <3>1, <3>2 DEF Types, Account
    <3>4. r.row.last # 0
      BY <3>1 DEF Carries, Paired
    <3>5. account'[r.user] # None
      <4>1. [account[r.user] EXCEPT !.last = r.code] \in Account
        BY <3>1 DEF Account
      <4> QED
        BY <3>1, <3>2, <4>1 DEF Types
    <3>6. /\ uses' = [uses EXCEPT ![<<r.row.secret, r.code>>] = @ + 1] /\ UNCHANGED rewound
          /\ fresh' = fresh /\ Answered(w)
      BY <1>3, <2>1 DEF LoginConsumes, Accept
    <3> QED
      BY <1>2, <3>1, <3>3, <3>4, <3>5, <3>6 DEF Accepts
  <2> QED
    BY <1>1, <1>3, <2>1 DEF LoginConsumes, codes
<1>4. ASSUME NEW w \in Worker, FactorCommits(w) PROVE Goal
  <2> DEFINE r   == request[w]
             row == [account[r.user] EXCEPT !.confirmed = r.new.confirmed, !.last = r.new.last,
                        !.secret = IF r.op = "disable" THEN 0 ELSE @]
  <2>1. /\ account[r.user] \in Account /\ r.user \in User /\ r.new \in Account
        /\ Carries(r) /\ r.row \in Account /\ account[r.user].ver < MaxVersion
        /\ r.op \in {"confirm", "disable"} /\ r # None
        /\ account[r.user].last = r.row.last /\ account[r.user].ver = r.row.ver
    BY <1>4, CommitCodes DEF FactorCommits, Doing, Unchanged
  <2>2. row \in Account
    BY <2>1, RowTypes, ZenonT(60) DEF Account
  <2>3. /\ row.ver = account[r.user].ver /\ row.last = r.new.last
        /\ r.op = "disable" => row.secret = 0
    BY <2>1, <2>2 DEF Account
  <2>4. account' = [account EXCEPT ![r.user] = Revoked(row)]
    BY <1>4 DEF FactorCommits
  <2>5. /\ uses' = [uses EXCEPT ![<<r.row.secret, r.code>>] = @ + 1] /\ UNCHANGED rewound
        /\ fresh' = fresh /\ Answered(w)
    BY <1>4 DEF FactorCommits, Accept
  <2> HIDE DEF row
  <2>6. account'[r.user] = Revoked(row) /\ Revoked(row) \in Account
    BY <2>1, <2>2, <2>3, <2>4, RowTypes DEF Types
  <2>7. r.code # 0 /\ (r.op = "confirm" => r.new.last = r.code)
    BY <2>1 DEF Carries
  <2>8. /\ account'[r.user].ver = account[r.user].ver + 1
        /\ account'[r.user].last = r.code \/ account'[r.user].secret = 0
    BY <2>1, <2>2, <2>3, <2>6, <2>7, RevokedFacts
  <2> QED
    BY <1>2, <2>1, <2>5, <2>6, <2>7, <2>8 DEF Accepts
<1>5. ASSUME NEW w \in Worker,
             SetupCommits(w) \/ LogoutCommits(w) \/ PasswordCommits(w) \/ DeleteCommits(w)
      PROVE  Goal
  BY <1>1, <1>5 DEF SetupCommits, LogoutCommits, PasswordCommits, DeleteCommits, Types, codes
<1>6. ASSUME NEW w \in Worker, UserCommits(w) \/ ScriptCommits(w) PROVE Goal
  BY <1>6 DEF UserCommits, ScriptCommits, Types
<1>7. ASSUME NEW t \in session, NEW u \in User, NEW role \in {"admin", "viewer"},
             CreateUser(t, u, role)
      PROVE  Goal
  BY <1>1, <1>7 DEF CreateUser, Types
<1>8. CASE Restart
  BY <1>1, <1>8 DEF Restart, Types
<1>9. ASSUME NEW w \in Worker,
             \/ \E ip \in Ip, u \in User : LoginChecks(w, ip, u)
             \/ \E c \in Counter \cup {0} : LoginVerifies(w, c)
             \/ LoginFails(w) \/ LoginIssues(w) \/ Abandon(w)
      PROVE  Goal
  BY <1>1, <1>9 DEF LoginChecks, LoginVerifies, LoginFails, LoginIssues, Abandon
<1>10. ASSUME NEW w \in Worker, NEW t \in session,
              Own(w, t) \/ \E u \in User : Manage(w, t, u)
       PROVE  Goal
  BY <1>1, <1>10
  DEF Own, SetupReads, LogoutReads, PasswordReads, ConfirmReads, DisableReads, Manage,
      UpdateReads, ResetReads, DeleteReads, Reads
<1>11. CASE \/ UNCHANGED vars \/ TimePasses \/ \E t \in session : Expire(t)
            \/ \E w \in Worker, u \in User : ScriptReads(w, u)
  BY <1>1, <1>11 DEF vars, accountVars, TimePasses, Expire, ScriptReads, Reads
<1> HIDE DEF Goal
<1> QED
  BY <1>3, <1>4, <1>5, <1>6, <1>7, <1>8, <1>9, <1>10, <1>11 DEF Next, Login, Commits

\* What a request is given fits the row it reads.
LEMMA CarriesStep ==
    ASSUME Types, Shapes, AllPaired, [Next]_vars, NEW w \in Worker, request'[w] # None
    PROVE  Carries(request'[w])
<1> USE CounterAssumption, NoneAssumption
<1>1. ASSUME request'[w] \in {None, request[w]} PROVE Carries(request'[w])
  BY <1>1 DEF AllPaired
<1>2. \A u \in User : account[u] # None => account[u] \in Account /\ Paired(account[u])
  BY DEF Types, AllPaired
<1>3. ASSUME NEW v \in Worker, NEW ip \in Ip, NEW u \in User, LoginChecks(v, ip, u)
      PROVE  Carries(request'[w])
  <2>1. CASE w = v
    <3>1. request'[w] = [op |-> "login", ip |-> ip, user |-> u, row |-> None, new |-> None,
                         code |-> 0, mfa |-> FALSE]
      BY <1>3, <2>1 DEF LoginChecks, Types
    <3> QED
      BY <3>1 DEF Carries
  <2> QED
    BY <1>1, <1>3, <2>1 DEF LoginChecks, Types
<1>4. ASSUME NEW v \in Worker, NEW c \in Counter \cup {0}, LoginVerifies(v, c)
      PROVE  Carries(request'[w])
  <2>1. CASE w = v
    <3> DEFINE row == account[request[v].user]
    <3>1. /\ request[v] \in Request /\ request[v].op = "login" /\ request[v].user \in User
          /\ row \in Account /\ Paired(row)
      BY <1>2, <1>4, CommitRow DEF LoginVerifies, Doing
    <3>2. (NeedsCode(row) /\ Verifies(row, c)) \/ c = 0
      BY <1>4 DEF LoginVerifies
    <3>3. request'[w].row = row /\ request'[w].code = c /\ request'[w].op = "login"
      BY <1>4, <2>1, <3>1 DEF LoginVerifies, Types, Request
    <3> HIDE DEF row
    <3> QED
      BY <3>1, <3>2, <3>3 DEF Carries, NeedsCode, Enrolled, Verifies
  <2> QED
    BY <1>1, <1>4, <2>1 DEF LoginVerifies, Types
\* Every other request reads its row and knows what it will write.
<1>5. ASSUME NEW v \in Worker, NEW u \in User, NEW op, NEW new, NEW code, NEW mfa,
             Reads(v, op, u, new, code, mfa)
      PROVE  \/ request'[w] = request[w]
             \/ /\ request'[w].op = op /\ request'[w].row = account[u]
                /\ request'[w].new = new /\ request'[w].code = code
  BY <1>5 DEF Reads, Types
<1>6. ASSUME NEW v \in Worker, NEW t \in session, Own(v, t) PROVE Carries(request'[w])
  <2>1. t.user \in User
    BY DEF Types, Session
  <2>2. CASE SetupReads(v, t) \/ LogoutReads(v, t) \/ PasswordReads(v, t)
    <3>1. PICK op \in {"setup", "logout", "password"} : Reads(v, op, t.user, None, 0, t.mfa)
      BY <2>2 DEF SetupReads, LogoutReads, PasswordReads
    <3>2. account[t.user] # None
      BY <2>2 DEF SetupReads, LogoutReads, PasswordReads, Accepted
    <3> QED
      BY <1>1, <1>2, <1>5, <2>1, <3>1, <3>2 DEF Carries
  <2>3. ASSUME NEW c \in Counter, ConfirmReads(v, t, c) PROVE Carries(request'[w])
    <3> DEFINE new == [account[t.user] EXCEPT !.confirmed = TRUE, !.last = c]
               op == "confirm"
               mfa == TRUE
    <3>1. /\ account[t.user] # None /\ account[t.user] \in Account
          /\ account[t.user].secret # 0 /\ c > account[t.user].last /\ c # 0
          /\ Reads(v, op, t.user, new, c, mfa)
      BY <1>2, <2>1, <2>3 DEF ConfirmReads, Accepted, Verifies
    <3>2. new.confirmed /\ new.last = c /\ op = "confirm"
      BY <3>1 DEF Account
    <3> HIDE DEF new, op, mfa
    <3> QED
      BY <1>1, <1>2, <1>5, <2>1, <3>1, <3>2 DEF Carries
  <2>4. ASSUME NEW c \in Counter, DisableReads(v, t, c) PROVE Carries(request'[w])
    <3> DEFINE new == [account[t.user] EXCEPT !.secret = 0, !.confirmed = FALSE, !.last = 0]
               op == "disable"
               mfa == FALSE
    <3>1. /\ account[t.user] # None /\ account[t.user] \in Account
          /\ account[t.user].secret # 0 /\ c > account[t.user].last /\ c # 0
          /\ Reads(v, op, t.user, new, c, mfa)
      BY <1>2, <2>1, <2>4 DEF DisableReads, Accepted, Verifies, Enrolled
    <3>2. new.secret = 0 /\ ~new.confirmed /\ new.last = 0 /\ op = "disable"
      BY <3>1 DEF Account
    <3> HIDE DEF new, op, mfa
    <3> QED
      BY <1>1, <1>2, <1>5, <2>1, <3>1, <3>2 DEF Carries
  <2> QED
    BY <1>6, <2>2, <2>3, <2>4 DEF Own
<1>7. ASSUME NEW v \in Worker, NEW t \in session, NEW u \in User, Manage(v, t, u)
      PROVE  Carries(request'[w])
  <2>1. account[u] # None /\ account[u] \in Account
    BY <1>2, <1>7 DEF Manage, UpdateReads, ResetReads, DeleteReads
  <2>2. CASE DeleteReads(v, t, u)
    BY <1>1, <1>2, <1>5, <2>1, <2>2 DEF DeleteReads, Carries
  <2>3. CASE ResetReads(v, t, u)
    <3> DEFINE new == [account[u] EXCEPT !.secret = 0, !.confirmed = FALSE, !.last = 0]
    <3>1. Reads(v, "reset", u, new, 0, t.mfa)
      BY <2>3 DEF ResetReads
    <3>2. new.secret = 0 /\ ~new.confirmed /\ new.last = 0
      BY <2>1 DEF Account
    <3> HIDE DEF new
    <3> QED
      BY <1>1, <1>2, <1>5, <2>1, <3>1, <3>2 DEF Carries
  <2>4. CASE UpdateReads(v, t, u)
    <3>1. PICK new \in Updates(account[u]) : Reads(v, "update", u, new, 0, t.mfa)
      BY <2>4 DEF UpdateReads
    <3>2. /\ new.secret = account[u].secret /\ new.last = account[u].last
          /\ new.confirmed = account[u].confirmed
      BY <2>1, <3>1, UpdatesFacts
    <3> QED
      BY <1>1, <1>2, <1>5, <2>1, <3>1, <3>2 DEF Carries
  <2> QED
    BY <1>7, <2>2, <2>3, <2>4 DEF Manage
<1>8. ASSUME NEW v \in Worker, Answered(v) PROVE Carries(request'[w])
  BY <1>1, <1>8, SMTT(40) DEF Answered, Types
<1>9. ASSUME NEW v \in Worker,
             LoginFails(v) \/ LoginIssues(v) \/ LoginConsumes(v) \/ Abandon(v) \/ Commits(v)
      PROVE  Answered(v)
  BY <1>9 DEF LoginFails, LoginIssues, LoginConsumes, Abandon, Commits, SetupCommits,
     FactorCommits, LogoutCommits, PasswordCommits, UserCommits, DeleteCommits, ScriptCommits
<1>10. ASSUME \/ UNCHANGED vars \/ Restart \/ TimePasses
              \/ \E t \in session : Expire(t)
              \/ \E t \in session, u \in User, role \in {"admin", "viewer"} : CreateUser(t, u, role)
       PROVE  Carries(request'[w])
  BY <1>1, <1>10 DEF vars, accountVars, Restart, TimePasses, Expire, CreateUser
<1>11. ASSUME NEW v \in Worker, NEW u \in User, ScriptReads(v, u) PROVE Carries(request'[w])
  <2> DEFINE new == [account[u] EXCEPT !.secret = 0, !.confirmed = FALSE, !.last = 0]
             op  == "script"
             mfa == FALSE
  <2>1. account[u] # None /\ account[u] \in Account /\ Reads(v, op, u, new, 0, mfa)
    BY <1>2, <1>11 DEF ScriptReads
  <2>2. new.secret = 0 /\ ~new.confirmed /\ new.last = 0 /\ op = "script"
    BY <2>1 DEF Account
  <2> HIDE DEF new, op, mfa
  <2> QED
    BY <1>1, <1>2, <1>5, <2>1, <2>2 DEF Carries
<1> QED
  BY <1>3, <1>4, <1>6, <1>7, <1>8, <1>9, <1>10, <1>11 DEF Next, Login

\* A secret is kept, or it is the one a set-up has just made.
LEMMA SecretsStep ==
    ASSUME Types, Shapes, AllPaired, SecretsOwned, [Next]_vars,
           NEW u \in User, NEW s \in Number \ {0}, Has(u, s)'
    PROVE  \/ Has(u, s)
           \/ /\ s = fresh.secret + 1 /\ fresh'.secret = s
              /\ account'[u] # account[u]
<1> USE NoneAssumption
<1>1. CASE account'[u] # None /\ account'[u].secret = s
  <2>1. CASE account'[u] = account[u]
    BY <1>1, <2>1 DEF Has
  <2>2. CASE account[u] \in Account /\ Turns(account[u], account'[u]) /\ account'[u] # account[u]
    BY <1>1, <2>2 DEF Has, Turns
  <2>3. CASE Overwrites(u)
    BY <1>1, <2>3 DEF Has, Overwrites
  <2> QED
    BY <1>1, <2>1, <2>2, <2>3, AccountCodes DEF Stepped, Born
<1>2. ASSUME NEW w \in Worker, request'[w] # None, request'[w].row # None,
             request'[w].user = u, request'[w].row.secret = s
      PROVE  Has(u, s)
  BY <1>2, RequestStep DEF Has
<1> QED
  BY <1>1, <1>2 DEF Has

LEMMA OwnedNext ==
    ASSUME Types, Shapes, Types', AllPaired, SecretsOwned, [Next]_vars
    PROVE  SecretsOwned'
<1>1. /\ fresh.secret \in Nat /\ fresh'.secret \in Nat /\ fresh.secret <= fresh'.secret
      /\ \A s \in Number : s \in Nat
  BY UsesCodes DEF Types, Number
<1>2. ASSUME NEW u \in User, NEW s \in Number \ {0}, Has(u, s)' PROVE s <= fresh'.secret
  BY <1>1, <1>2, SecretsStep DEF SecretsOwned
<1>3. ASSUME NEW u \in User, NEW v \in User, NEW s \in Number \ {0}, Has(u, s)', Has(v, s)'
      PROVE  u = v
  <2>1. CASE Has(u, s) /\ Has(v, s)
    BY <2>1 DEF SecretsOwned
  <2>2. CASE ~Has(u, s)
    <3>1. s = fresh.secret + 1 /\ account'[u] # account[u]
      BY <1>3, <2>2, SecretsStep
    <3>2. ~Has(v, s)
      BY <1>1, <3>1 DEF SecretsOwned
    <3> QED
      BY <1>3, <3>1, <3>2, SecretsStep, AccountCodes DEF Stepped
  <2>3. CASE ~Has(v, s)
    <3>1. s = fresh.secret + 1 /\ account'[v] # account[v]
      BY <1>3, <2>3, SecretsStep
    <3>2. ~Has(u, s)
      BY <1>1, <3>1 DEF SecretsOwned
    <3> QED
      BY <1>3, <3>1, <3>2, SecretsStep, AccountCodes DEF Stepped
  <2> QED
    BY <2>1, <2>2, <2>3
<1>4. ASSUME NEW s \in Number, NEW c \in Counter, uses'[<<s, c>>] > 0 PROVE s <= fresh'.secret
  <2>1. CASE uses[<<s, c>>] > 0
    BY <1>1, <2>1 DEF SecretsOwned
  <2>2. CASE ~(uses[<<s, c>>] > 0)
    <3>1. PICK w \in Worker : Accepts(w)
      BY <1>4, <2>2, UsesCodes
    <3>2. s = request[w].row.secret
      BY <1>4, <2>2, <3>1 DEF Accepts
    <3>3. Has(request[w].user, s) /\ request[w].user \in User
      BY <3>1, <3>2 DEF Accepts, Has, Types, Request
    <3> QED
      BY <1>1, <3>3 DEF SecretsOwned
  <2> QED
    BY <2>1, <2>2
<1> QED
  BY <1>2, <1>3, <1>4 DEF SecretsOwned

\* A code that is accepted is one its holder has read a row for; nobody else
\* has that secret.
LEMMA AcceptedCode ==
    ASSUME Types, Shapes, CodeInv, [Next]_vars, NEW s \in Number, NEW c \in Counter,
           uses'[<<s, c>>] # uses[<<s, c>>], s \notin rewound
    PROVE  \E w \in Worker : /\ Accepts(w) /\ s = request[w].row.secret /\ c = request[w].code
                             /\ request[w].user \in User /\ s # 0 /\ c > request[w].row.last
                             /\ Holds(w) /\ uses'[<<s, c>>] = uses[<<s, c>>] + 1
                             /\ \A u \in User : Has(u, s)' => u = request[w].user
<1>1. PICK w \in Worker : Accepts(w)
  BY UsesCodes DEF CodeInv
<1>2. s = request[w].row.secret /\ c = request[w].code
  BY <1>1 DEF Accepts, CodeInv, CodesType
<1>3. /\ request[w] # None /\ request[w].row # None /\ request[w].code # 0
      /\ account[request[w].user] # None /\ Holds(w)
  BY <1>1, <1>2 DEF Accepts, Holds
<1>4. request[w].user \in User /\ s # 0 /\ c > request[w].row.last
  BY <1>2, <1>3, CommitCodes DEF CodeInv, Carries
<1>5. uses'[<<s, c>>] = uses[<<s, c>>] + 1
  BY <1>1, <1>2 DEF Accepts, CodeInv, CodesType
<1>6. Has(request[w].user, s) /\ s \in Nat /\ fresh.secret \in Nat
  BY <1>2, <1>3 DEF Has, Types, Number
<1>7. ASSUME NEW u \in User, Has(u, s)' PROVE u = request[w].user
  <2>1. s <= fresh.secret
    BY <1>4, <1>6 DEF CodeInv, SecretsOwned
  <2>2. Has(u, s)
    BY <1>4, <1>6, <1>7, <2>1, SecretsStep DEF CodeInv
  <2> QED
    BY <1>4, <1>6, <2>2 DEF CodeInv, SecretsOwned
<1> QED
  BY <1>1, <1>2, <1>3, <1>4, <1>5, <1>7

\* A request that holds a code has read the present row, or held it before,
\* and then nothing has raised the version.
LEMMA HoldsStep ==
    ASSUME Inv, CodeInv, [Next]_vars, NEW w \in Worker, Holds(w)'
    PROVE  LET r   == request'[w]
               old == account[r.user]
               row == account'[r.user]
           IN  /\ r \in Request /\ r.user \in User /\ r.row \in Account /\ Carries(r)
               /\ row \in Account /\ old \in Account
               /\ \/ UNCHANGED <<account, uses>> /\ r.row = row
                  \/ /\ r = request[w] /\ Holds(w) /\ row.ver = old.ver
                     /\ Has(r.user, r.row.secret)
                     /\ \/ row.secret = old.secret /\ row.last = old.last
                        \/ row.secret = old.secret /\ old.last # 0 /\ row.last > old.last
                        \/ row.secret = fresh.secret + 1 /\ row.last \in {old.last, 0}
<1> DEFINE r   == request'[w]
           old == account[r.user]
           row == account'[r.user]
<1>1. Types /\ Shapes /\ Types' /\ AllPaired /\ SecretsOwned
  BY TypesNext DEF Inv, CodeInv
<1>2. /\ r # None /\ r.row # None /\ row # None /\ row.ver = r.row.ver
      /\ r \in Request /\ r.user \in User /\ r.row \in Account /\ row \in Account /\ Carries(r)
  BY <1>1, CarriesStep DEF Holds, Types, Request
<1>3. CASE r = request[w]
  <2>1. ~Born(r.user)
    BY <1>2 DEF Born, Created
  <2>5. r.row.secret \notin rewound' /\ r.row.secret \notin rewound
    BY HistoryStep DEF Holds
  <2>6. ~Overwrites(r.user)
    BY <1>2, <1>3, <2>5 DEF Overwrites, InHand
  <2>2. old \in Account /\ Turns(old, row)
    BY <1>1, <1>2, <2>1, <2>6, AccountCodes DEF Stepped
  <2>3. r.row.ver <= old.ver /\ old.ver \in Nat /\ r.row.ver \in Nat
    BY <1>2, <1>3, <2>2, <2>5, RowFacts, NoneAssumption DEF CodeInv, NoneAhead
  <2>4. row.ver = old.ver /\ Holds(w) /\ Has(r.user, r.row.secret)
    BY <1>2, <1>3, <2>2, <2>3, <2>5, NoneAssumption DEF Turns, Holds, Has
  <2> QED
    BY <1>2, <1>3, <2>2, <2>3, <2>4 DEF Turns
<1>4. CASE r # request[w]
  <2>1. UNCHANGED account /\ r.row = row
    BY <1>1, <1>2, <1>4, RequestStep
  <2>2. UNCHANGED uses
    BY <1>1, <1>2, <1>4, UsesCodes DEF Accepts
  <2>3. old \in Account
    BY <1>2, <2>1
  <2> QED
    BY <1>2, <2>1, <2>2, <2>3
<1> QED
  BY <1>3, <1>4

LEMMA SpentStep ==
    ASSUME Types, Shapes, CodeInv, [Next]_vars, NEW s \in Number, NEW c \in Counter,
           Spent(s, c)', uses'[<<s, c>>] = uses[<<s, c>>]
    PROVE  Spent(s, c)
  BY UsesCodes DEF Spent, CodeInv

LEMMA CodeNext == Inv /\ CodeInv /\ [Next]_vars => CodeInv'
<1> SUFFICES ASSUME Inv, CodeInv, [Next]_vars PROVE CodeInv'
  OBVIOUS
<1> USE NoneAssumption
<1>1. /\ Types /\ Shapes /\ Types' /\ AllPaired /\ SecretsOwned /\ CodesType
      /\ SpentBehind /\ SpentMissed /\ SameStage /\ CodeUsedOnce /\ NoneAhead
  BY TypesNext DEF Inv, CodeInv
<1>2. /\ \A c \in Counter : c \in Nat
      /\ fresh.secret \in Nat /\ \A s \in Number : s \in Nat
      /\ \A s \in Number, c \in Counter : uses[<<s, c>>] \in Nat
      /\ rewound \subseteq rewound'
  BY <1>1, CounterAssumption, UsesCodes DEF Types, CodesType, Number
<1>3. AllPaired'
  BY <1>1, AccountCodes, CarriesStep DEF AllPaired, Stepped
<1>4. SecretsOwned'
  BY <1>1, OwnedNext
<1>5. CodesType'
  <2>1. uses' \in [Number \X Counter -> Nat]
    <3>1. ASSUME NEW w \in Worker, Accepts(w) PROVE uses' \in [Number \X Counter -> Nat]
      <4> DEFINE k == <<request[w].row.secret, request[w].code>>
      <4>1. uses' = [uses EXCEPT ![k] = @ + 1]
        BY <3>1 DEF Accepts
      <4> HIDE DEF k
      <4>2. ASSUME NEW S, uses \in [S -> Nat] PROVE uses' \in [S -> Nat]
        <5>1. uses' = [x \in S |-> IF x = k THEN uses[x] + 1 ELSE uses[x]]
          BY <4>1, <4>2
        <5>2. \A x \in S : uses[x] \in Nat /\ uses[x] + 1 \in Nat
          BY <4>2
        <5> QED
          BY <5>1, <5>2
      <4> QED
        BY <1>1, <4>2 DEF CodesType
    <3> QED
      BY <1>1, <3>1, UsesCodes DEF CodesType
  <2>2. rewound' \subseteq Number /\ overwritten' \subseteq Number
    <3>1. ASSUME NEW w \in Worker, UserCommits(w) \/ ScriptCommits(w)
          PROVE  rewound' \subseteq Number /\ overwritten' \subseteq Number
      <4>1. /\ account[request[w].user].secret \in Number
            /\ account[request[w].user].aid \in Number
        BY <1>1, <3>1, CommitRow, RowFacts, RowTypes DEF UserCommits, ScriptCommits, Doing
      <4>2. InHand(request[w].user) \subseteq Number
        BY <1>1, <4>1, CommitRow, RowFacts DEF InHand
      <4> QED
        BY <1>1, <3>1, <4>1, <4>2, SMTT(40) DEF UserCommits, ScriptCommits, CodesType
    <3> QED
      BY <1>1, <3>1, HistoryStep DEF CodesType
  <2> QED
    BY <2>1, <2>2 DEF CodesType
<1>10. NoneAhead'
  <2> SUFFICES ASSUME NEW w \in Worker, request'[w] # None, request'[w].row # None,
                      account'[request'[w].user] # None,
                      request'[w].row.secret \notin rewound'
               PROVE  request'[w].row.ver <= account'[request'[w].user].ver
    BY DEF NoneAhead
  <2> DEFINE r == request'[w]
             u == r.user
  <2>1. r \in Request /\ u \in User /\ r.row \in Account /\ account'[u] \in Account
        /\ r.row.ver \in Nat /\ account'[u].ver \in Nat
    BY <1>1, RowFacts DEF Types, Request
  <2>2. CASE r = request[w]
    <3>1. r.row.secret \notin rewound
      BY <1>2
    <3>2. ~Born(u) /\ ~Overwrites(u)
      BY <2>1, <2>2 DEF Born, Created, Overwrites, InHand
    <3>3. account[u] \in Account /\ Turns(account[u], account'[u])
      BY <1>1, <2>1, <3>2, AccountCodes DEF Stepped
    <3>4. r.row.ver <= account[u].ver /\ account[u].ver \in Nat
      BY <1>1, <2>2, <3>1, <3>3, RowFacts DEF NoneAhead
    <3> QED
      BY <2>1, <3>3, <3>4 DEF Turns
  <2>3. CASE r # request[w]
    BY <1>1, <2>1, <2>3, RequestStep
  <2> QED
    BY <2>2, <2>3
<1>6. SpentBehind'
  <2> SUFFICES ASSUME NEW u \in User, NEW c \in Counter, NEW s \in Number \ {0},
                      account'[u] # None, account'[u].secret = s,
                      uses'[<<s, c>>] > 0, s \notin rewound'
               PROVE  c <= account'[u].last
    <3>1. \A u \in User : account'[u] # None => account'[u].secret \in Number
      BY <1>1, RowFacts DEF Types
    <3> QED
      BY <3>1 DEF SpentBehind, Spent
  <2>1. account'[u] \in Account /\ account'[u].last \in Nat /\ Has(u, s)' /\ Spent(s, c)'
    BY <1>1, RowFacts DEF Types, Has, Spent
  <2>2. CASE uses'[<<s, c>>] = uses[<<s, c>>]
    <3>1. Spent(s, c) /\ s <= fresh.secret
      BY <1>1, <2>1, <2>2, SpentStep DEF Spent, SecretsOwned
    <3>2. ~Overwrites(u)
      BY DEF Overwrites, InHand
    <3>3. account[u] \in Account /\ Turns(account[u], account'[u])
      BY <1>1, <3>2, AccountCodes DEF Stepped, Born
    <3>4. account[u].secret = s =>
             c <= account[u].last
      BY <1>1, <3>1, <3>3 DEF SpentBehind
    <3>5. account[u].last \in Nat /\ account[u].ver \in Nat
      BY <3>3, RowFacts
    <3>6. account[u].secret = s /\ account'[u].last >= account[u].last
      BY <1>2, <2>1, <3>1, <3>3, <3>5 DEF Turns
    <3> QED
      BY <1>2, <2>1, <3>4, <3>5, <3>6
  <2>3. CASE uses'[<<s, c>>] # uses[<<s, c>>]
    <3>1. PICK w \in Worker : /\ Accepts(w) /\ s = request[w].row.secret /\ c = request[w].code
                              /\ u = request[w].user
      <4>1. s \in Number /\ s \notin rewound /\ s # 0
        BY <1>2
      <4>2. PICK w \in Worker :
               /\ Accepts(w) /\ s = request[w].row.secret /\ c = request[w].code
               /\ request[w].user \in User /\ s # 0 /\ c > request[w].row.last
               /\ Holds(w) /\ uses'[<<s, c>>] = uses[<<s, c>>] + 1
               /\ \A v \in User : Has(v, s)' => v = request[w].user
        BY <1>1, <2>3, <4>1, AcceptedCode
      <4> QED
        BY <2>1, <4>2
    <3>2. account'[u].last = c
      BY <3>1 DEF Accepts
    <3> QED
      BY <1>2, <3>2
  <2> QED
    BY <2>2, <2>3
<1>7. SpentMissed'
  <2> SUFFICES ASSUME NEW w \in Worker, Holds(w)', NEW s, NEW c,
                      s = request'[w].row.secret, c = request'[w].code, Spent(s, c)'
               PROVE  /\ request'[w].row.last # 0
                      /\ \/ account'[request'[w].user].last >= request'[w].code
                         \/ account'[request'[w].user].last = 0
    BY DEF SpentMissed, Spent
  <2> DEFINE r   == request'[w]
             old == account[r.user]
             row == account'[r.user]
  <2>1. /\ r \in Request /\ r.user \in User /\ r.row \in Account /\ Carries(r)
        /\ row \in Account /\ old \in Account
        /\ \/ UNCHANGED <<account, uses>> /\ r.row = row
           \/ /\ r = request[w] /\ Holds(w) /\ row.ver = old.ver
              /\ Has(r.user, r.row.secret)
              /\ \/ row.secret = old.secret /\ row.last = old.last
                 \/ row.secret = old.secret /\ old.last # 0 /\ row.last > old.last
                 \/ row.secret = fresh.secret + 1 /\ row.last \in {old.last, 0}
    BY HoldsStep
  <2>2. /\ c \in Counter /\ s \in Number /\ s # 0 /\ c > r.row.last
        /\ old.last \in Nat /\ row.last \in Nat /\ r.row.last \in Nat /\ r.row # None
        /\ c \in Nat /\ old.ver \in Nat
    <3>1. r.code \in Counter \cup {0} /\ r.code # 0 /\ r.row # None
      BY <2>1 DEF Request, Holds
    <3> QED
      BY <1>2, <2>1, <3>1, RowFacts DEF Carries
  <2>3. CASE UNCHANGED <<account, uses>> /\ r.row = row
    <3>1. Spent(s, c)
      BY <1>1, <2>2, <2>3, SpentStep
    <3>2. old = row /\ old # None
      BY <2>1, <2>3
    <3>3. c <= old.last
      BY <1>1, <2>1, <2>2, <2>3, <3>1, <3>2 DEF SpentBehind
    <3> QED
      BY <2>2, <2>3, <3>2, <3>3
  <2>4. CASE /\ r = request[w] /\ Holds(w) /\ row.ver = old.ver
             /\ Has(r.user, r.row.secret)
             /\ \/ row.secret = old.secret /\ row.last = old.last
                \/ row.secret = old.secret /\ old.last # 0 /\ row.last > old.last
                \/ row.secret = fresh.secret + 1 /\ row.last \in {old.last, 0}
    <3>1. CASE uses'[<<s, c>>] = uses[<<s, c>>]
      <4>1. Spent(s, c)
        BY <1>1, <2>2, <3>1, SpentStep
      <4>2. r.row.last # 0 /\ (old.last >= c \/ old.last = 0)
        BY <1>1, <2>4, <4>1 DEF SpentMissed
      <4> QED
        BY <2>2, <2>4, <4>2
    <3>2. CASE uses'[<<s, c>>] # uses[<<s, c>>]
      <4>1. PICK u \in User : u = r.user /\ Has(u, s)'
        BY <2>1 DEF Has, Holds
      <4>2. PICK v \in Worker : /\ Accepts(v) /\ s = request[v].row.secret /\ c = request[v].code
                                /\ r.user = request[v].user /\ Holds(v)
        BY <1>1, <1>2, <2>1, <2>2, <3>2, <4>1, AcceptedCode DEF Spent
      <4>3. row.last = c /\ request[v].row.last # 0
        BY <2>1, <2>2, <2>4, <4>2 DEF Accepts
      <4>4. r.row.last # 0
        BY <1>1, <2>2, <2>4, <4>2, <4>3 DEF SameStage
      <4> QED
        BY <2>2, <4>3, <4>4
    <3> QED
      BY <3>1, <3>2
  <2> QED
    BY <2>1, <2>3, <2>4
<1>8. SameStage'
  <2>1. ASSUME NEW w \in Worker, Holds(w)',
               account'[request'[w].user].secret = request'[w].row.secret
        PROVE  account'[request'[w].user].last = 0 <=> request'[w].row.last = 0
    <3> DEFINE r   == request'[w]
               old == account[r.user]
               row == account'[r.user]
    <3>1. /\ r \in Request /\ r.user \in User /\ r.row \in Account /\ Carries(r)
          /\ row \in Account /\ old \in Account
          /\ \/ UNCHANGED <<account, uses>> /\ r.row = row
             \/ /\ r = request[w] /\ Holds(w) /\ row.ver = old.ver
                /\ Has(r.user, r.row.secret)
                /\ \/ row.secret = old.secret /\ row.last = old.last
                   \/ row.secret = old.secret /\ old.last # 0 /\ row.last > old.last
                   \/ row.secret = fresh.secret + 1 /\ row.last \in {old.last, 0}
      BY <2>1, HoldsStep
    <3>2. r.row.secret # 0 /\ r.row.secret \in Number /\ old.last \in Nat /\ row.last \in Nat
      BY <2>1, <3>1, RowFacts DEF Carries, Holds
    <3>3. Has(r.user, r.row.secret) => r.row.secret # fresh.secret + 1
      BY <1>1, <1>2, <3>1, <3>2 DEF SecretsOwned
    <3> QED
      BY <1>1, <2>1, <3>1, <3>2, <3>3 DEF SameStage
  <2>2. ASSUME NEW v \in Worker, NEW w \in Worker, Holds(v)', Holds(w)',
               request'[v].user = request'[w].user,
               request'[v].row.secret = request'[w].row.secret
        PROVE  request'[v].row.last = 0 <=> request'[w].row.last = 0
    <3>1. CASE /\ request'[v] = request[v] /\ Holds(v) /\ request'[w] = request[w] /\ Holds(w)
      BY <1>1, <2>2, <3>1 DEF SameStage
    <3>2. CASE request'[v].row = account'[request'[v].user]
      BY <2>1, <2>2, <3>2
    <3>3. CASE request'[w].row = account'[request'[w].user]
      BY <2>1, <2>2, <3>3
    <3>4. /\ \/ request'[v].row = account'[request'[v].user]
             \/ request'[v] = request[v] /\ Holds(v)
          /\ \/ request'[w].row = account'[request'[w].user]
             \/ request'[w] = request[w] /\ Holds(w)
      BY <2>2, HoldsStep
    <3> QED
      BY <3>1, <3>2, <3>3, <3>4
  <2> QED
    BY <2>1, <2>2 DEF SameStage
\* Whoever commits first moves the counter to the code; the other one finds it
\* moved.
<1>9. CodeUsedOnce'
  <2> SUFFICES ASSUME NEW s \in Number, NEW c \in Counter, s \notin rewound'
               PROVE  uses'[<<s, c>>] <= 1
    BY <1>5 DEF CodeUsedOnce, CodesType
  <2>1. uses[<<s, c>>] <= 1 /\ s \notin rewound
    BY <1>1, <1>2 DEF CodeUsedOnce, CodesType
  <2>2. CASE uses'[<<s, c>>] # uses[<<s, c>>]
    <3>1. PICK w \in Worker : /\ Accepts(w) /\ s = request[w].row.secret /\ c = request[w].code
                              /\ c > request[w].row.last /\ Holds(w)
                              /\ uses'[<<s, c>>] = uses[<<s, c>>] + 1
      BY <1>1, <2>1, <2>2, AcceptedCode
    <3>2. account[request[w].user].last = request[w].row.last
      BY <3>1 DEF Accepts
    <3>3. request[w].row.last \in Nat /\ c \in Nat
      BY <1>1, <1>2, <3>1, CommitRow, RowFacts DEF Holds
    <3>4. ~Spent(s, c)
      BY <1>1, <3>1, <3>2, <3>3 DEF SpentMissed
    <3> QED
      BY <1>2, <2>1, <3>1, <3>4 DEF Spent
  <2> QED
    BY <2>1, <2>2
<1> QED
  BY <1>3, <1>4, <1>5, <1>6, <1>7, <1>8, <1>9, <1>10 DEF CodeInv

LEMMA CodeInductive == Spec => []CodeInv
<1>1. Init => CodeInv
  <2> SUFFICES ASSUME Init PROVE CodeInv
    OBVIOUS
  <2>1. CodesType /\ CodeUsedOnce
    BY DEF Init, CodesType, CodeUsedOnce
  <2>2. /\ AllPaired /\ SecretsOwned /\ NoneAhead
        /\ SpentBehind /\ SpentMissed /\ SameStage
    BY DEF Init, AllPaired, SecretsOwned, NoneAhead, Has, SpentBehind, SpentMissed, SameStage,
       Holds
  <2> QED
    BY <2>1, <2>2 DEF CodeInv
<1> QED
  BY <1>1, CodeNext, Inductive, PTL DEF Spec

\* _commit_mfa_transition: for any number of requests at a time, of whatever
\* kind, a code of a secret is accepted once, save for a secret whose counter a
\* reset has set back, or which was in hand when the reset script overwrote a
\* version it had not read.
THEOREM CodeUsedOnceHolds == Spec => []CodeUsedOnce
<1>1. CodeInv => CodeUsedOnce
  BY DEF CodeInv
<1> QED
  BY <1>1, CodeInductive, PTL

-----------------------------------------------------------------------------
(* The limiter.  What it remembers of a key and what the key has failed    *)
(* since agree on every failure whose window outlives the key's lock.  So  *)
(* a key that is not locked has failed less often than its limit; while it *)
(* is locked no login starts, and each that had started fails once.        *)

Table(T, K) == DOMAIN T \subseteq K /\ T \in [DOMAIN T -> Counters(K)]

\* F, U: the failures and the lock kept of a key; m: what it has failed; n: its
\* logins under way.
Known(F, U, m, n, limit, now) ==
    /\ IsFiniteSet(F) /\ Cardinality(F) < limit
    /\ U <= now + Window
    /\ \A e \in Failure : e[1] + Window > U => (e \in m <=> e \in F /\ now - e[1] < Window)
    /\ U > now => Cardinality(m) + n < limit + Cardinality(Worker)

Sound(T, k, m, n, limit, now) ==
    /\ m \subseteq Failure /\ IsFiniteSet(m)
    /\ \A e \in m : e[1] <= now /\ now - e[1] < Window
    /\ k \notin DOMAIN T => m = {}
    /\ k \in DOMAIN T => Known(T[k].failures, T[k].until, m, n, limit, now)

\* The logins of a key that have passed the check.
Inflight(k) ==
    {w \in Worker : /\ request[w] # None /\ request[w].op = "login"
                    /\ k \in {request[w].ip, <<request[w].ip, request[w].user>>}}

Flights(k) == Cardinality(Inflight(k))

\* A login has an address.
Addressed == \A w \in Worker : request[w] # None /\ request[w].op = "login" => request[w].ip \in Ip

LimiterInv ==
    /\ LimiterTypeOK /\ Addressed
    /\ \A i \in Ip : Sound(byIp, i, missed[i], Flights(i), MaxFailuresIp, clock)
    /\ \A p \in Pair : Sound(byPair, p, missed[p], Flights(p), MaxFailuresPair, clock)

-----------------------------------------------------------------------------
(* Tables.                                                                 *)

LEMMA LimiterConstants ==
    /\ MaxFailuresPair \in Nat \ {0} /\ MaxFailuresIp \in Nat \ {0} /\ Window \in Nat \ {0}
    /\ MaxBuckets \in Nat \ {0} /\ MaxClock \in Nat /\ Ip \cap Pair = {}
  BY LimiterAssumption

LEMMA TickFacts ==
    /\ \A t \in Tick : t \in Nat
    /\ \A e \in Failure : e[1] \in Nat /\ e[1] \in Tick /\ e[2] \in Nat /\ e = <<e[1], e[2]>>
  BY LimiterConstants DEF Tick, Failure

LEMMA WithoutEntry ==
    ASSUME NEW K, NEW T, Table(T, K), NEW D, NEW k \in (DOMAIN T) \ D
    PROVE  /\ Without(T, D)[k] \in Counters(K)
           /\ Without(T, D)[k].failures = T[k].failures
           /\ Without(T, D)[k].until = T[k].until
<1>1. T[k] \in Counters(K)
  BY DEF Table
<1>2. ASSUME NEW c \in Counters(K)
      PROVE  LET d == [c EXCEPT !.older = @ \ D]
             IN  d \in Counters(K) /\ d.failures = c.failures /\ d.until = c.until
  BY DEF Counters
<1> QED
  BY <1>1, <1>2 DEF Without

LEMMA WithoutTable ==
    ASSUME NEW K, NEW T, Table(T, K), NEW D
    PROVE  Table(Without(T, D), K) /\ DOMAIN Without(T, D) = (DOMAIN T) \ D
<1>1. DOMAIN Without(T, D) = (DOMAIN T) \ D
  BY DEF Without
<1>2. \A k \in (DOMAIN T) \ D : Without(T, D)[k] \in Counters(K)
  BY WithoutEntry
<1>3. Without(T, D) = [k \in (DOMAIN T) \ D |-> Without(T, D)[k]]
  BY DEF Without
<1> QED
  BY <1>1, <1>2, <1>3 DEF Table

LEMMA FailedFacts ==
    ASSUME clock \in Tick, NEW S \in SUBSET Failure, IsFiniteSet(S)
    PROVE  /\ Failed(S) \in SUBSET Failure /\ IsFiniteSet(Failed(S))
           /\ Cardinality(Failed(S)) \in Nat /\ Cardinality(S) \in Nat
           /\ Cardinality(Failed(S)) <= Cardinality(S) + 1
           /\ Cardinality({e \in S : e[1] = clock}) \in Nat
<1> DEFINE n == Cardinality({e \in S : e[1] = clock})
<1>1. n \in Nat /\ Cardinality(S) \in Nat
  <2>1. {e \in S : e[1] = clock} \in SUBSET S
    OBVIOUS
  <2> QED
    BY <2>1, FS_Subset, FS_CardinalityType
<1>2. IsFiniteSet(Recent(S)) /\ Cardinality(Recent(S)) <= Cardinality(S)
      /\ Cardinality(Recent(S)) \in Nat /\ Recent(S) \subseteq S
  <2>1. Recent(S) \in SUBSET S
    BY DEF Recent
  <2> QED
    BY <2>1, FS_Subset, FS_CardinalityType
<1>3. Failed(S) = Recent(S) \cup {<<clock, n + 1>>} /\ <<clock, n + 1>> \in Failure
  BY <1>1 DEF Failed, Failure
<1> HIDE DEF n
<1>4. IsFiniteSet(Failed(S)) /\ Cardinality(Failed(S)) <= Cardinality(Recent(S)) + 1
  <2>1. PICK R, x : R = Recent(S) /\ Failed(S) = R \cup {x}
    BY <1>3
  <2>2. IsFiniteSet(R) /\ Cardinality(R) \in Nat /\ Cardinality(R) = Cardinality(Recent(S))
    BY <1>2, <2>1
  <2>3. /\ IsFiniteSet(R \cup {x})
        /\ Cardinality(R \cup {x}) = IF x \in R THEN Cardinality(R) ELSE Cardinality(R) + 1
    BY <2>2, FS_AddElement, Zenon
  <2> QED
    BY <2>1, <2>2, <2>3
<1>5. Cardinality(Failed(S)) \in Nat
  BY <1>4, FS_CardinalityType
<1> QED
  BY <1>1, <1>2, <1>3, <1>4, <1>5 DEF n

\* A failure: its key is counted and stays in the table; others go when the
\* table is full, or when they neither count nor lock any more.
LEMMA TableFails ==
    ASSUME clock \in Tick, NEW K, NEW T, Table(T, K), NEW key \in K, NEW limit \in Nat \ {0},
           \A k \in DOMAIN T : IsFiniteSet(T[k].failures),
           NEW B, B = Bounded(Counted(T, key, limit)), NEW S, S = Swept(B)
    PROVE  /\ Table(S, K) /\ (DOMAIN S) \subseteq DOMAIN B /\ DOMAIN B \subseteq (DOMAIN T) \cup {key}
           /\ key \in DOMAIN B
           /\ \A k \in (DOMAIN B) \ {key} :
                 B[k].failures = T[k].failures /\ B[k].until = T[k].until
           /\ LET old == CounterOf(T, key)
                  new == Failed(old.failures)
              IN  IF Cardinality(new) >= limit
                  THEN B[key].failures = {} /\ B[key].until = clock + Window
                  ELSE B[key].failures = new /\ B[key].until = old.until
           /\ \A k \in DOMAIN S : S[k].failures = B[k].failures /\ S[k].until = B[k].until
           /\ \A k \in (DOMAIN B) \ (DOMAIN S) : B[k].failures = {} /\ B[k].until <= clock
<1> DEFINE old  == CounterOf(T, key)
           new  == Failed(old.failures)
           full == Cardinality(new) >= limit
           c    == [failures |-> IF full THEN {} ELSE new,
                    until    |-> IF full THEN clock + Window ELSE old.until,
                    older    |-> (DOMAIN T) \ {key}]
           C    == Counted(T, key, limit)
<1>1. /\ old.failures \in SUBSET Failure /\ IsFiniteSet(old.failures) /\ old.until \in Nat
  <2>1. CASE key \in DOMAIN T
    BY <2>1 DEF Table, Counters, CounterOf
  <2>2. CASE key \notin DOMAIN T
    BY <2>2, FS_EmptySet DEF CounterOf
  <2> QED
    BY <2>1, <2>2
<1>2. new \in SUBSET Failure
  BY <1>1, FailedFacts
<1>3. c \in Counters(K)
  <2>1. clock + Window \in Nat
    BY TickFacts, LimiterConstants
  <2> HIDE DEF new, old, full
  <2> QED
    BY <1>1, <1>2, <2>1 DEF Counters, Table
<1>4. /\ DOMAIN C = (DOMAIN T) \cup {key} /\ C[key] = c
      /\ \A k \in (DOMAIN T) \ {key} : C[k] = [T[k] EXCEPT !.older = @ \ {key}]
  BY DEF Counted
<1> HIDE DEF C
<1>5. \A k \in (DOMAIN T) \ {key} : /\ C[k] \in Counters(K) /\ C[k].failures = T[k].failures
                                  /\ C[k].until = T[k].until
  <2>1. ASSUME NEW x \in Counters(K)
        PROVE  LET d == [x EXCEPT !.older = @ \ {key}]
               IN  d \in Counters(K) /\ d.failures = x.failures /\ d.until = x.until
    BY DEF Counters
  <2> QED
    BY <1>4, <2>1 DEF Table
<1>6. Table(C, K)
  <2> HIDE DEF c
  <2>1. C = [k \in DOMAIN C |-> C[k]]
    BY DEF C, Counted
  <2> QED
    BY <1>3, <1>4, <1>5, <2>1 DEF Table
<1>7. C[key].failures = c.failures /\ C[key].until = c.until /\ C[key].older = (DOMAIN T) \ {key}
  BY <1>4
<1>8. B = Bounded(C)
  BY DEF C
<1>9. /\ Table(B, K) /\ DOMAIN B \subseteq DOMAIN C /\ key \in DOMAIN B
      /\ \A k \in DOMAIN B : B[k].failures = C[k].failures /\ B[k].until = C[k].until
  <2>1. CASE Cardinality(DOMAIN C) > MaxBuckets
    <3>1. C[key].older # {}
      <4> SUFFICES ASSUME C[key].older = {} PROVE FALSE
        OBVIOUS
      <4>1. DOMAIN C = {key}
        BY <1>4, <1>7
      <4>2. Cardinality({key}) = 1
        BY FS_Singleton
      <4>3. Cardinality(DOMAIN C) = 1
        BY <4>1, <4>2
      <4> QED
        BY <2>1, <4>3, LimiterConstants
    <3>2. PICK D : D = {k \in DOMAIN C : C[k].older = {}} /\ B = Without(C, D)
      BY <1>8, <2>1 DEF Bounded
    <3>3. Table(Without(C, D), K) /\ DOMAIN Without(C, D) = (DOMAIN C) \ D
      BY <1>6, WithoutTable
    <3>4. \A k \in (DOMAIN C) \ D : /\ Without(C, D)[k].failures = C[k].failures
                                  /\ Without(C, D)[k].until = C[k].until
      BY <1>6, WithoutEntry
    <3> QED
      BY <1>4, <3>1, <3>2, <3>3, <3>4
  <2>2. CASE ~(Cardinality(DOMAIN C) > MaxBuckets)
    BY <1>4, <1>6, <1>8, <2>2 DEF Bounded
  <2> QED
    BY <2>1, <2>2
<1>10. /\ Table(S, K) /\ (DOMAIN S) \subseteq DOMAIN B
       /\ \A k \in DOMAIN S : S[k].failures = B[k].failures /\ S[k].until = B[k].until
       /\ \A k \in (DOMAIN B) \ (DOMAIN S) : B[k].failures = {} /\ B[k].until <= clock
  <2>1. PICK D : /\ D = {k \in DOMAIN B : B[k].failures = {} /\ B[k].until <= clock}
                 /\ S = Without(B, D)
    BY DEF Swept
  <2>2. Table(Without(B, D), K) /\ DOMAIN Without(B, D) = (DOMAIN B) \ D
    BY <1>9, WithoutTable
  <2>3. \A k \in (DOMAIN B) \ D : /\ Without(B, D)[k].failures = B[k].failures
                                /\ Without(B, D)[k].until = B[k].until
    BY <1>9, WithoutEntry
  <2> QED
    BY <2>1, <2>2, <2>3
<1>11. IF full THEN B[key].failures = {} /\ B[key].until = clock + Window
       ELSE B[key].failures = new /\ B[key].until = old.until
  BY <1>7, <1>9
<1> QED
  BY <1>4, <1>5, <1>9, <1>10, <1>11

-----------------------------------------------------------------------------
(* What is remembered of one key.                                          *)

LEMMA SoundKeeps ==
    ASSUME NEW T, NEW T2, NEW k, NEW m, NEW n \in Nat, NEW n2 \in Nat, NEW limit \in Nat,
           clock \in Tick, Sound(T, k, m, n, limit, clock),
           k \in DOMAIN T <=> k \in DOMAIN T2,
           k \in DOMAIN T => T2[k].failures = T[k].failures /\ T2[k].until = T[k].until,
           n2 <= n \/ ~Locked(T, k), k \in DOMAIN T => T[k].until \in Nat
    PROVE  Sound(T2, k, m, n2, limit, clock)
<1>1. Cardinality(m) \in Nat /\ Cardinality(Worker) \in Nat /\ clock \in Nat
  BY FS_CardinalityType, WorkerAssumption, TickFacts DEF Sound
<1>2. CASE k \notin DOMAIN T
  BY <1>2 DEF Sound
<1>3. CASE k \in DOMAIN T
  <2>1. Known(T[k].failures, T[k].until, m, n, limit, clock)
    BY <1>3 DEF Sound
  <2>2. T[k].until > clock => Cardinality(m) + n2 < limit + Cardinality(Worker)
    <3>1. CASE n2 <= n
      BY <1>1, <2>1, <3>1 DEF Known
    <3>2. CASE ~Locked(T, k)
      BY <1>1, <1>3, <3>2 DEF Locked
    <3> QED
      BY <1>3, <3>1, <3>2
  <2>3. Known(T[k].failures, T[k].until, m, n2, limit, clock)
    BY <2>1, <2>2 DEF Known
  <2> QED
    BY <1>3, <2>3 DEF Sound
<1> QED
  BY <1>2, <1>3

LEMMA SoundSwept ==
    ASSUME NEW T, NEW T2, NEW k, NEW m, NEW n, NEW n2, NEW limit, NEW now \in Tick,
           Sound(T, k, m, n, limit, now), k \in DOMAIN T, k \notin DOMAIN T2,
           T[k].failures = {}, T[k].until \in Nat, T[k].until <= now
    PROVE  Sound(T2, k, m, n2, limit, now)
<1>1. ASSUME NEW e \in m PROVE FALSE
  <2>1. e \in Failure /\ e[1] <= now /\ now - e[1] < Window
    BY <1>1 DEF Sound
  <2>2. e[1] + Window > T[k].until
    BY <2>1, TickFacts, LimiterConstants
  <2> QED
    BY <1>1, <2>1, <2>2 DEF Sound, Known
<1> QED
  BY <1>1 DEF Sound

LEMMA SoundCleared ==
    ASSUME NEW T, NEW k, NEW n, NEW limit, NEW now, k \notin DOMAIN T
    PROVE  Sound(T, k, {}, n, limit, now)
  BY FS_EmptySet DEF Sound

LEMMA SoundTicks ==
    ASSUME NEW T, NEW k, NEW m, NEW m2, NEW n \in Nat, NEW limit \in Nat, NEW now \in Tick,
           Sound(T, k, m, n, limit, now), m2 = {e \in m : now + 1 - e[1] < Window},
           k \in DOMAIN T => T[k].until \in Nat
    PROVE  Sound(T, k, m2, n, limit, now + 1)
<1> SUFFICES ASSUME NEW next, next = now + 1 PROVE Sound(T, k, m2, n, limit, next)
  OBVIOUS
<1>1. m2 \in SUBSET m /\ IsFiniteSet(m)
  BY DEF Sound
<1>2. /\ IsFiniteSet(m2) /\ Cardinality(m2) <= Cardinality(m)
      /\ Cardinality(m) \in Nat /\ Cardinality(m2) \in Nat /\ Cardinality(Worker) \in Nat
  BY <1>1, FS_Subset, FS_CardinalityType, WorkerAssumption
<1>3. now \in Nat /\ \A e \in Failure : e[1] \in Nat
  BY TickFacts
<1>4. m2 \subseteq Failure /\ \A e \in m2 : e[1] <= next /\ next - e[1] < Window
  BY <1>3 DEF Sound
<1>5. CASE k \notin DOMAIN T
  BY <1>2, <1>4, <1>5 DEF Sound
<1>6. CASE k \in DOMAIN T
  <2>1. Known(T[k].failures, T[k].until, m, n, limit, now)
    BY <1>6 DEF Sound
  <2>2. /\ T[k].until <= next + Window
        /\ T[k].until > next => Cardinality(m2) + n < limit + Cardinality(Worker)
    BY <1>2, <1>3, <1>6, <2>1, LimiterConstants DEF Known
  <2>3. \A e \in Failure : e[1] + Window > T[k].until =>
           (e \in m2 <=> e \in T[k].failures /\ next - e[1] < Window)
    BY <1>3, <2>1, LimiterConstants DEF Known
  <2>4. Known(T[k].failures, T[k].until, m2, n, limit, next)
    BY <2>1, <2>2, <2>3 DEF Known
  <2> QED
    BY <1>2, <1>4, <1>6, <2>4 DEF Sound
<1> QED
  BY <1>5, <1>6

\* The failure a key has is the one its counter gets, unless no window
\* outlives the lock; one login less is under way.
LEMMA KnownFails ==
    ASSUME clock \in Tick, NEW F \in SUBSET Failure, NEW U \in Nat, NEW m \in SUBSET Failure,
           IsFiniteSet(m), \A e \in m : e[1] <= clock /\ clock - e[1] < Window,
           NEW n \in Nat, NEW n2 \in Nat, n2 < n, n <= Cardinality(Worker),
           NEW limit \in Nat \ {0}, Known(F, U, m, n, limit, clock),
           NEW full \in BOOLEAN, full <=> Cardinality(Failed(F)) >= limit
    PROVE  Known(IF full THEN {} ELSE Failed(F), IF full THEN clock + Window ELSE U,
                 Failed(m), n2, limit, clock)
<1>1. /\ clock \in Nat /\ Cardinality(Worker) \in Nat /\ Window \in Nat /\ Window > 0
      /\ \A e \in Failure : e[1] \in Nat
  BY FS_CardinalityType, WorkerAssumption, TickFacts, LimiterConstants
<1>2. /\ Failed(F) \in SUBSET Failure /\ IsFiniteSet(Failed(F)) /\ Cardinality(Failed(F)) \in Nat
      /\ Cardinality(F) \in Nat /\ IsFiniteSet(F)
  BY FailedFacts DEF Known
<1>3. /\ Failed(m) \in SUBSET Failure /\ IsFiniteSet(Failed(m)) /\ Cardinality(Failed(m)) \in Nat
      /\ Cardinality(m) \in Nat /\ Cardinality(Failed(m)) <= Cardinality(m) + 1
  BY FailedFacts
\* The failures that matter are the same.
<1>4. \A e \in Failure : e[1] + Window > U => (e \in m <=> e \in Recent(F))
  BY DEF Known, Recent
<1>5. \A e \in Failure : e[1] + Window > U => (e \in Failed(m) <=> e \in Failed(F))
  <2> SUFFICES ASSUME NEW e \in Failure, e[1] + Window > U
               PROVE  e \in Failed(m) <=> e \in Failed(F)
    OBVIOUS
  <2>1. e \in Recent(m) <=> e \in Recent(F)
    BY <1>4 DEF Recent
  <2>2. CASE e[1] # clock
    BY <2>1, <2>2 DEF Failed
  <2>3. CASE e[1] = clock
    <3>1. {x \in m : x[1] = clock} = {x \in F : x[1] = clock}
      BY <1>1, <1>4, <2>3 DEF Recent
    <3> QED
      BY <2>1, <3>1 DEF Failed
  <2> QED
    BY <2>2, <2>3
<1>6. \A e \in Failed(m) \cup Failed(F) : e[1] <= clock \/ e \in F
  <2>1. \A e \in m : e[1] <= clock
    OBVIOUS
  <2> QED
    BY <1>1, <2>1 DEF Failed, Recent
<1>7. \A e \in Failed(F) : clock - e[1] < Window
  BY <1>1 DEF Failed, Recent
<1>8. \A e \in Failed(m) : e[1] <= clock
  BY <1>1 DEF Failed, Recent
\* The logins that may still fail.
<1>9. U > clock \/ full => Cardinality(Failed(m)) + n2 < limit + Cardinality(Worker)
  <2>1. CASE U > clock
    BY <1>1, <1>3, <2>1 DEF Known
  <2>2. CASE ~(U > clock)
    <3>1. m \subseteq F
      <4> SUFFICES ASSUME NEW e \in m PROVE e \in F
        OBVIOUS
      <4>1. e \in Failure /\ e[1] + Window > U
        BY <1>1, <2>2
      <4> QED
        BY <4>1 DEF Known
    <3>2. Cardinality(m) <= Cardinality(F)
      BY <1>2, <3>1, FS_Subset
    <3>3. Cardinality(F) < limit
      BY DEF Known
    <3> QED
      BY <1>1, <1>2, <1>3, <3>2, <3>3
  <2> QED
    BY <2>1, <2>2
<1>10. CASE full
  <2>1. IsFiniteSet({}) /\ Cardinality({}) = 0
    BY FS_EmptySet
  <2>2. \A e \in Failure : e[1] + Window > clock + Window => e \notin Failed(m)
    BY <1>1, <1>8
  <2>3. Known({}, clock + Window, Failed(m), n2, limit, clock)
    BY <1>1, <1>9, <1>10, <2>1, <2>2 DEF Known
  <2> QED
    BY <1>10, <2>3
<1>11. CASE ~full
  <2>1. Cardinality(Failed(F)) < limit
    BY <1>2, <1>11
  <2>2. U <= clock + Window
    BY DEF Known
  <2>3. Known(Failed(F), U, Failed(m), n2, limit, clock)
    BY <1>2, <1>5, <1>7, <1>9, <2>1, <2>2 DEF Known
  <2> QED
    BY <1>11, <2>3
<1> QED
  BY <1>10, <1>11
\* A failure and one key of its table.
LEMMA KeyFails ==
    ASSUME clock \in Tick, NEW K, NEW T, Table(T, K), NEW key \in K, NEW limit \in Nat \ {0},
           \A j \in DOMAIN T : IsFiniteSet(T[j].failures),
           NEW B, B = Bounded(Counted(T, key, limit)), NEW S, S = Swept(B),
           NEW k \in K, NEW m, NEW n \in Nat, NEW n2 \in Nat, Sound(T, k, m, n, limit, clock),
           n2 <= n, k = key => n2 < n /\ n <= Cardinality(Worker),
           NEW m2, m2 = IF k \in (DOMAIN T) \ (DOMAIN B) THEN {}
                        ELSE IF k = key THEN Failed(m) ELSE m
    PROVE  Sound(S, k, m2, n2, limit, clock)
<1>1. /\ Table(S, K) /\ (DOMAIN S) \subseteq DOMAIN B /\ DOMAIN B \subseteq (DOMAIN T) \cup {key}
      /\ key \in DOMAIN B
      /\ \A j \in (DOMAIN B) \ {key} :
            B[j].failures = T[j].failures /\ B[j].until = T[j].until
      /\ LET old == CounterOf(T, key)
             new == Failed(old.failures)
         IN  IF Cardinality(new) >= limit
             THEN B[key].failures = {} /\ B[key].until = clock + Window
             ELSE B[key].failures = new /\ B[key].until = old.until
      /\ \A j \in DOMAIN S : S[j].failures = B[j].failures /\ S[j].until = B[j].until
      /\ \A j \in (DOMAIN B) \ (DOMAIN S) : B[j].failures = {} /\ B[j].until <= clock
  BY TableFails
<1>2. clock \in Nat /\ Window \in Nat /\ \A j \in DOMAIN T : T[j].until \in Nat
  BY TickFacts, LimiterConstants DEF Table, Counters
<1>3. CASE k = key
  <2>1. m2 = Failed(m)
    BY <1>1, <1>3
  <2>2. m \in SUBSET Failure /\ IsFiniteSet(m) /\ \A e \in m : e[1] <= clock /\ clock - e[1] < Window
    BY DEF Sound
  <2>3. PICK old : old = CounterOf(T, key)
    OBVIOUS
  <2>4. /\ old.failures \in SUBSET Failure /\ old.until \in Nat
        /\ Known(old.failures, old.until, m, n, limit, clock)
    <3>1. CASE key \in DOMAIN T
      <4>1. old = T[key]
        BY <2>3, <3>1 DEF CounterOf
      <4> QED
        BY <1>3, <3>1, <4>1 DEF Sound, Table, Counters
    <3>2. CASE key \notin DOMAIN T
      <4>1. old.failures = {} /\ old.until = 0
        BY <2>3, <3>2 DEF CounterOf
      <4>2. m = {}
        BY <1>3, <3>2 DEF Sound
      <4>3. IsFiniteSet({}) /\ Cardinality({}) = 0
        BY FS_EmptySet
      <4>4. Known({}, 0, {}, n, limit, clock)
        BY <1>2, <4>3 DEF Known
      <4> QED
        BY <4>1, <4>2, <4>4
    <3> QED
      BY <3>1, <3>2
  <2>5. PICK full \in BOOLEAN : full <=> Cardinality(Failed(old.failures)) >= limit
    OBVIOUS
  <2>6. Known(IF full THEN {} ELSE Failed(old.failures),
              IF full THEN clock + Window ELSE old.until, Failed(m), n2, limit, clock)
    BY <1>3, <2>2, <2>4, <2>5, KnownFails
  <2>7. /\ B[k].failures = IF full THEN {} ELSE Failed(old.failures)
        /\ B[k].until = IF full THEN clock + Window ELSE old.until
    BY <1>1, <1>3, <2>3, <2>5
  <2>8. Known(B[k].failures, B[k].until, m2, n2, limit, clock)
    BY <2>1, <2>6, <2>7
  <2>9. /\ m2 \subseteq Failure /\ IsFiniteSet(m2)
        /\ \A e \in m2 : e[1] <= clock /\ clock - e[1] < Window
    <3>1. m2 \subseteq Failure /\ IsFiniteSet(m2)
      BY <2>1, <2>2, FailedFacts
    <3>2. \A e \in m2 : e[1] <= clock /\ clock - e[1] < Window
      BY <1>2, <2>1, <2>2, LimiterConstants DEF Failed, Recent
    <3> QED
      BY <3>1, <3>2
  <2>10. CASE k \in DOMAIN S
    BY <1>1, <2>8, <2>9, <2>10 DEF Sound
  <2>11. CASE k \notin DOMAIN S
    <3>1. Sound(B, k, m2, n2, limit, clock)
      BY <1>1, <1>3, <2>8, <2>9 DEF Sound
    <3>2. k \in DOMAIN B /\ B[k].failures = {} /\ B[k].until <= clock
      BY <1>1, <1>3, <2>11
    <3>3. B[k].until \in Nat
      BY <1>2, <2>4, <2>7
    <3> QED
      BY <2>11, <3>1, <3>2, <3>3, SoundSwept
  <2> QED
    BY <2>10, <2>11
<1>4. CASE k # key /\ k \in (DOMAIN T) \ (DOMAIN B)
  <2>1. m2 = {} /\ k \notin DOMAIN S
    BY <1>1, <1>4
  <2>2. Sound(S, k, {}, n2, limit, clock)
    BY <2>1, SoundCleared
  <2> QED
    BY <2>1, <2>2
<1>5. CASE k # key /\ k \notin (DOMAIN T) \ (DOMAIN B)
  <2>1. m2 = m /\ (k \in DOMAIN T <=> k \in DOMAIN B)
    BY <1>1, <1>5
  <2>2. k \in DOMAIN T => B[k].failures = T[k].failures /\ B[k].until = T[k].until
    BY <1>1, <1>5, <2>1
  <2>3. Sound(B, k, m2, n2, limit, clock)
    BY <1>2, <2>1, <2>2, SoundKeeps
  <2>4. CASE k \in DOMAIN S <=> k \in DOMAIN B
    <3>1. k \in DOMAIN B => B[k].until \in Nat
      BY <1>2, <2>1, <2>2
    <3>2. k \in DOMAIN B => S[k].failures = B[k].failures /\ S[k].until = B[k].until
      BY <1>1, <2>4
    <3> QED
      BY <2>3, <2>4, <3>1, <3>2, SoundKeeps
  <2>5. CASE k \notin DOMAIN S /\ k \in DOMAIN B
    <3>1. B[k].failures = {} /\ B[k].until <= clock /\ B[k].until \in Nat
      BY <1>1, <1>2, <2>1, <2>2, <2>5
    <3> QED
      BY <2>3, <2>5, <3>1, SoundSwept
  <2> QED
    BY <1>1, <2>4, <2>5
<1> QED
  BY <1>3, <1>4, <1>5

-----------------------------------------------------------------------------
(* The logins under way.                                                   *)

LEMMA FlightFacts ==
    ASSUME NEW k
    PROVE  /\ Flights(k) \in Nat /\ Flights(k) <= Cardinality(Worker) /\ IsFiniteSet(Inflight(k))
           /\ Flights(k)' \in Nat /\ Flights(k)' <= Cardinality(Worker)
<1>1. Inflight(k) \in SUBSET Worker /\ Inflight(k)' \in SUBSET Worker
  BY DEF Inflight
<1> QED
  BY <1>1, FS_Subset, FS_CardinalityType, WorkerAssumption DEF Flights

\* Whoever logs in after the step did so before it, from the same address to
\* the same account.
Logged(w) ==
    request'[w] # None /\ request'[w].op = "login" =>
        /\ request[w] # None /\ request[w].op = "login"
        /\ request'[w].ip = request[w].ip /\ request'[w].user = request[w].user

LoginsKept == \A w \in Worker : Logged(w)

LEMMA FlightsKept ==
    ASSUME LoginsKept, Addressed, NEW k
    PROVE  Inflight(k)' \subseteq Inflight(k) /\ Flights(k)' <= Flights(k) /\ Addressed'
<1>1. Inflight(k)' \subseteq Inflight(k)
  BY DEF Inflight, LoginsKept, Logged
<1>2. Flights(k)' <= Flights(k)
  BY <1>1, FlightFacts, FS_Subset DEF Flights
<1>3. Addressed'
  BY DEF Addressed, LoginsKept, Logged
<1> QED
  BY <1>1, <1>2, <1>3

\* The request of a login that ends was under way.
LEMMA FlightsEnd ==
    ASSUME LoginsKept, NEW w \in Worker, request[w] # None, request[w].op = "login",
           request'[w] = None, NEW k, k \in {request[w].ip, <<request[w].ip, request[w].user>>}
    PROVE  Flights(k)' < Flights(k)
<1>1. Inflight(k)' \subseteq Inflight(k) /\ w \in Inflight(k) /\ w \notin Inflight(k)'
  BY DEF Inflight, LoginsKept, Logged
<1> QED
  BY <1>1, FlightFacts, FS_Subset DEF Flights

Recorded(w) ==
    /\ request[w] # None /\ request[w].op = "login" /\ request'[w] = None
    /\ \/ RecordFailure(request[w].ip, request[w].user)
       \/ RecordSuccess(request[w].ip, request[w].user)

\* Only an attempt to log in, its end, a restart and time concern the limiter.
LEMMA LimiterStep ==
    ASSUME Types, Shapes, [Next]_vars
    PROVE  \/ \E w \in Worker, ip \in Ip, u \in User : LoginChecks(w, ip, u)
           \/ /\ LoginsKept
              /\ \/ UNCHANGED limiterVars \/ LimiterForgets \/ ClockTicks
                 \/ \E w \in Worker : Recorded(w)
<1>1. ASSUME NEW w \in Worker, Answered(w) PROVE LoginsKept /\ request'[w] = None
  BY <1>1 DEF Answered, Types, LoginsKept, Logged
<1>2. ASSUME UNCHANGED request PROVE LoginsKept
  BY <1>2 DEF LoginsKept, Logged
<1>3. ASSUME NEW w \in Worker, NEW op, NEW u, NEW new, NEW code, NEW mfa, op # "login",
             Reads(w, op, u, new, code, mfa)
      PROVE  LoginsKept /\ UNCHANGED limiterVars
  BY <1>3 DEF Reads, Types, LoginsKept, Logged
<1>4. ASSUME NEW w \in Worker, NEW c, LoginVerifies(w, c)
      PROVE  LoginsKept /\ UNCHANGED limiterVars
  <2>1. request[w] \in Request
    BY <1>4, CommitRow DEF LoginVerifies, Doing
  <2>2. /\ \A v \in Worker \ {w} : request'[v] = request[v]
        /\ request'[w].op = request[w].op /\ request'[w].ip = request[w].ip
        /\ request'[w].user = request[w].user /\ request[w] # None
    BY <1>4, <2>1 DEF LoginVerifies, Doing, Types, Request
  <2> QED
    BY <1>4, <2>2 DEF LoginVerifies, LoginsKept, Logged
<1>5. ASSUME NEW w \in Worker, LoginFails(w) \/ LoginIssues(w) \/ LoginConsumes(w)
      PROVE  LoginsKept /\ Recorded(w)
  <2>1. Answered(w) /\ Doing(w, "login")
    BY <1>5 DEF LoginFails, LoginIssues, LoginConsumes
  <2>2. \/ RecordFailure(request[w].ip, request[w].user)
        \/ RecordSuccess(request[w].ip, request[w].user)
    BY <1>5 DEF LoginFails, LoginIssues, LoginConsumes
  <2> QED
    BY <1>1, <2>1, <2>2 DEF Recorded, Doing
<1>6. ASSUME NEW w \in Worker, NEW t \in session, Own(w, t) \/ \E u \in User : Manage(w, t, u)
      PROVE  LoginsKept /\ UNCHANGED limiterVars
  BY <1>3, <1>6
  DEF Own, SetupReads, LogoutReads, PasswordReads, ConfirmReads, DisableReads, Manage,
      UpdateReads, ResetReads, DeleteReads
<1>7. ASSUME NEW w \in Worker, Abandon(w) \/ Commits(w)
      PROVE  LoginsKept /\ UNCHANGED limiterVars
  BY <1>1, <1>7 DEF Abandon, Commits, SetupCommits, FactorCommits, LogoutCommits,
     PasswordCommits, UserCommits, DeleteCommits, ScriptCommits
<1>8. CASE Restart
  BY <1>8 DEF Restart, LoginsKept, Logged
<1>9. CASE TimePasses
  BY <1>2, <1>9 DEF TimePasses, accountVars
<1>10. ASSUME \/ UNCHANGED vars
              \/ \E t \in session : Expire(t)
              \/ \E t \in session, u \in User, role \in {"admin", "viewer"} : CreateUser(t, u, role)
       PROVE  LoginsKept /\ UNCHANGED limiterVars
  BY <1>2, <1>10 DEF vars, accountVars, Expire, CreateUser
<1>11. ASSUME NEW w \in Worker, NEW u \in User, ScriptReads(w, u)
       PROVE  LoginsKept /\ UNCHANGED limiterVars
  BY <1>3, <1>11 DEF ScriptReads
<1> QED
  BY <1>4, <1>5, <1>6, <1>7, <1>8, <1>9, <1>10, <1>11 DEF Next, Login

-----------------------------------------------------------------------------
(* The steps of the limiter.                                               *)

LimiterGoal ==
    /\ LimiterTypeOK'
    /\ \A i \in Ip : Sound(byIp', i, missed'[i], Flights(i)', MaxFailuresIp, clock')
    /\ \A p \in Pair : Sound(byPair', p, missed'[p], Flights(p)', MaxFailuresPair, clock')

LEMMA LimiterTables ==
    /\ LimiterTypeOK <=> /\ clock \in Tick /\ Table(byIp, Ip) /\ Table(byPair, Pair)
                         /\ missed \in [Key -> SUBSET Failure]
    /\ LimiterTypeOK' <=> /\ clock' \in Tick /\ Table(byIp', Ip) /\ Table(byPair', Pair)
                          /\ missed' \in [Key -> SUBSET Failure]
    /\ Ip \subseteq Key /\ Pair \subseteq Key /\ \A k \in Key : k \in Ip \/ k \in Pair
  BY DEF LimiterTypeOK, Table, Key

LEMMA TableUntil ==
    ASSUME NEW K, NEW T, Table(T, K), NEW k \in DOMAIN T
    PROVE  T[k].until \in Nat
  BY DEF Table, Counters

LEMMA CheckKeeps ==
    ASSUME LimiterInv, NEW w \in Worker, NEW ip \in Ip, NEW u \in User, LoginChecks(w, ip, u),
           request \in [Worker -> Request \cup {None}]
    PROVE  LimiterGoal /\ Addressed'
<1>1. /\ UNCHANGED limiterVars /\ request[w] = None /\ Allowed(ip, u)
      /\ request'[w].op = "login" /\ request'[w].ip = ip /\ request'[w].user = u
      /\ \A v \in Worker \ {w} : request'[v] = request[v]
  BY DEF LoginChecks
<1>2. ASSUME NEW k, k \notin {ip, <<ip, u>>} PROVE Flights(k)' <= Flights(k)
  <2>1. Inflight(k)' \subseteq Inflight(k)
    BY <1>1, <1>2 DEF Inflight
  <2> QED
    BY <2>1, FlightFacts, FS_Subset DEF Flights
<1>3. clock \in Tick /\ Table(byIp, Ip) /\ Table(byPair, Pair)
  BY LimiterTables DEF LimiterInv
<1>4. ASSUME NEW i \in Ip PROVE Sound(byIp, i, missed[i], Flights(i)', MaxFailuresIp, clock)
  <2>1. Sound(byIp, i, missed[i], Flights(i), MaxFailuresIp, clock)
    BY <1>4 DEF LimiterInv
  <2>2. Flights(i)' <= Flights(i) \/ ~Locked(byIp, i)
    BY <1>1, <1>2, LimiterConstants DEF Allowed, Pair
  <2>3. i \in DOMAIN byIp => byIp[i].until \in Nat
    BY <1>3, TableUntil
  <2> QED
    BY <1>3, <2>1, <2>2, <2>3, FlightFacts, SoundKeeps, LimiterConstants
<1>5. ASSUME NEW p \in Pair
      PROVE  Sound(byPair, p, missed[p], Flights(p)', MaxFailuresPair, clock)
  <2>1. Sound(byPair, p, missed[p], Flights(p), MaxFailuresPair, clock)
    BY <1>5 DEF LimiterInv
  <2>2. Flights(p)' <= Flights(p) \/ ~Locked(byPair, p)
    BY <1>1, <1>2, LimiterConstants DEF Allowed
  <2>3. p \in DOMAIN byPair => byPair[p].until \in Nat
    BY <1>3, TableUntil
  <2> QED
    BY <1>3, <2>1, <2>2, <2>3, FlightFacts, SoundKeeps, LimiterConstants
<1>6. LimiterTypeOK' /\ Addressed'
  <2>1. LimiterTypeOK'
    BY <1>1 DEF LimiterInv, LimiterTypeOK, limiterVars
  <2>2. Addressed'
    BY <1>1 DEF LimiterInv, Addressed
  <2> QED
    BY <2>1, <2>2
<1> QED
  BY <1>1, <1>4, <1>5, <1>6 DEF LimiterGoal, limiterVars

LEMMA IdleKeeps ==
    ASSUME LimiterInv, LoginsKept, UNCHANGED limiterVars
    PROVE  LimiterGoal
<1>1. clock \in Tick /\ Table(byIp, Ip) /\ Table(byPair, Pair) /\ Addressed
  BY LimiterTables DEF LimiterInv
<1>2. ASSUME NEW i \in Ip PROVE Sound(byIp, i, missed[i], Flights(i)', MaxFailuresIp, clock)
  <2>1. Sound(byIp, i, missed[i], Flights(i), MaxFailuresIp, clock)
    BY <1>2 DEF LimiterInv
  <2>2. Flights(i)' <= Flights(i) /\ (i \in DOMAIN byIp => byIp[i].until \in Nat)
    BY <1>1, FlightsKept, TableUntil
  <2> QED
    BY <1>1, <2>1, <2>2, FlightFacts, SoundKeeps, LimiterConstants
<1>3. ASSUME NEW p \in Pair
      PROVE  Sound(byPair, p, missed[p], Flights(p)', MaxFailuresPair, clock)
  <2>1. Sound(byPair, p, missed[p], Flights(p), MaxFailuresPair, clock)
    BY <1>3 DEF LimiterInv
  <2>2. Flights(p)' <= Flights(p) /\ (p \in DOMAIN byPair => byPair[p].until \in Nat)
    BY <1>1, FlightsKept, TableUntil
  <2> QED
    BY <1>1, <2>1, <2>2, FlightFacts, SoundKeeps, LimiterConstants
<1>4. LimiterTypeOK'
  BY DEF LimiterInv, LimiterTypeOK, limiterVars
<1> QED
  BY <1>2, <1>3, <1>4 DEF LimiterGoal, limiterVars

LEMMA FailureKeeps ==
    ASSUME LimiterInv, LoginsKept, NEW w \in Worker, NEW ip \in Ip, NEW u \in User,
           RecordFailure(ip, u),
           request[w] # None, request[w].op = "login", request'[w] = None,
           request[w].ip = ip, request[w].user = u
    PROVE  LimiterGoal
<1>1. clock \in Tick /\ Table(byIp, Ip) /\ Table(byPair, Pair) /\ Addressed
  BY LimiterTables DEF LimiterInv
<1>2. PICK ips : ips = Bounded(Counted(byIp, ip, MaxFailuresIp))
  OBVIOUS
<1>3. PICK pairs : pairs = Bounded(Counted(byPair, <<ip, u>>, MaxFailuresPair))
  OBVIOUS
<1>4. PICK gone :
         /\ gone = ((DOMAIN byIp) \cup (DOMAIN byPair)) \ ((DOMAIN ips) \cup (DOMAIN pairs))
         /\ missed' = [k \in Key |-> IF k \in gone THEN {}
                                     ELSE IF k \in {ip, <<ip, u>>} THEN Failed(missed[k])
                                     ELSE missed[k]]
  BY <1>2, <1>3 DEF RecordFailure
<1>5. byIp' = Swept(ips) /\ byPair' = Swept(pairs) /\ clock' = clock
  BY <1>2, <1>3 DEF RecordFailure
<1>6. ip \in Ip /\ <<ip, u>> \in Pair /\ Ip \subseteq Key /\ Pair \subseteq Key
  BY DEF Pair, Key
<1>7. /\ \A i \in DOMAIN byIp : IsFiniteSet(byIp[i].failures)
      /\ \A p \in DOMAIN byPair : IsFiniteSet(byPair[p].failures)
  BY <1>1 DEF LimiterInv, Sound, Known, Table
<1>8. Table(byIp', Ip) /\ DOMAIN ips \subseteq Ip
  <2>1. /\ Table(Swept(ips), Ip) /\ DOMAIN ips \subseteq (DOMAIN byIp) \cup {ip}
    BY <1>1, <1>2, <1>7, LimiterConstants, TableFails
  <2> QED
    BY <1>1, <1>5, <2>1 DEF Table
<1>9. Table(byPair', Pair) /\ DOMAIN pairs \subseteq Pair
  <2>1. /\ Table(Swept(pairs), Pair) /\ DOMAIN pairs \subseteq (DOMAIN byPair) \cup {<<ip, u>>}
    BY <1>1, <1>3, <1>6, <1>7, LimiterConstants, TableFails
  <2> QED
    BY <1>1, <1>5, <1>6, <2>1 DEF Table
<1>10. ASSUME NEW i \in Ip
       PROVE  Sound(byIp', i, missed'[i], Flights(i)', MaxFailuresIp, clock')
  <2>1. missed'[i] = IF i \in (DOMAIN byIp) \ (DOMAIN ips) THEN {}
                     ELSE IF i = ip THEN Failed(missed[i]) ELSE missed[i]
    BY <1>1, <1>4, <1>6, <1>9, LimiterConstants DEF Table
  <2>2. Sound(byIp, i, missed[i], Flights(i), MaxFailuresIp, clock)
    BY <1>10 DEF LimiterInv
  <2>3. /\ Flights(i)' <= Flights(i) /\ Flights(i) \in Nat /\ Flights(i)' \in Nat
        /\ i = ip => Flights(i)' < Flights(i) /\ Flights(i) <= Cardinality(Worker)
    BY <1>1, FlightsKept, FlightFacts, FlightsEnd
  <2>4. PICK m2, n, n2 : m2 = missed'[i] /\ n = Flights(i) /\ n2 = Flights(i)'
    OBVIOUS
  <2>5. Sound(Swept(ips), i, m2, n2, MaxFailuresIp, clock)
    BY <1>1, <1>2, <1>7, <2>1, <2>2, <2>3, <2>4, LimiterConstants, KeyFails
  <2> QED
    BY <1>5, <2>4, <2>5
<1>11. ASSUME NEW p \in Pair
       PROVE  Sound(byPair', p, missed'[p], Flights(p)', MaxFailuresPair, clock')
  <2>1. missed'[p] = IF p \in (DOMAIN byPair) \ (DOMAIN pairs) THEN {}
                     ELSE IF p = <<ip, u>> THEN Failed(missed[p]) ELSE missed[p]
    BY <1>1, <1>4, <1>6, <1>8, LimiterConstants DEF Table
  <2>2. Sound(byPair, p, missed[p], Flights(p), MaxFailuresPair, clock)
    BY <1>11 DEF LimiterInv
  <2>3. /\ Flights(p)' <= Flights(p) /\ Flights(p) \in Nat /\ Flights(p)' \in Nat
        /\ p = <<ip, u>> => Flights(p)' < Flights(p) /\ Flights(p) <= Cardinality(Worker)
    BY <1>1, FlightsKept, FlightFacts, FlightsEnd
  <2>4. PICK m2, n, n2 : m2 = missed'[p] /\ n = Flights(p) /\ n2 = Flights(p)'
    OBVIOUS
  <2>5. Sound(Swept(pairs), p, m2, n2, MaxFailuresPair, clock)
    BY <1>1, <1>3, <1>6, <1>7, <2>1, <2>2, <2>3, <2>4, LimiterConstants, KeyFails
  <2> QED
    BY <1>5, <2>4, <2>5
<1>12. missed' \in [Key -> SUBSET Failure]
  <2>1. \A k \in Key : missed'[k] \subseteq Failure
    BY <1>10, <1>11, LimiterTables DEF Sound
  <2>2. missed' = [k \in Key |-> missed'[k]]
    BY <1>4
  <2> QED
    BY <2>1, <2>2
<1> QED
  BY <1>1, <1>5, <1>8, <1>9, <1>10, <1>11, <1>12, LimiterTables DEF LimiterGoal

LEMMA SuccessKeeps ==
    ASSUME LimiterInv, LoginsKept, NEW ip \in Ip, NEW u \in User, RecordSuccess(ip, u)
    PROVE  LimiterGoal
<1>1. clock \in Tick /\ Table(byIp, Ip) /\ Table(byPair, Pair) /\ Addressed
      /\ missed \in [Key -> SUBSET Failure]
  BY LimiterTables DEF LimiterInv
<1>2. <<ip, u>> \in Pair /\ <<ip, u>> \notin Ip
  BY LimiterConstants DEF Pair
<1>3. PICK key \in Pair : key = <<ip, u>>
  BY <1>2
<1>4. /\ byPair' = Without(byPair, {key}) /\ byIp' = byIp /\ clock' = clock
      /\ missed' = [missed EXCEPT ![key] = {}]
  BY <1>3 DEF RecordSuccess
<1>5. /\ missed' \in [Key -> SUBSET Failure] /\ missed'[key] = {}
      /\ \A k \in Key \ {key} : missed'[k] = missed[k]
  BY <1>1, <1>4, LimiterTables
<1>6. Table(byPair', Pair) /\ DOMAIN byPair' = (DOMAIN byPair) \ {key}
  BY <1>1, <1>4, WithoutTable
<1>7. ASSUME NEW i \in Ip PROVE Sound(byIp, i, missed[i], Flights(i)', MaxFailuresIp, clock)
  <2>1. Sound(byIp, i, missed[i], Flights(i), MaxFailuresIp, clock)
    BY <1>7 DEF LimiterInv
  <2>2. Flights(i)' <= Flights(i) /\ (i \in DOMAIN byIp => byIp[i].until \in Nat)
    BY <1>1, FlightsKept, TableUntil
  <2> QED
    BY <1>1, <2>1, <2>2, FlightFacts, SoundKeeps, LimiterConstants
<1>8. \A i \in Ip : Sound(byIp', i, missed'[i], Flights(i)', MaxFailuresIp, clock')
  BY <1>2, <1>3, <1>4, <1>5, <1>7, LimiterTables
<1>9. ASSUME NEW p \in Pair
      PROVE  Sound(byPair', p, missed'[p], Flights(p)', MaxFailuresPair, clock')
  <2>1. CASE p = key
    <3>1. p \notin DOMAIN byPair'
      BY <1>6, <2>1
    <3>2. Sound(byPair', p, {}, Flights(p)', MaxFailuresPair, clock')
      BY <3>1, SoundCleared
    <3> QED
      BY <1>5, <2>1, <3>2
  <2>2. CASE p # key
    <3>1. Sound(byPair, p, missed[p], Flights(p), MaxFailuresPair, clock)
      BY <1>9 DEF LimiterInv
    <3>2. Flights(p)' <= Flights(p) /\ (p \in DOMAIN byPair => byPair[p].until \in Nat)
      BY <1>1, FlightsKept, TableUntil
    <3>3. /\ p \in DOMAIN byPair <=> p \in DOMAIN byPair'
          /\ p \in DOMAIN byPair => /\ byPair'[p].failures = byPair[p].failures
                                    /\ byPair'[p].until = byPair[p].until
      BY <1>1, <1>4, <1>6, <2>2, WithoutEntry
    <3>4. Sound(byPair', p, missed[p], Flights(p)', MaxFailuresPair, clock)
      BY <1>1, <3>1, <3>2, <3>3, FlightFacts, SoundKeeps, LimiterConstants
    <3>5. missed'[p] = missed[p]
      BY <1>5, <2>2, LimiterTables
    <3> QED
      BY <1>4, <3>4, <3>5
  <2> QED
    BY <2>1, <2>2
<1> QED
  BY <1>1, <1>4, <1>5, <1>6, <1>8, <1>9, LimiterTables DEF LimiterGoal

LEMMA EmptySound ==
    ASSUME byIp = Empty, byPair = Empty, missed = [k \in Key |-> {}], clock \in Tick
    PROVE  /\ LimiterTypeOK
           /\ \A i \in Ip : Sound(byIp, i, missed[i], Flights(i), MaxFailuresIp, clock)
           /\ \A p \in Pair : Sound(byPair, p, missed[p], Flights(p), MaxFailuresPair, clock)
<1>1. DOMAIN byIp = {} /\ DOMAIN byPair = {} /\ \A k \in Key : missed[k] = {}
  BY DEF Empty
<1>2. LimiterTypeOK
  BY <1>1 DEF LimiterTypeOK, Empty
<1> QED
  BY <1>1, <1>2, LimiterTables, SoundCleared

LEMMA ForgetsKeeps ==
    ASSUME LimiterInv, LimiterForgets
    PROVE  LimiterGoal
<1>1. byIp' = Empty /\ byPair' = Empty /\ missed' = [k \in Key |-> {}] /\ clock' \in Tick
  BY LimiterTables DEF LimiterForgets, LimiterInv
<1>2. DOMAIN byIp' = {} /\ DOMAIN byPair' = {} /\ \A k \in Key : missed'[k] = {}
  BY <1>1 DEF Empty
<1>3. LimiterTypeOK'
  BY <1>1, <1>2 DEF LimiterTypeOK, Empty
<1>4. \A i \in Ip : Sound(byIp', i, {}, Flights(i)', MaxFailuresIp, clock')
  BY <1>2, SoundCleared
<1>5. \A p \in Pair : Sound(byPair', p, {}, Flights(p)', MaxFailuresPair, clock')
  BY <1>2, SoundCleared
<1> QED
  BY <1>2, <1>3, <1>4, <1>5, LimiterTables DEF LimiterGoal

LEMMA TicksKeep ==
    ASSUME LimiterInv, LoginsKept, ClockTicks
    PROVE  LimiterGoal
<1>1. clock \in Tick /\ Table(byIp, Ip) /\ Table(byPair, Pair) /\ Addressed
      /\ missed \in [Key -> SUBSET Failure]
  BY LimiterTables DEF LimiterInv
<1>2. /\ clock < MaxClock /\ clock' = clock + 1 /\ byIp' = byIp /\ byPair' = byPair
      /\ missed' = [k \in Key |-> {e \in missed[k] : clock + 1 - e[1] < Window}]
  BY DEF ClockTicks
<1>3. clock' \in Tick
  BY <1>1, <1>2, LimiterConstants DEF Tick
<1>4. missed' \in [Key -> SUBSET Failure]
  BY <1>1, <1>2
<1>5. \A k \in Key : missed'[k] = {e \in missed[k] : clock + 1 - e[1] < Window}
  BY <1>2
<1>6. ASSUME NEW i \in Ip
      PROVE  Sound(byIp', i, missed'[i], Flights(i)', MaxFailuresIp, clock')
  <2>1. Sound(byIp, i, missed[i], Flights(i), MaxFailuresIp, clock)
    BY <1>6 DEF LimiterInv
  <2>2. Flights(i)' <= Flights(i) /\ (i \in DOMAIN byIp => byIp[i].until \in Nat)
    BY <1>1, FlightsKept, TableUntil
  <2>3. Sound(byIp, i, missed[i], Flights(i)', MaxFailuresIp, clock)
    BY <1>1, <2>1, <2>2, FlightFacts, SoundKeeps, LimiterConstants
  <2>4. PICK n \in Nat : n = Flights(i)'
    BY FlightFacts
  <2>5. missed'[i] = {e \in missed[i] : clock + 1 - e[1] < Window}
    BY <1>5, LimiterTables
  <2>6. Sound(byIp, i, missed'[i], n, MaxFailuresIp, clock + 1)
    BY <1>1, <2>2, <2>3, <2>4, <2>5, SoundTicks, LimiterConstants
  <2> QED
    BY <1>2, <2>4, <2>6
<1>7. ASSUME NEW p \in Pair
      PROVE  Sound(byPair', p, missed'[p], Flights(p)', MaxFailuresPair, clock')
  <2>1. Sound(byPair, p, missed[p], Flights(p), MaxFailuresPair, clock)
    BY <1>7 DEF LimiterInv
  <2>2. Flights(p)' <= Flights(p) /\ (p \in DOMAIN byPair => byPair[p].until \in Nat)
    BY <1>1, FlightsKept, TableUntil
  <2>3. Sound(byPair, p, missed[p], Flights(p)', MaxFailuresPair, clock)
    BY <1>1, <2>1, <2>2, FlightFacts, SoundKeeps, LimiterConstants
  <2>4. PICK n \in Nat : n = Flights(p)'
    BY FlightFacts
  <2>5. missed'[p] = {e \in missed[p] : clock + 1 - e[1] < Window}
    BY <1>5, LimiterTables
  <2>6. Sound(byPair, p, missed'[p], n, MaxFailuresPair, clock + 1)
    BY <1>1, <2>2, <2>3, <2>4, <2>5, SoundTicks, LimiterConstants
  <2> QED
    BY <1>2, <2>4, <2>6
<1> QED
  BY <1>1, <1>2, <1>3, <1>4, <1>6, <1>7, LimiterTables DEF LimiterGoal

LEMMA LimiterNext == Inv /\ LimiterInv /\ [Next]_vars => LimiterInv'
<1> SUFFICES ASSUME Inv, LimiterInv, [Next]_vars PROVE LimiterInv'
  OBVIOUS
<1>1. Types /\ Shapes /\ Addressed
  BY DEF Inv, LimiterInv
<1>2. LimiterGoal /\ Addressed' => LimiterInv'
  BY DEF LimiterGoal, LimiterInv
<1>3. ASSUME NEW w \in Worker, NEW ip \in Ip, NEW u \in User, LoginChecks(w, ip, u)
      PROVE  LimiterGoal /\ Addressed'
  BY <1>1, <1>3, CheckKeeps DEF Types
<1>4. ASSUME LoginsKept PROVE Addressed'
  BY <1>1, <1>4, FlightsKept
<1>5. ASSUME LoginsKept, NEW w \in Worker, Recorded(w) PROVE LimiterGoal
  <2>1. /\ request[w] # None /\ request[w].op = "login" /\ request'[w] = None
        /\ request[w].ip \in Ip /\ request[w].user \in User
    BY <1>1, <1>5, CommitRow DEF Recorded, Addressed
  <2>2. CASE RecordFailure(request[w].ip, request[w].user)
    BY <1>5, <2>1, <2>2, FailureKeeps
  <2>3. CASE RecordSuccess(request[w].ip, request[w].user)
    BY <1>5, <2>1, <2>3, SuccessKeeps
  <2> QED
    BY <1>5, <2>2, <2>3 DEF Recorded
<1>6. ASSUME LoginsKept, UNCHANGED limiterVars \/ LimiterForgets \/ ClockTicks PROVE LimiterGoal
  BY <1>6, IdleKeeps, ForgetsKeeps, TicksKeep
<1> QED
  BY <1>1, <1>2, <1>3, <1>4, <1>5, <1>6, LimiterStep

LEMMA LimiterInductive == Spec => []LimiterInv
<1>1. Init => LimiterInv
  <2> SUFFICES ASSUME Init PROVE LimiterInv
    OBVIOUS
  <2>1. Addressed
    BY DEF Init, Addressed
  <2>2. byIp = Empty /\ byPair = Empty /\ missed = [k \in Key |-> {}] /\ clock \in Tick
    BY LimiterConstants DEF Init, LimiterInit, Tick
  <2> QED
    BY <2>1, <2>2, EmptySound DEF LimiterInv
<1> QED
  BY <1>1, LimiterNext, Inductive, PTL DEF Spec

\* What LimiterInv says of the failures of one key.
LEMMA SoundBound ==
    ASSUME NEW K, NEW T, Table(T, K), NEW k, NEW m, NEW n \in Nat, NEW limit \in Nat \ {0},
           clock \in Tick, Sound(T, k, m, n, limit, clock)
    PROVE  Cardinality(Recent(m)) < limit + Cardinality(Worker)
<1>1. IsFiniteSet(m) /\ Cardinality(m) \in Nat /\ Cardinality(Worker) \in Nat
  BY FS_CardinalityType, WorkerAssumption DEF Sound
<1>2. Cardinality(Recent(m)) <= Cardinality(m) /\ Cardinality(Recent(m)) \in Nat
  <2>1. Recent(m) \in SUBSET m
    BY DEF Recent
  <2> QED
    BY <1>1, <2>1, FS_Subset, FS_CardinalityType
<1>3. CASE k \notin DOMAIN T
  BY <1>1, <1>2, <1>3, FS_EmptySet DEF Sound
<1>4. CASE k \in DOMAIN T
  <2>1. Known(T[k].failures, T[k].until, m, n, limit, clock) /\ T[k].until \in Nat
    BY <1>4, TableUntil DEF Sound
  <2>2. CASE T[k].until > clock
    BY <1>1, <1>2, <2>1, <2>2 DEF Known
  <2>3. CASE ~(T[k].until > clock)
    <3>1. m \subseteq T[k].failures
      <4> SUFFICES ASSUME NEW e \in m PROVE e \in T[k].failures
        OBVIOUS
      <4>1. e \in Failure /\ clock - e[1] < Window
        BY DEF Sound
      <4>2. e[1] + Window > T[k].until
        BY <2>1, <2>3, <4>1, TickFacts, LimiterConstants
      <4> QED
        BY <2>1, <4>1, <4>2 DEF Known
    <3>2. Cardinality(m) <= Cardinality(T[k].failures) /\ Cardinality(T[k].failures) \in Nat
          /\ Cardinality(T[k].failures) < limit
      BY <2>1, <3>1, FS_Subset, FS_CardinalityType DEF Known
    <3> QED
      BY <1>1, <1>2, <3>2
  <2> QED
    BY <2>2, <2>3
<1> QED
  BY <1>3, <1>4

\* RateLimiter: whatever logins overlap, however many there are at a time, and
\* however keys expire, are swept or are pushed out of the tables, an address,
\* or an address and account, fails no more often in a window than its limit
\* and the logins that had passed the check allow.
THEOREM GuessesBoundedHolds == Spec => []GuessesBounded
<1>1. LimiterInv => GuessesBounded
  <2> SUFFICES ASSUME LimiterInv PROVE GuessesBounded
    OBVIOUS
  <2>1. clock \in Tick /\ Table(byIp, Ip) /\ Table(byPair, Pair)
    BY LimiterTables DEF LimiterInv
  <2>2. ASSUME NEW i \in Ip
        PROVE  Cardinality(Recent(missed[i])) < MaxFailuresIp + Cardinality(Worker)
    <3>1. Sound(byIp, i, missed[i], Flights(i), MaxFailuresIp, clock)
      BY <2>2 DEF LimiterInv
    <3> QED
      BY <2>1, <3>1, FlightFacts, SoundBound, LimiterConstants
  <2>3. ASSUME NEW p \in Pair
        PROVE  Cardinality(Recent(missed[p])) < MaxFailuresPair + Cardinality(Worker)
    <3>1. Sound(byPair, p, missed[p], Flights(p), MaxFailuresPair, clock)
      BY <2>3 DEF LimiterInv
    <3> QED
      BY <2>1, <3>1, FlightFacts, SoundBound, LimiterConstants
  <2> QED
    BY <2>2, <2>3 DEF GuessesBounded, FailuresBounded
<1> QED
  BY <1>1, LimiterInductive, PTL

\* The rows of the users table, the sessions, what requests have read and the
\* limiter's tables keep their types: no commit writes a value of another kind,
\* and no version passes its bound.
THEOREM TypesHold == Spec => []TypeOK
<1>1. Inv /\ CodeInv /\ LimiterInv => TypeOK
  BY DEF Inv, CodeInv, CodesType, LimiterInv, Types, TypeOK
<1> QED
  BY <1>1, Inductive, CodeInductive, LimiterInductive, PTL
=============================================================================
