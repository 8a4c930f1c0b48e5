----------------------------- MODULE MCAccounts -----------------------------
(***************************************************************************)
(* Four kinds of behaviour.  In "sessions" an administrator b, enrolled    *)
(* and signed in, is there from the start and stays as it is; every        *)
(* request is about user a, made by a or by b, and no login fails on a     *)
(* password.  "scripts" begins there too; a's own requests meet runs of    *)
(* the reset script.  "resets" goes on from a state "sessions" ends in: b  *)
(* had read a's row for a reset before a confirmed a code, so a kept the   *)
(* confirmation and the counter without the secret.  In "logins" there are *)
(* only starts, logins and time, from the empty table on.  Requests about  *)
(* different users meet nowhere but in the limiter.                        *)
(***************************************************************************)
EXTENDS Accounts, TLC

CONSTANTS a, b, i1, w1, w2

VARIABLE focus

\* Bound: auth_ids, passwords and secrets together, those of b and the first
\* ones of a included.
MaxMade == 7

\* Bound: the versions of a in "sessions" and "scripts".
SessionVersions == 0 .. 2

TwoUsers    == {a, b}
OneIp       == {i1}
TwoWorkers  == {w1, w2}
TwoCounters == 1 .. 2
Workers     == Permutations(TwoWorkers)

Administrator == [aid |-> 1, role |-> "admin", active |-> TRUE, pw |-> 1, ver |-> 1,
                  secret |-> 1, confirmed |-> TRUE, last |-> 1]

SignedIn ==
    /\ LimiterInit
    /\ account = [u \in User |-> IF u = b THEN Administrator ELSE None]
    /\ session = {[user |-> b, aid |-> 1, ver |-> 1, mfa |-> TRUE, pw |-> 1]}
    /\ request = [w \in Worker |-> None]
    /\ fresh = [aid |-> 1, pw |-> 1, secret |-> 1]
    /\ uses = [k \in Number \X Counter |-> IF k = <<1, 1>> THEN 1 ELSE 0]
    /\ rewound = {}
    /\ overwritten = {}

\* a was made, set up secret 2 and confirmed it with code 1 between the read
\* and the commit of the reset; it has signed in since.
HalfReset ==
    LET half == [Administrator EXCEPT !.aid = 2, !.pw = 2, !.ver = 2, !.secret = 0]
    IN  /\ LimiterInit
        /\ account = [u \in User |-> IF u = b THEN Administrator ELSE half]
        /\ session = {[user |-> b, aid |-> 1, ver |-> 1, mfa |-> TRUE, pw |-> 1],
                      [user |-> a, aid |-> 2, ver |-> 2, mfa |-> FALSE, pw |-> 2]}
        /\ request = [w \in Worker |-> None]
        /\ fresh = [aid |-> 2, pw |-> 2, secret |-> 2]
        /\ uses = [k \in Number \X Counter |-> IF k \in {<<1, 1>>, <<2, 1>>} THEN 1 ELSE 0]
        /\ rewound = {}
        /\ overwritten = {}

FocusInit ==
    \/ focus \in {"sessions", "scripts"} /\ SignedIn
    \/ focus = "resets" /\ HalfReset
    \/ focus = "logins" /\ Init

AboutA ==
    /\ Next
    /\ account'[b] = account[b]
    /\ {t \in session' : t.user = b} = {t \in session : t.user = b}
    /\ \A w \in Worker : request'[w] # None => request'[w].user = a
    /\ \A w \in Worker : ~LoginFails(w)
    /\ fresh'.aid + fresh'.pw + fresh'.secret <= MaxMade
    /\ clock' = clock

Ops(ops) == \A w \in Worker : request'[w] # None => request'[w].op \in ops

\* Bound: the bodies of update_user change one field or all of them.
FewBodies ==
    \A w \in Worker : request'[w] # None /\ request'[w].op = "update" =>
        Cardinality({f \in {"role", "active", "pw"} :
                        request'[w].new[f] # request'[w].row[f]}) \in {1, 3}

FewVersions == account'[a] # None => account'[a].ver \in SessionVersions

Sessions ==
    /\ AboutA /\ FewVersions /\ FewBodies
    /\ Ops({"login", "setup", "confirm", "disable", "logout", "password", "update",
            "reset", "delete"})

Scripts ==
    /\ AboutA /\ FewVersions
    /\ Ops({"login", "logout", "password", "script"})

Resets == AboutA /\ Ops({"login", "setup", "confirm", "reset", "script"})

Logins == (\E w \in Worker : Login(w)) \/ Restart \/ TimePasses

FocusNext ==
    /\ UNCHANGED focus
    /\ \/ focus = "sessions" /\ Sessions
       \/ focus = "scripts" /\ Scripts
       \/ focus = "resets" /\ Resets
       \/ focus = "logins" /\ Logins

FocusSpec == FocusInit /\ [][FocusNext]_<<vars, focus>>
=============================================================================
