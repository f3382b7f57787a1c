------------------------------ MODULE Accounts ------------------------------
(***************************************************************************)
(* Accounts and sessions: login, signup and the check of every request     *)
(* (routes/auth.py), the reset of all sessions, and what administrators do *)
(* to users (routes/users.py).  A session is a signed token; the server    *)
(* keeps no list of them, so what ends one is the account, the timestamp   *)
(* auth_token_not_before, the time since the account was last seen, and    *)
(* the expiry written into the token.  A token carries an id, and the       *)
(* database gives the id of a deleted account to the next one made when it  *)
(* was the highest.                                                         *)
(***************************************************************************)
EXTENDS Naturals

CONSTANTS
    MaxAccounts,    \* bound: the highest id
    Requests,       \* concurrent requests
    TicksPerSecond, \* tokens and resets are compared by whole seconds
    Timeout,        \* session_timeout_minutes, in ticks
    SeenEvery,      \* SESSION_SEEN_UPDATE_SECONDS, in ticks
    NoAccount,      \* in place of a row
    MaxClock, MaxCalls \* bounds: time, requests begun

ASSUME AccountsConstants ==
    /\ MaxAccounts \in Nat \ {0}
    /\ NoAccount \notin [admin : BOOLEAN, disabled : BOOLEAN, isRoot : BOOLEAN, seen : Nat]
    /\ TicksPerSecond \in Nat \ {0} /\ Timeout \in Nat /\ SeenEvery \in Nat
    /\ MaxClock \in Nat /\ MaxCalls \in Nat

VARIABLES
    account,   \* id -> NoAccount or the row of users
    jobsOf,    \* the jobs of an account: "none", "done" or "active"
    tokens,    \* tokens handed out
    notBefore, \* auth_token_not_before
    clock,
    call,      \* what each request is at
    lastUse,   \* history: when a request of the account was last let in
    renamed,   \* history: the root account was given another name
    late,      \* history: ids with a job begun while their account was being deleted
    calls

accountVars == <<account, jobsOf, tokens, notBefore, clock, call, lastUse, renamed, late, calls>>

AccountIds == 1..MaxAccounts
RootAccount == 1   \* the account named "admin" by the seed
AccountExists(u) == account[u] # NoAccount
Seconds(t) == t \div TicksPerSecond
Never == 0   \* last_seen_at and last_login_at are NULL; the clock starts later
NoCall == [pc |-> "idle"]
Row(admin, seen) == [admin |-> admin, disabled |-> FALSE, isRoot |-> FALSE, seen |-> seen]
Token(u) == [user |-> u, born |-> clock]   \* iat is its whole second, exp the end of Timeout

\* The seeded account, with or without further administrators made earlier.
AccountsInit ==
    /\ \E staff \in SUBSET AccountIds :
         account = [u \in AccountIds |-> IF u = RootAccount THEN [Row(TRUE, Never) EXCEPT !.isRoot = TRUE]
                                        ELSE IF u \in staff THEN Row(TRUE, Never) ELSE NoAccount]
    /\ jobsOf = [u \in AccountIds |-> "none"]
    /\ tokens = {} /\ notBefore = 0 /\ clock = TicksPerSecond
    /\ call = [r \in Requests |-> NoCall]
    /\ lastUse = [u \in AccountIds |-> 0]
    /\ renamed = FALSE /\ late = {}
    /\ calls = 0

\* Requests that are being checked when what they are checked against changes
\* may still be let in; passed is cleared of those.
Excuse(rs) == [r \in Requests |-> IF r \in rs /\ call[r].pc \in {"prefs", "touch"}
                                  THEN [call[r] EXCEPT !.excused = TRUE] ELSE call[r]]
Of(u) == {r \in Requests : call[r].pc \in {"prefs", "touch"} /\ call[r].token.user = u}

\* INTEGER PRIMARY KEY: the id after the highest there is.
NextId(u) == (\A v \in AccountIds : AccountExists(v) => v < u) /\ (u > 1 => AccountExists(u - 1))

Start(r, c) ==
    /\ call[r] = NoCall /\ calls < MaxCalls
    /\ calls' = calls + 1
    /\ call' = [call EXCEPT ![r] = c]
End(r) == call' = [call EXCEPT ![r] = NoCall]

-----------------------------------------------------------------------------
(* Login and signup. *)

Login(r) ==
    /\ \E u \in AccountIds :
         /\ AccountExists(u) /\ ~account[u].disabled
         /\ Start(r, [pc |-> "login", user |-> u, now |-> clock])
    /\ UNCHANGED <<account, jobsOf, tokens, notBefore, clock, lastUse, renamed, late>>
FinishLogin(r) ==
    LET u == call[r].user IN
    /\ call[r].pc = "login"
    /\ \/ /\ AccountExists(u)
          /\ account' = [account EXCEPT ![u].seen = call[r].now]
          /\ tokens' = tokens \cup {Token(u)}
          /\ lastUse' = [lastUse EXCEPT ![u] = clock]
       \/ ~AccountExists(u) /\ UNCHANGED <<account, tokens, lastUse>>
    /\ End(r)
    /\ UNCHANGED <<jobsOf, notBefore, clock, renamed, late, calls>>

\* Signup is open or not; a new account has its first token at once.
Signup ==
    /\ \E u \in AccountIds :
         /\ NextId(u)
         /\ account' = [account EXCEPT ![u] = Row(FALSE, clock)]
         /\ tokens' = tokens \cup {Token(u)}
         /\ lastUse' = [lastUse EXCEPT ![u] = clock]
    /\ UNCHANGED <<jobsOf, notBefore, clock, call, renamed, late, calls>>

-----------------------------------------------------------------------------
(* get_current_user: the account, then the preferences, then last_seen_at. *)
(* The rights of the request are those of the row as it was read.          *)

CheckAccount(r) ==
    /\ \E t \in tokens :
         /\ clock <= t.born + Timeout
         /\ AccountExists(t.user) /\ ~account[t.user].disabled
         /\ Start(r, [pc |-> "prefs", token |-> t, admin |-> account[t.user].admin,
                      seen |-> account[t.user].seen, excused |-> FALSE])
    /\ UNCHANGED <<account, jobsOf, tokens, notBefore, clock, lastUse, renamed, late>>

Revoked_SameSecond(t) == Seconds(t.born) < Seconds(notBefore)   \* mutated form
Revoked(t) == Seconds(t.born) <= Seconds(notBefore)
TimedOut(seen) == seen # Never /\ clock - seen > Timeout

CheckSession(r) ==
    LET c == call[r] IN
    /\ c.pc = "prefs"
    /\ \/ (Revoked(c.token) \/ TimedOut(c.seen)) /\ End(r) /\ UNCHANGED lastUse
       \/ /\ ~Revoked(c.token) /\ ~TimedOut(c.seen)
          /\ IF c.seen = Never \/ clock - c.seen > SeenEvery
             THEN /\ call' = [call EXCEPT ![r] = [pc |-> "touch", token |-> c.token, admin |-> c.admin,
                                                  seen |-> c.seen, now |-> clock, excused |-> c.excused]]
                  /\ UNCHANGED lastUse
             ELSE /\ call' = [call EXCEPT ![r] = [pc |-> "in", user |-> c.token.user, admin |-> c.admin]]
                  /\ lastUse' = [lastUse EXCEPT ![c.token.user] = clock]
    /\ UNCHANGED <<account, jobsOf, tokens, notBefore, clock, renamed, late, calls>>

\* A row that is gone fails the request.
TouchSeen(r) ==
    LET c == call[r]
        u == c.token.user IN
    /\ c.pc = "touch"
    /\ \/ /\ AccountExists(u)
          /\ account' = [account EXCEPT ![u].seen = c.now]
          /\ call' = [call EXCEPT ![r] = [pc |-> "in", user |-> u, admin |-> c.admin]]
          /\ lastUse' = [lastUse EXCEPT ![u] = clock]
       \/ ~AccountExists(u) /\ End(r) /\ UNCHANGED <<account, lastUse>>
    /\ UNCHANGED <<jobsOf, tokens, notBefore, clock, renamed, late, calls>>

-----------------------------------------------------------------------------
(* What a request does once it is let in.                                  *)

LeaveIdle(r) ==
    /\ call[r].pc = "in" /\ End(r)
    /\ UNCHANGED <<account, jobsOf, tokens, notBefore, clock, lastUse, renamed, late, calls>>

SubmitJob(r) ==
    LET u == call[r].user IN
    /\ call[r].pc = "in"
    /\ jobsOf' = [jobsOf EXCEPT ![u] = "active"]
    /\ late' = IF ~AccountExists(u) \/ \E q \in Requests : call[q].pc \in {"purge", "remove"} /\ call[q].target = u
               THEN late \cup {u} ELSE late
    /\ End(r)
    /\ UNCHANGED <<account, tokens, notBefore, clock, lastUse, renamed, calls>>

AsAdmin(r) == call[r].pc = "in" /\ call[r].admin

\* The timestamp is that of the handler, the effect that of its commit.
ResetSessions(r) ==
    /\ AsAdmin(r)
    /\ call' = [call EXCEPT ![r] = [pc |-> "reset", now |-> clock]]
    /\ UNCHANGED <<account, jobsOf, tokens, notBefore, clock, lastUse, renamed, late, calls>>
CommitReset(r) ==
    /\ call[r].pc = "reset"
    /\ notBefore' = call[r].now
    /\ call' = [Excuse(Requests) EXCEPT ![r] = NoCall]
    /\ UNCHANGED <<account, jobsOf, tokens, clock, lastUse, renamed, late, calls>>

CreateUser(r) ==
    /\ AsAdmin(r)
    /\ \E u \in AccountIds, admin \in BOOLEAN :
         NextId(u) /\ account' = [account EXCEPT ![u] = Row(admin, Never)]
    /\ End(r)
    /\ UNCHANGED <<jobsOf, tokens, notBefore, clock, lastUse, renamed, late, calls>>

\* What the root account is protected from, by its name as it was read.
RootMay_Anything(u, new) == TRUE   \* mutated form
RootMay(u, new) == account[u].isRoot => new.admin /\ ~new.disabled

UpdateUser(r) ==
    /\ AsAdmin(r)
    /\ \E u \in AccountIds, admin, disabled, rename \in BOOLEAN :
         /\ AccountExists(u)
         /\ LET new == [account[u] EXCEPT !.admin = admin, !.disabled = disabled,
                                          !.isRoot = @ /\ ~rename] IN
            /\ RootMay(u, new)
            /\ call' = [call EXCEPT ![r] = [pc |-> "update", target |-> u, old |-> account[u], new |-> new]]
    /\ UNCHANGED <<account, jobsOf, tokens, notBefore, clock, lastUse, renamed, late, calls>>
CommitUpdate(r) ==
    LET c == call[r] IN
    /\ c.pc = "update"
    /\ \/ ~AccountExists(c.target) /\ End(r) /\ UNCHANGED <<account, renamed>>
       \/ /\ AccountExists(c.target)
          /\ account' = [account EXCEPT ![c.target] =
               [k \in DOMAIN @ |-> IF c.new[k] = c.old[k] THEN @[k] ELSE c.new[k]]]
          /\ call' = [Excuse(Of(c.target)) EXCEPT ![r] = NoCall]
          /\ renamed' = (renamed \/ (c.old.isRoot /\ ~c.new.isRoot))
    /\ UNCHANGED <<jobsOf, tokens, notBefore, clock, lastUse, late, calls>>

\* An account with active jobs stays.  Its jobs go with the commit of the audit
\* entry, the row that has its id with the next one; jobs that turn up in between
\* stay, for the next account with the id.
DeleteUser(r) ==
    /\ AsAdmin(r)
    /\ \E u \in AccountIds :
         /\ AccountExists(u) /\ ~account[u].isRoot /\ jobsOf[u] # "active"
         /\ call' = [call EXCEPT ![r] = [pc |-> "purge", target |-> u]]
    /\ UNCHANGED <<account, jobsOf, tokens, notBefore, clock, lastUse, renamed, late, calls>>
PurgeUser_AfterRow(r) ==   \* mutated form
    /\ call[r].pc = "purge"
    /\ call' = [call EXCEPT ![r].pc = "remove"]
    /\ UNCHANGED <<account, jobsOf, tokens, notBefore, clock, lastUse, renamed, late, calls>>
PurgeUser(r) ==
    /\ call[r].pc = "purge"
    /\ jobsOf' = [jobsOf EXCEPT ![call[r].target] = "none"]
    /\ late' = late \ {call[r].target}
    /\ call' = [call EXCEPT ![r].pc = "remove"]
    /\ UNCHANGED <<account, tokens, notBefore, clock, lastUse, renamed, calls>>
RemoveUser(r) ==
    LET u == call[r].target IN
    /\ call[r].pc = "remove"
    /\ account' = [account EXCEPT ![u] = NoAccount]
    /\ call' = [Excuse(Of(u)) EXCEPT ![r] = NoCall]
    /\ UNCHANGED <<jobsOf, tokens, notBefore, clock, lastUse, renamed, late, calls>>

-----------------------------------------------------------------------------
(* Time, the end of jobs, and a restart, which ends all sessions. *)

Pass ==
    /\ clock < MaxClock /\ clock' = clock + 1
    /\ UNCHANGED <<account, jobsOf, tokens, notBefore, call, lastUse, renamed, late, calls>>

JobEnds ==
    /\ \E u \in AccountIds : jobsOf[u] = "active" /\ jobsOf' = [jobsOf EXCEPT ![u] = "done"]
    /\ UNCHANGED <<account, tokens, notBefore, clock, call, lastUse, renamed, late, calls>>

RestartServer ==
    /\ notBefore' = clock
    /\ call' = [r \in Requests |-> NoCall]
    /\ UNCHANGED <<account, jobsOf, tokens, clock, lastUse, renamed, late, calls>>

AccountsNext ==
    \/ \E r \in Requests :
         \/ Login(r) \/ FinishLogin(r) \/ CheckAccount(r) \/ CheckSession(r) \/ TouchSeen(r)
         \/ LeaveIdle(r) \/ SubmitJob(r) \/ ResetSessions(r) \/ CommitReset(r) \/ CreateUser(r)
         \/ UpdateUser(r) \/ CommitUpdate(r) \/ DeleteUser(r) \/ PurgeUser(r) \/ RemoveUser(r)
    \/ Signup \/ Pass \/ JobEnds \/ RestartServer

AccountsSpec == AccountsInit /\ [][AccountsNext]_accountVars

-----------------------------------------------------------------------------
(* Properties. *)

\* A request is let in only with a token younger than the last reset or restart,
\* for the account that has the id of the token, which is there and enabled and
\* was used within the timeout or never; only a request already being checked may
\* slip past a change.  The account need not be the one the token was made for:
\* after that is deleted the next to have its id is let in with it.
LetIn(r) == call[r].pc \in {"prefs", "touch"} /\ call'[r].pc = "in"
SessionsEnd ==
    [][\A r \in Requests : LetIn(r) /\ ~call[r].excused =>
        LET t == call[r].token IN
        /\ t.born > notBefore
        /\ AccountExists(t.user) /\ ~account[t.user].disabled
        /\ \/ call[r].seen = Never
           \/ (IF call[r].pc = "touch" THEN call[r].now ELSE clock) <= lastUse[t.user] + Timeout
      ]_accountVars

\* As long as nobody renames the root account, an enabled administrator remains,
\* whatever administrators do to each other at the same time.
RootRemains == ~renamed => AccountExists(RootAccount) /\ account[RootAccount].admin /\ ~account[RootAccount].disabled

\* A deleted account leaves no job behind for the next one with its id, unless
\* one was submitted during the deletion.
NothingLeftBehind == \A u \in AccountIds \ late : ~AccountExists(u) => jobsOf[u] = "none"
=============================================================================
