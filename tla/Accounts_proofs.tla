---------------------------- MODULE Accounts_proofs ----------------------------
(***************************************************************************)
(* An administrator remains, deleted accounts leave nothing behind, and    *)
(* sessions end: proved for any accounts, requests, lengths of a second,   *)
(* of the timeout and of the interval in which last_seen_at is written.    *)
(***************************************************************************)
EXTENDS Accounts, TLAPS

AccountRow == [admin : BOOLEAN, disabled : BOOLEAN, isRoot : BOOLEAN, seen : Nat]
TokenSet == [user : AccountIds, born : Nat]
Calls ==
         [pc : {"idle"}]
    \cup [pc : {"login"}, user : AccountIds, now : Nat]
    \cup [pc : {"prefs"}, token : TokenSet, admin : BOOLEAN, seen : Nat, excused : BOOLEAN]
    \cup [pc : {"touch"}, token : TokenSet, admin : BOOLEAN, seen : Nat, now : Nat, excused : BOOLEAN]
    \cup [pc : {"in"}, user : AccountIds, admin : BOOLEAN]
    \cup [pc : {"reset"}, now : Nat]
    \cup [pc : {"update"}, target : AccountIds, old : AccountRow, new : AccountRow]
    \cup [pc : {"purge", "remove"}, target : AccountIds]

AccountTypes ==
    /\ account \in [AccountIds -> AccountRow \cup {NoAccount}]
    /\ jobsOf \in [AccountIds -> {"none", "done", "active"}]
    /\ tokens \subseteq TokenSet
    /\ notBefore \in Nat /\ clock \in Nat
    /\ call \in [Requests -> Calls]
    /\ lastUse \in [AccountIds -> Nat]
    /\ renamed \in BOOLEAN

\* Records of the stages, apart by their pc.
LEMMA CallFields ==
  ASSUME NEW c \in Calls
  PROVE  /\ c.pc \in {"idle", "login", "prefs", "touch", "in", "reset", "update", "purge", "remove"}
         /\ c.pc = "login" => c.user \in AccountIds /\ c.now \in Nat
         /\ c.pc = "prefs" => c.token \in TokenSet /\ c.admin \in BOOLEAN /\ c.seen \in Nat /\ c.excused \in BOOLEAN
         /\ c.pc = "touch" => /\ c.token \in TokenSet /\ c.admin \in BOOLEAN /\ c.seen \in Nat
                               /\ c.now \in Nat /\ c.excused \in BOOLEAN
         /\ c.pc = "in" => c.user \in AccountIds /\ c.admin \in BOOLEAN
         /\ c.pc = "reset" => c.now \in Nat
         /\ c.pc = "update" => c.target \in AccountIds /\ c.old \in AccountRow /\ c.new \in AccountRow
         /\ c.pc \in {"purge", "remove"} => c.target \in AccountIds
  BY DEF Calls

LEMMA ExcusedCall ==
  ASSUME NEW c \in Calls, c.pc \in {"prefs", "touch"}
  PROVE  LET e == [c EXCEPT !.excused = TRUE] IN
         e \in Calls /\ e.pc = c.pc /\ e.excused = TRUE /\ (c.pc = "touch" => e.now = c.now /\ e.seen = c.seen)
<1>1. CASE c.pc = "prefs"
  <2>1. c \in [pc : {"prefs"}, token : TokenSet, admin : BOOLEAN, seen : Nat, excused : BOOLEAN]
    BY <1>1 DEF Calls
  <2>2. /\ [c EXCEPT !.excused = TRUE] \in [pc : {"prefs"}, token : TokenSet, admin : BOOLEAN, seen : Nat, excused : BOOLEAN]
        /\ [c EXCEPT !.excused = TRUE].excused = TRUE
    BY <2>1
  <2> QED BY <1>1, <2>2 DEF Calls
<1>2. CASE c.pc = "touch"
  <2>1. c \in [pc : {"touch"}, token : TokenSet, admin : BOOLEAN, seen : Nat, now : Nat, excused : BOOLEAN]
    BY <1>2 DEF Calls
  <2>2. /\ [c EXCEPT !.excused = TRUE] \in [pc : {"touch"}, token : TokenSet, admin : BOOLEAN, seen : Nat, now : Nat, excused : BOOLEAN]
        /\ [c EXCEPT !.excused = TRUE].excused = TRUE
        /\ [c EXCEPT !.excused = TRUE].now = c.now /\ [c EXCEPT !.excused = TRUE].seen = c.seen
    BY <2>1
  <2> QED BY <1>2, <2>2 DEF Calls
<1> QED BY <1>1, <1>2

LEMMA RemovingCall ==
  ASSUME NEW c \in Calls, c.pc \in {"purge", "remove"}
  PROVE  LET e == [c EXCEPT !.pc = "remove"] IN e \in Calls /\ e.pc = "remove" /\ e.target = c.target
<1>1. c \in [pc : {"purge", "remove"}, target : AccountIds]
  BY DEF Calls
<1>2. /\ [c EXCEPT !.pc = "remove"] \in [pc : {"purge", "remove"}, target : AccountIds]
      /\ [c EXCEPT !.pc = "remove"].pc = "remove" /\ [c EXCEPT !.pc = "remove"].target = c.target
  BY <1>1
<1> QED BY <1>2 DEF Calls

\* A request that is excused stays what it is.
LEMMA ExcuseIsTyped ==
  ASSUME AccountTypes, NEW rs \in SUBSET Requests
  PROVE  /\ Excuse(rs) \in [Requests -> Calls]
         /\ \A q \in Requests :
              \/ Excuse(rs)[q] = call[q] /\ (q \in rs => call[q].pc \notin {"prefs", "touch"})
              \/ /\ Excuse(rs)[q].pc = call[q].pc /\ call[q].pc \in {"prefs", "touch"}
                 /\ Excuse(rs)[q].excused = TRUE
                 /\ call[q].pc = "touch" => Excuse(rs)[q].now = call[q].now /\ Excuse(rs)[q].seen = call[q].seen
<1>1. \A q \in Requests : call[q] \in Calls
  BY DEF AccountTypes
<1>2. \A q \in Requests : q \in rs /\ call[q].pc \in {"prefs", "touch"} =>
        Excuse(rs)[q] = [call[q] EXCEPT !.excused = TRUE]
  BY DEF Excuse
<1>3. \A q \in Requests : ~(q \in rs /\ call[q].pc \in {"prefs", "touch"}) => Excuse(rs)[q] = call[q]
  BY DEF Excuse
<1>4. \A q \in Requests : Excuse(rs)[q] \in Calls
  BY <1>1, <1>2, <1>3, ExcusedCall
<1>5. Excuse(rs) \in [Requests -> Calls]
  BY <1>4 DEF Excuse
<1>6. ASSUME NEW q \in Requests, q \in rs, call[q].pc \in {"prefs", "touch"}
      PROVE  /\ Excuse(rs)[q].pc = call[q].pc /\ Excuse(rs)[q].excused = TRUE
             /\ call[q].pc = "touch" => Excuse(rs)[q].now = call[q].now /\ Excuse(rs)[q].seen = call[q].seen
  <2>1. Excuse(rs)[q] = [call[q] EXCEPT !.excused = TRUE] /\ call[q] \in Calls
    BY <1>1, <1>2, <1>6
  <2> QED BY <1>6, <2>1, ExcusedCall
<1> QED BY <1>3, <1>5, <1>6

\* Rows, and what the handlers make of them.
LEMMA SeenRow ==
  ASSUME NEW a \in AccountRow, NEW n \in Nat
  PROVE  LET e == [a EXCEPT !.seen = n] IN
         /\ e \in AccountRow /\ e.seen = n
         /\ e.admin = a.admin /\ e.disabled = a.disabled /\ e.isRoot = a.isRoot
  BY DEF AccountRow

LEMMA UpdatedRow ==
  ASSUME NEW a \in AccountRow, NEW admin \in BOOLEAN, NEW disabled \in BOOLEAN, NEW rename \in BOOLEAN
  PROVE  LET e == [a EXCEPT !.admin = admin, !.disabled = disabled, !.isRoot = @ /\ ~rename] IN
         e \in AccountRow /\ e.seen = a.seen
  BY DEF AccountRow

LEMMA MergedRow ==
  ASSUME NEW a \in AccountRow, NEW old \in AccountRow, NEW new \in AccountRow
  PROVE  LET m == [k \in DOMAIN a |-> IF new[k] = old[k] THEN a[k] ELSE new[k]] IN
         /\ m \in AccountRow
         /\ m.admin = (IF new.admin = old.admin THEN a.admin ELSE new.admin)
         /\ m.disabled = (IF new.disabled = old.disabled THEN a.disabled ELSE new.disabled)
         /\ m.isRoot = (IF new.isRoot = old.isRoot THEN a.isRoot ELSE new.isRoot)
         /\ m.seen = (IF new.seen = old.seen THEN a.seen ELSE new.seen)
<1> DEFINE m == [k \in DOMAIN a |-> IF new[k] = old[k] THEN a[k] ELSE new[k]]
<1>1. DOMAIN a = {"admin", "disabled", "isRoot", "seen"}
  BY DEF AccountRow
<1>2. /\ m.admin = (IF new.admin = old.admin THEN a.admin ELSE new.admin)
      /\ m.disabled = (IF new.disabled = old.disabled THEN a.disabled ELSE new.disabled)
      /\ m.isRoot = (IF new.isRoot = old.isRoot THEN a.isRoot ELSE new.isRoot)
      /\ m.seen = (IF new.seen = old.seen THEN a.seen ELSE new.seen)
  BY <1>1
<1>3. m = [admin |-> m.admin, disabled |-> m.disabled, isRoot |-> m.isRoot, seen |-> m.seen]
  BY <1>1
<1>4. m \in AccountRow
  BY <1>2, <1>3 DEF AccountRow
<1> QED BY <1>2, <1>4

LEMMA RowExists ==
  ASSUME AccountTypes, NEW u \in AccountIds
  PROVE  /\ AccountExists(u) <=> account[u] \in AccountRow
         /\ account[u] \in AccountRow => account[u] # NoAccount
  BY AccountsConstants DEF AccountTypes, AccountExists, AccountRow

LEMMA NextIdIsFree ==
  ASSUME NEW u \in AccountIds, NextId(u)
  PROVE  account[u] = NoAccount
<1>1. u \in Nat /\ ~(u < u)
  BY AccountsConstants DEF AccountIds
<1> QED BY <1>1 DEF NextId, AccountExists

LEMMA RootIsId == RootAccount \in AccountIds
  BY AccountsConstants DEF RootAccount, AccountIds

\* An update writes the columns it changes, into a row that is there.
LEMMA UpdateEffect ==
  ASSUME AccountTypes, NEW r \in Requests, CommitUpdate(r)
  PROVE  LET c == call[r] IN
         /\ c.pc = "update" /\ c.target \in AccountIds /\ c.old \in AccountRow /\ c.new \in AccountRow
         /\ \A u \in AccountIds \ {c.target} : account'[u] = account[u]
         /\ \/ /\ ~AccountExists(c.target) /\ account' = account /\ renamed' = renamed /\ End(r)
            \/ /\ account[c.target] \in AccountRow /\ account'[c.target] \in AccountRow
               /\ account'[c.target].admin =
                    (IF c.new.admin = c.old.admin THEN account[c.target].admin ELSE c.new.admin)
               /\ account'[c.target].disabled =
                    (IF c.new.disabled = c.old.disabled THEN account[c.target].disabled ELSE c.new.disabled)
               /\ account'[c.target].isRoot =
                    (IF c.new.isRoot = c.old.isRoot THEN account[c.target].isRoot ELSE c.new.isRoot)
               /\ account'[c.target].seen =
                    (IF c.new.seen = c.old.seen THEN account[c.target].seen ELSE c.new.seen)
               /\ renamed' = (renamed \/ (c.old.isRoot /\ ~c.new.isRoot))
               /\ call' = [Excuse(Of(c.target)) EXCEPT ![r] = NoCall]
<1> DEFINE c == call[r]
           a == account[c.target]
           row == [k \in DOMAIN a |-> IF c.new[k] = c.old[k] THEN a[k] ELSE c.new[k]]
<1>1. c.pc = "update" /\ c.target \in AccountIds /\ c.old \in AccountRow /\ c.new \in AccountRow
  BY CallFields DEF CommitUpdate, AccountTypes
<1>2. CASE AccountExists(c.target)
  <2>1. a \in AccountRow
    BY <1>1, <1>2, RowExists
  <2>2. /\ row \in AccountRow
        /\ row.admin = (IF c.new.admin = c.old.admin THEN a.admin ELSE c.new.admin)
        /\ row.disabled = (IF c.new.disabled = c.old.disabled THEN a.disabled ELSE c.new.disabled)
        /\ row.isRoot = (IF c.new.isRoot = c.old.isRoot THEN a.isRoot ELSE c.new.isRoot)
        /\ row.seen = (IF c.new.seen = c.old.seen THEN a.seen ELSE c.new.seen)
    <3> HIDE DEF c, a
    <3> QED BY <1>1, <2>1, MergedRow
  <2>3. /\ account' = [account EXCEPT ![c.target] = row]
        /\ renamed' = (renamed \/ (c.old.isRoot /\ ~c.new.isRoot))
        /\ call' = [Excuse(Of(c.target)) EXCEPT ![r] = NoCall]
    BY <1>2 DEF CommitUpdate
  <2> HIDE DEF row
  <2>4. account'[c.target] = row /\ \A u \in AccountIds \ {c.target} : account'[u] = account[u]
    BY <1>1, <2>3 DEF AccountTypes
  <2> QED BY <1>1, <2>1, <2>2, <2>3, <2>4
<1>3. CASE ~AccountExists(c.target)
  BY <1>1, <1>3 DEF CommitUpdate
<1> QED BY <1>2, <1>3

-----------------------------------------------------------------------------
(* Types. *)

LEMMA TypesInit == AccountsInit => AccountTypes
<1> SUFFICES ASSUME AccountsInit PROVE AccountTypes
  OBVIOUS
<1>1. Row(TRUE, Never) \in AccountRow /\ [Row(TRUE, Never) EXCEPT !.isRoot = TRUE] \in AccountRow
  BY DEF Row, AccountRow, Never
<1>2. account \in [AccountIds -> AccountRow \cup {NoAccount}]
  BY <1>1 DEF AccountsInit
<1>3. call \in [Requests -> Calls]
  BY DEF AccountsInit, NoCall, Calls
<1> QED BY <1>2, <1>3, AccountsConstants DEF AccountsInit, AccountTypes

LEMMA TypesStep == AccountTypes /\ [AccountsNext]_accountVars => AccountTypes'
<1> SUFFICES ASSUME AccountTypes, [AccountsNext]_accountVars PROVE AccountTypes'
  OBVIOUS
<1> USE DEF AccountTypes
<1>0. /\ NoCall \in Calls
      /\ \A u \in AccountIds : Token(u) \in TokenSet
      /\ \A admin \in BOOLEAN, n \in Nat : Row(admin, n) \in AccountRow
      /\ Never \in Nat
  BY DEF NoCall, Calls, Token, TokenSet, Row, AccountRow, Never
<1>1. ASSUME NEW r \in Requests, Login(r) PROVE AccountTypes'
  <2>1. PICK u \in AccountIds : call' = [call EXCEPT ![r] = [pc |-> "login", user |-> u, now |-> clock]]
    BY <1>1 DEF Login, Start
  <2>2. [pc |-> "login", user |-> u, now |-> clock] \in Calls
    BY DEF Calls
  <2> QED BY <1>1, <2>1, <2>2 DEF Login
<1>2. ASSUME NEW r \in Requests, FinishLogin(r) PROVE AccountTypes'
  <2> DEFINE u == call[r].user
  <2>1. u \in AccountIds /\ call[r].now \in Nat
    BY <1>2, CallFields DEF FinishLogin
  <2>2. call' \in [Requests -> Calls]
    BY <1>0, <1>2 DEF FinishLogin, End
  <2>3. CASE AccountExists(u)
    <3>1. [account[u] EXCEPT !.seen = call[r].now] \in AccountRow
      BY <2>1, <2>3, RowExists, SeenRow
    <3> QED BY <1>0, <1>2, <2>1, <2>2, <2>3, <3>1 DEF FinishLogin
  <2>4. CASE ~AccountExists(u)
    BY <1>2, <2>2, <2>4 DEF FinishLogin
  <2> QED BY <2>3, <2>4
<1>3. CASE Signup
  BY <1>0, <1>3 DEF Signup
<1>4. ASSUME NEW r \in Requests, CheckAccount(r) PROVE AccountTypes'
  <2>1. PICK t \in tokens :
          /\ AccountExists(t.user)
          /\ call' = [call EXCEPT ![r] = [pc |-> "prefs", token |-> t, admin |-> account[t.user].admin,
                                          seen |-> account[t.user].seen, excused |-> FALSE]]
    BY <1>4 DEF CheckAccount, Start
  <2>2. t \in TokenSet /\ t.user \in AccountIds
    BY DEF TokenSet
  <2>3. account[t.user].seen \in Nat /\ account[t.user].admin \in BOOLEAN
    BY <2>1, <2>2, RowExists DEF AccountRow
  <2>4. [pc |-> "prefs", token |-> t, admin |-> account[t.user].admin, seen |-> account[t.user].seen,
         excused |-> FALSE] \in Calls
    BY <2>2, <2>3 DEF Calls
  <2> QED BY <1>4, <2>1, <2>4 DEF CheckAccount
<1>5. ASSUME NEW r \in Requests, CheckSession(r) PROVE AccountTypes'
  <2> DEFINE c == call[r]
  <2>1. /\ c.token \in TokenSet /\ c.token.user \in AccountIds /\ c.excused \in BOOLEAN
        /\ c.admin \in BOOLEAN /\ c.seen \in Nat
    BY <1>5, CallFields DEF CheckSession, TokenSet
  <2>2. /\ [pc |-> "touch", token |-> c.token, admin |-> c.admin, seen |-> c.seen, now |-> clock,
            excused |-> c.excused] \in Calls
        /\ [pc |-> "in", user |-> c.token.user, admin |-> c.admin] \in Calls
    BY <2>1 DEF Calls
  <2> QED BY <1>0, <1>5, <2>1, <2>2 DEF CheckSession, End
<1>6. ASSUME NEW r \in Requests, TouchSeen(r) PROVE AccountTypes'
  <2> DEFINE u == call[r].token.user
  <2>1. u \in AccountIds /\ call[r].now \in Nat /\ call[r].admin \in BOOLEAN
    BY <1>6, CallFields DEF TouchSeen, TokenSet
  <2>2. [pc |-> "in", user |-> u, admin |-> call[r].admin] \in Calls
    BY <2>1 DEF Calls
  <2>3. CASE AccountExists(u)
    <3>1. [account[u] EXCEPT !.seen = call[r].now] \in AccountRow
      BY <2>1, <2>3, RowExists, SeenRow
    <3> QED BY <1>6, <2>1, <2>2, <2>3, <3>1 DEF TouchSeen
  <2>4. CASE ~AccountExists(u)
    BY <1>0, <1>6, <2>4 DEF TouchSeen, End
  <2> QED BY <2>3, <2>4
<1>7. ASSUME NEW r \in Requests, LeaveIdle(r) PROVE AccountTypes'
  BY <1>0, <1>7 DEF LeaveIdle, End
<1>8. ASSUME NEW r \in Requests, SubmitJob(r) PROVE AccountTypes'
  BY <1>0, <1>8 DEF SubmitJob, End
<1>9. ASSUME NEW r \in Requests, ResetSessions(r) PROVE AccountTypes'
  <2>1. [pc |-> "reset", now |-> clock] \in Calls
    BY DEF Calls
  <2> QED BY <1>9, <2>1 DEF ResetSessions
<1>10. ASSUME NEW r \in Requests, CommitReset(r) PROVE AccountTypes'
  <2>1. call[r].now \in Nat
    BY <1>10, CallFields DEF CommitReset
  <2>2. Excuse(Requests) \in [Requests -> Calls]
    BY ExcuseIsTyped
  <2> QED BY <1>0, <1>10, <2>1, <2>2 DEF CommitReset
<1>11. ASSUME NEW r \in Requests, CreateUser(r) PROVE AccountTypes'
  BY <1>0, <1>11 DEF CreateUser, End
<1>12. ASSUME NEW r \in Requests, UpdateUser(r) PROVE AccountTypes'
  <2>1. PICK u \in AccountIds, admin \in BOOLEAN, disabled \in BOOLEAN, rename \in BOOLEAN :
          /\ AccountExists(u)
          /\ LET new == [account[u] EXCEPT !.admin = admin, !.disabled = disabled,
                                           !.isRoot = @ /\ ~rename] IN
             call' = [call EXCEPT ![r] = [pc |-> "update", target |-> u, old |-> account[u], new |-> new]]
    BY <1>12 DEF UpdateUser
  <2> DEFINE new == [account[u] EXCEPT !.admin = admin, !.disabled = disabled, !.isRoot = @ /\ ~rename]
  <2>2. account[u] \in AccountRow /\ new \in AccountRow
    BY <2>1, RowExists, UpdatedRow
  <2>3. call' = [call EXCEPT ![r] = [pc |-> "update", target |-> u, old |-> account[u], new |-> new]]
    BY <2>1
  <2> HIDE DEF new
  <2>4. [pc |-> "update", target |-> u, old |-> account[u], new |-> new] \in Calls
    BY <2>2 DEF Calls
  <2> QED BY <1>12, <2>3, <2>4 DEF UpdateUser
<1>13. ASSUME NEW r \in Requests, CommitUpdate(r) PROVE AccountTypes'
  <2>1. /\ account' \in [AccountIds -> AccountRow \cup {NoAccount}]
        /\ renamed' \in BOOLEAN
    <3>1. account' = [u \in AccountIds |-> account'[u]]
      BY <1>13 DEF CommitUpdate
    <3>2. \A u \in AccountIds : account'[u] \in AccountRow \cup {NoAccount}
      BY <1>13, UpdateEffect
    <3>3. renamed' \in BOOLEAN
      BY <1>13 DEF CommitUpdate
    <3> QED BY <3>1, <3>2, <3>3
  <2>2. call' \in [Requests -> Calls]
    <3>1. Excuse(Of(call[r].target)) \in [Requests -> Calls]
      BY ExcuseIsTyped DEF Of
    <3> QED BY <1>0, <1>13, <3>1 DEF CommitUpdate, End
  <2> QED BY <1>13, <2>1, <2>2 DEF CommitUpdate
<1>14. ASSUME NEW r \in Requests, DeleteUser(r) PROVE AccountTypes'
  <2>1. PICK u \in AccountIds : call' = [call EXCEPT ![r] = [pc |-> "purge", target |-> u]]
    BY <1>14 DEF DeleteUser
  <2>2. [pc |-> "purge", target |-> u] \in Calls
    BY DEF Calls
  <2> QED BY <1>14, <2>1, <2>2 DEF DeleteUser
<1>15. ASSUME NEW r \in Requests, PurgeUser(r) PROVE AccountTypes'
  <2>1. [call[r] EXCEPT !.pc = "remove"] \in Calls
    BY <1>15, RemovingCall DEF PurgeUser
  <2> QED BY <1>15, <2>1 DEF PurgeUser
<1>16. ASSUME NEW r \in Requests, RemoveUser(r) PROVE AccountTypes'
  <2>1. Excuse(Of(call[r].target)) \in [Requests -> Calls]
    BY ExcuseIsTyped DEF Of
  <2> QED BY <1>0, <1>16, <2>1 DEF RemoveUser
<1>17. CASE Pass \/ JobEnds \/ RestartServer \/ UNCHANGED accountVars
  BY <1>0, <1>17 DEF Pass, JobEnds, RestartServer, accountVars
<1> QED BY <1>1, <1>2, <1>3, <1>4, <1>5, <1>6, <1>7, <1>8, <1>9, <1>10, <1>11, <1>12, <1>13,
           <1>14, <1>15, <1>16, <1>17 DEF AccountsNext

-----------------------------------------------------------------------------
(* What most steps leave alone. *)

\* No request becomes an update or a deletion, or moves on in one.
QuietCalls ==
    \A q \in Requests : call'[q] = call[q] \/ call'[q].pc \notin {"update", "purge", "remove"}

\* A row keeps its flags, or is that of a new account.
SteadyRows ==
    \A u \in AccountIds :
      \/ account'[u] = account[u]
      \/ /\ account[u] \in AccountRow /\ account'[u] \in AccountRow
         /\ account'[u].admin = account[u].admin /\ account'[u].disabled = account[u].disabled
         /\ account'[u].isRoot = account[u].isRoot
      \/ account[u] \notin AccountRow /\ account'[u] \in AccountRow

Unchecked(r) == Login(r) \/ FinishLogin(r) \/ CheckAccount(r) \/ CheckSession(r) \/ TouchSeen(r)
LetInOnly(r) == LeaveIdle(r) \/ SubmitJob(r) \/ ResetSessions(r) \/ CommitReset(r) \/ CreateUser(r)
Aside == Signup \/ Pass \/ JobEnds \/ RestartServer \/ UNCHANGED accountVars

LEMMA QuietSteps ==
  ASSUME AccountTypes,
         \/ \E r \in Requests : \/ Unchecked(r) \/ LetInOnly(r) \/ CommitUpdate(r) \/ RemoveUser(r)
         \/ Aside
  PROVE  QuietCalls
<1> USE DEF AccountTypes, QuietCalls
<1>1. ASSUME NEW r \in Requests, Login(r) \/ CheckAccount(r) PROVE QuietCalls
  BY <1>1 DEF Login, CheckAccount, Start
<1>2. ASSUME NEW r \in Requests, FinishLogin(r) \/ LeaveIdle(r) \/ SubmitJob(r) \/ CreateUser(r)
      PROVE  QuietCalls
  BY <1>2 DEF FinishLogin, LeaveIdle, SubmitJob, CreateUser, End, NoCall
<1>3. ASSUME NEW r \in Requests, CheckSession(r) \/ TouchSeen(r) PROVE QuietCalls
  BY <1>3 DEF CheckSession, TouchSeen, End, NoCall
<1>4. ASSUME NEW r \in Requests, ResetSessions(r) PROVE QuietCalls
  BY <1>4 DEF ResetSessions
<1>5. ASSUME NEW r \in Requests, NEW rs \in SUBSET Requests, call' = [Excuse(rs) EXCEPT ![r] = NoCall]
      PROVE  QuietCalls
  <2>1. call'[r].pc = "idle" /\ \A q \in Requests \ {r} : call'[q] = Excuse(rs)[q]
    BY <1>5, ExcuseIsTyped DEF NoCall
  <2>2. \A q \in Requests : Excuse(rs)[q] = call[q] \/ Excuse(rs)[q].pc \in {"prefs", "touch"}
    BY ExcuseIsTyped
  <2> QED BY <2>1, <2>2
<1>6. ASSUME NEW r \in Requests, CommitReset(r) \/ CommitUpdate(r) \/ RemoveUser(r) PROVE QuietCalls
  <2>1. \/ \E rs \in SUBSET Requests : call' = [Excuse(rs) EXCEPT ![r] = NoCall]
        \/ End(r)
    <3>1. \A u : Of(u) \in SUBSET Requests
      BY DEF Of
    <3> QED BY <1>6, <3>1 DEF CommitReset, CommitUpdate, RemoveUser
  <2>2. CASE End(r)
    BY <2>2 DEF End, NoCall
  <2> QED BY <1>5, <2>1, <2>2
<1>7. CASE Aside
  <2>1. CASE RestartServer
    BY <2>1 DEF RestartServer, NoCall
  <2>2. CASE Signup \/ Pass \/ JobEnds \/ UNCHANGED accountVars
    BY <2>2 DEF Signup, Pass, JobEnds, accountVars
  <2> QED BY <1>7, <2>1, <2>2 DEF Aside
<1> QED BY <1>1, <1>2, <1>3, <1>4, <1>6, <1>7 DEF Unchecked, LetInOnly

LEMMA SteadySteps ==
  ASSUME AccountTypes,
         \/ \E r \in Requests : \/ Unchecked(r) \/ LetInOnly(r) \/ UpdateUser(r) \/ DeleteUser(r) \/ PurgeUser(r)
         \/ Aside
  PROVE  SteadyRows
<1> USE DEF SteadyRows
<1>1. CASE account' = account
  BY <1>1
<1>2. ASSUME NEW u \in AccountIds, NEW admin \in BOOLEAN, NEW n \in Nat,
             NextId(u), account' = [account EXCEPT ![u] = Row(admin, n)]
      PROVE  SteadyRows
  <2>1. Row(admin, n) \in AccountRow
    BY DEF Row, AccountRow
  <2>2. account[u] \notin AccountRow
    BY <1>2, NextIdIsFree, AccountsConstants DEF AccountRow
  <2> QED BY <1>2, <2>1, <2>2 DEF AccountTypes
<1>3. ASSUME NEW u \in AccountIds, NEW n \in Nat, AccountExists(u),
             account' = [account EXCEPT ![u].seen = n]
      PROVE  SteadyRows
  <2>1. account[u] \in AccountRow /\ account' = [account EXCEPT ![u] = [account[u] EXCEPT !.seen = n]]
    BY <1>3, RowExists
  <2> DEFINE e == [account[u] EXCEPT !.seen = n]
  <2>2. e \in AccountRow /\ e.admin = account[u].admin /\ e.disabled = account[u].disabled
        /\ e.isRoot = account[u].isRoot
    BY <2>1, SeenRow
  <2>3. account' = [account EXCEPT ![u] = e]
    BY <2>1
  <2> HIDE DEF e
  <2> QED BY <2>1, <2>2, <2>3 DEF AccountTypes
<1>4. ASSUME NEW r \in Requests, FinishLogin(r) PROVE SteadyRows
  <2>1. call[r].user \in AccountIds /\ call[r].now \in Nat
    BY <1>4, CallFields DEF FinishLogin, AccountTypes
  <2> QED BY <1>1, <1>3, <1>4, <2>1 DEF FinishLogin
<1>5. ASSUME NEW r \in Requests, TouchSeen(r) PROVE SteadyRows
  <2>1. call[r].token.user \in AccountIds /\ call[r].now \in Nat
    BY <1>5, CallFields DEF TouchSeen, AccountTypes, TokenSet
  <2> QED BY <1>1, <1>3, <1>5, <2>1 DEF TouchSeen
<1>6. CASE Signup
  BY <1>2, <1>6 DEF Signup, AccountTypes
<1>7. ASSUME NEW r \in Requests, CreateUser(r) PROVE SteadyRows
  BY <1>2, <1>7 DEF CreateUser, Never
<1>8. CASE Pass \/ JobEnds \/ RestartServer \/ UNCHANGED accountVars
  BY <1>1, <1>8 DEF Pass, JobEnds, RestartServer, accountVars
<1>9. ASSUME NEW r \in Requests, \/ Login(r) \/ CheckAccount(r) \/ CheckSession(r)
                                 \/ LeaveIdle(r) \/ SubmitJob(r) \/ ResetSessions(r) \/ CommitReset(r)
                                 \/ UpdateUser(r) \/ DeleteUser(r) \/ PurgeUser(r)
      PROVE  account' = account
  BY <1>9 DEF Login, CheckAccount, CheckSession, LeaveIdle, SubmitJob, ResetSessions, CommitReset,
              UpdateUser, DeleteUser, PurgeUser
<1> QED BY <1>1, <1>4, <1>5, <1>6, <1>7, <1>8, <1>9 DEF Unchecked, LetInOnly, Aside

\* How AccountsNext falls into the groups above.
LEMMA NextCases ==
  ASSUME [AccountsNext]_accountVars
  PROVE  \/ \E r \in Requests :
              \/ Unchecked(r) \/ LetInOnly(r) \/ UpdateUser(r) \/ CommitUpdate(r)
              \/ DeleteUser(r) \/ PurgeUser(r) \/ RemoveUser(r)
         \/ Aside
  BY DEF AccountsNext, Unchecked, LetInOnly, Aside

-----------------------------------------------------------------------------
(* The root account. *)

RootRow == ~renamed =>
    /\ account[RootAccount] \in AccountRow /\ account[RootAccount].isRoot
    /\ account[RootAccount].admin /\ ~account[RootAccount].disabled
UpdatesSpare == \A r \in Requests : call[r].pc = "update" =>
    /\ call[r].old.isRoot => call[r].new.admin /\ ~call[r].new.disabled
    /\ call[r].target = RootAccount /\ ~renamed => call[r].old.isRoot
DeletionsSpare == \A r \in Requests :
    call[r].pc \in {"purge", "remove"} /\ call[r].target = RootAccount => renamed
RootInv == RootRow /\ UpdatesSpare /\ DeletionsSpare

LEMMA RootStep == AccountTypes /\ RootInv /\ [AccountsNext]_accountVars => RootInv'
<1> SUFFICES ASSUME AccountTypes, RootInv, [AccountsNext]_accountVars PROVE RootInv'
  OBVIOUS
<1> RootAccount \in AccountIds
  BY RootIsId
<1>1. ASSUME QuietCalls, UNCHANGED renamed PROVE (UpdatesSpare /\ DeletionsSpare)'
  BY <1>1 DEF QuietCalls, RootInv, UpdatesSpare, DeletionsSpare
<1>2. ASSUME SteadyRows, UNCHANGED renamed PROVE RootRow'
  BY <1>2 DEF SteadyRows, RootInv, RootRow
<1>3. ASSUME NEW r \in Requests, Unchecked(r) \/ LetInOnly(r) PROVE RootInv'
  <2>1. UNCHANGED renamed
    BY <1>3 DEF Unchecked, LetInOnly, Login, FinishLogin, CheckAccount, CheckSession, TouchSeen,
                LeaveIdle, SubmitJob, ResetSessions, CommitReset, CreateUser
  <2> QED BY <1>1, <1>2, <1>3, <2>1, QuietSteps, SteadySteps DEF RootInv
<1>4. CASE Aside
  <2>1. UNCHANGED renamed
    BY <1>4 DEF Aside, Signup, Pass, JobEnds, RestartServer, accountVars
  <2> QED BY <1>1, <1>2, <1>4, <2>1, QuietSteps, SteadySteps DEF RootInv
<1>5. ASSUME NEW r \in Requests, UpdateUser(r) PROVE RootInv'
  <2>0. PICK u \in AccountIds : \E to :
          /\ AccountExists(u) /\ RootMay(u, to)
          /\ call' = [call EXCEPT ![r] = [pc |-> "update", target |-> u, old |-> account[u], new |-> to]]
    BY <1>5 DEF UpdateUser
  <2>1. PICK new :
          /\ AccountExists(u) /\ RootMay(u, new)
          /\ call' = [call EXCEPT ![r] = [pc |-> "update", target |-> u, old |-> account[u], new |-> new]]
    BY <2>0
  <2>2. UNCHANGED <<renamed, account>>
    BY <1>5 DEF UpdateUser
  <2>3. /\ call'[r] = [pc |-> "update", target |-> u, old |-> account[u], new |-> new]
        /\ \A q \in Requests \ {r} : call'[q] = call[q]
    BY <2>1 DEF AccountTypes
  <2>4. RootRow'
    BY <1>2, <1>5, <2>2, SteadySteps
  <2>5. UpdatesSpare'
    BY <2>1, <2>2, <2>3 DEF RootMay, RootInv, RootRow, UpdatesSpare
  <2>6. DeletionsSpare'
    BY <2>2, <2>3 DEF RootInv, DeletionsSpare
  <2> QED BY <2>4, <2>5, <2>6 DEF RootInv
<1>6. ASSUME NEW r \in Requests, CommitUpdate(r) PROVE RootInv'
  <2> DEFINE c == call[r]
  <2>0. c.pc = "update" /\ c.target \in AccountIds /\ c.old \in AccountRow /\ c.new \in AccountRow
    BY <1>6, CallFields DEF CommitUpdate, AccountTypes
  <2>1. renamed => renamed'
    BY <1>6 DEF CommitUpdate
  <2>2. QuietCalls
    BY <1>6, QuietSteps
  <2>3. (UpdatesSpare /\ DeletionsSpare)'
    BY <2>1, <2>2 DEF QuietCalls, RootInv, UpdatesSpare, DeletionsSpare
  <2>4. CASE account'[RootAccount] = account[RootAccount]
    BY <2>1, <2>3, <2>4 DEF RootInv, RootRow
  <2>5. CASE account'[RootAccount] # account[RootAccount]
    <3> DEFINE a == account[RootAccount]
               b == account'[RootAccount]
    <3>1. /\ c.target = RootAccount /\ a \in AccountRow /\ b \in AccountRow
          /\ b.admin = (IF c.new.admin = c.old.admin THEN a.admin ELSE c.new.admin)
          /\ b.disabled = (IF c.new.disabled = c.old.disabled THEN a.disabled ELSE c.new.disabled)
          /\ b.isRoot = (IF c.new.isRoot = c.old.isRoot THEN a.isRoot ELSE c.new.isRoot)
          /\ renamed' = (renamed \/ (c.old.isRoot /\ ~c.new.isRoot))
      BY <1>6, <2>5, UpdateEffect
    <3>2. ASSUME ~renamed' PROVE b.isRoot /\ b.admin /\ ~b.disabled
      <4>1. ~renamed /\ c.old.isRoot /\ c.new.isRoot
        BY <2>0, <3>1, <3>2 DEF RootInv, UpdatesSpare
      <4>2. c.new.admin /\ ~c.new.disabled /\ a.isRoot /\ a.admin /\ ~a.disabled
        BY <2>0, <4>1 DEF RootInv, UpdatesSpare, RootRow
      <4>3. /\ c.new.admin \in BOOLEAN /\ c.old.admin \in BOOLEAN /\ c.new.disabled \in BOOLEAN
            /\ c.old.disabled \in BOOLEAN /\ a.admin \in BOOLEAN /\ a.disabled \in BOOLEAN
        BY <2>0, <3>1 DEF AccountRow
      <4> HIDE DEF a, b, c
      <4> QED BY <3>1, <4>1, <4>2, <4>3
    <3> QED BY <2>3, <3>1, <3>2 DEF RootInv, RootRow
  <2> QED BY <2>4, <2>5
<1>7. ASSUME NEW r \in Requests, DeleteUser(r) PROVE RootInv'
  <2>1. PICK u \in AccountIds :
          /\ ~account[u].isRoot
          /\ call' = [call EXCEPT ![r] = [pc |-> "purge", target |-> u]]
    BY <1>7 DEF DeleteUser
  <2>2. UNCHANGED <<renamed, account>>
    BY <1>7 DEF DeleteUser
  <2>3. /\ call'[r] = [pc |-> "purge", target |-> u]
        /\ \A q \in Requests \ {r} : call'[q] = call[q]
    BY <2>1 DEF AccountTypes
  <2> QED BY <2>1, <2>2, <2>3 DEF RootInv, RootRow, UpdatesSpare, DeletionsSpare
<1>8. ASSUME NEW r \in Requests, PurgeUser(r) PROVE RootInv'
  <2>1. call'[r].pc = "remove" /\ call'[r].target = call[r].target
    BY <1>8, RemovingCall DEF PurgeUser, AccountTypes
  <2>2. UNCHANGED <<renamed, account>> /\ call[r].pc = "purge"
        /\ \A q \in Requests \ {r} : call'[q] = call[q]
    BY <1>8 DEF PurgeUser, AccountTypes
  <2> QED BY <2>1, <2>2 DEF RootInv, RootRow, UpdatesSpare, DeletionsSpare
<1>9. ASSUME NEW r \in Requests, RemoveUser(r) PROVE RootInv'
  <2>1. QuietCalls /\ UNCHANGED renamed
    BY <1>9, QuietSteps DEF RemoveUser
  <2>2. ~renamed => account'[RootAccount] = account[RootAccount]
    BY <1>9 DEF RemoveUser, AccountTypes, RootInv, DeletionsSpare
  <2> QED BY <1>1, <2>1, <2>2 DEF RootInv, RootRow
<1> QED BY <1>3, <1>4, <1>5, <1>6, <1>7, <1>8, <1>9, NextCases

\* update_user and delete_user protect the account by its name as they read it;
\* a rename is the only way around, and updates write the columns they change.
THEOREM RootStays == AccountsSpec => []RootRemains
<1>1. AccountsInit => RootInv
  <2> SUFFICES ASSUME AccountsInit PROVE RootInv
    OBVIOUS
  <2>1. account[RootAccount] = [Row(TRUE, Never) EXCEPT !.isRoot = TRUE]
    BY RootIsId DEF AccountsInit
  <2>2. /\ account[RootAccount] \in AccountRow /\ account[RootAccount].isRoot
        /\ account[RootAccount].admin /\ ~account[RootAccount].disabled
    <3>1. Row(TRUE, Never) \in AccountRow /\ Row(TRUE, Never).admin /\ ~Row(TRUE, Never).disabled
      BY DEF Row, AccountRow, Never
    <3>2. ASSUME NEW a \in AccountRow
          PROVE  LET e == [a EXCEPT !.isRoot = TRUE] IN
                 /\ e \in AccountRow /\ e.isRoot /\ e.admin = a.admin /\ e.disabled = a.disabled
      BY DEF AccountRow
    <3> QED BY <2>1, <3>1, <3>2
  <2> QED BY <2>2 DEF AccountsInit, NoCall, RootInv, RootRow, UpdatesSpare, DeletionsSpare
<1>2. AccountTypes /\ RootInv => RootRemains
  BY RowExists, RootIsId DEF RootInv, RootRow, RootRemains
<1> QED BY <1>1, <1>2, TypesInit, TypesStep, RootStep, PTL DEF AccountsSpec

-----------------------------------------------------------------------------
(* Deleted accounts. *)

RemovalsEmpty == \A r \in Requests :
    call[r].pc = "remove" /\ call[r].target \notin late => jobsOf[call[r].target] = "none"
LeftInv == NothingLeftBehind /\ RemovalsEmpty

LEMMA LeftStep == AccountTypes /\ LeftInv /\ [AccountsNext]_accountVars => LeftInv'
<1> SUFFICES ASSUME AccountTypes, LeftInv, [AccountsNext]_accountVars PROVE LeftInv'
  OBVIOUS
<1>0. NoAccount \notin AccountRow
  BY AccountsConstants DEF AccountRow
<1>1. ASSUME QuietCalls, SteadyRows, UNCHANGED <<jobsOf, late>> PROVE LeftInv'
  <2>1. NothingLeftBehind'
    BY <1>0, <1>1 DEF SteadyRows, LeftInv, NothingLeftBehind, AccountExists
  <2>2. RemovalsEmpty'
    BY <1>1 DEF QuietCalls, LeftInv, RemovalsEmpty
  <2> QED BY <2>1, <2>2 DEF LeftInv
<1>2. ASSUME NEW r \in Requests, Unchecked(r) \/ LetInOnly(r), ~SubmitJob(r) PROVE LeftInv'
  <2>1. UNCHANGED <<jobsOf, late>>
    BY <1>2 DEF Unchecked, LetInOnly, Login, FinishLogin, CheckAccount, CheckSession, TouchSeen,
                LeaveIdle, ResetSessions, CommitReset, CreateUser
  <2> QED BY <1>1, <1>2, <2>1, QuietSteps, SteadySteps
<1>3. ASSUME NEW r \in Requests, SubmitJob(r) PROVE LeftInv'
  <2> DEFINE u == call[r].user
  <2>1. /\ jobsOf' = [jobsOf EXCEPT ![u] = "active"] /\ account' = account
        /\ late' = IF ~AccountExists(u) \/ \E q \in Requests : call[q].pc \in {"purge", "remove"} /\ call[q].target = u
                   THEN late \cup {u} ELSE late
        /\ QuietCalls
    BY <1>3, QuietSteps DEF SubmitJob, LetInOnly
  <2>2. \A v \in AccountIds \ {u} : jobsOf'[v] = jobsOf[v]
    BY <2>1 DEF AccountTypes
  <2> HIDE DEF u
  <2>3. NothingLeftBehind'
    BY <2>1, <2>2 DEF LeftInv, NothingLeftBehind, AccountExists
  <2>4. RemovalsEmpty'
    <3> SUFFICES ASSUME NEW q \in Requests, call'[q].pc = "remove", call'[q].target \notin late'
                 PROVE  jobsOf'[call'[q].target] = "none"
      BY DEF RemovalsEmpty
    <3>1. call'[q] = call[q]
      BY <2>1 DEF QuietCalls
    <3>2. call[q].target \in AccountIds
      BY <3>1, CallFields DEF AccountTypes
    <3> QED BY <2>1, <2>2, <3>1, <3>2 DEF LeftInv, RemovalsEmpty
  <2> QED BY <2>3, <2>4 DEF LeftInv
<1>4. CASE JobEnds
  <2>1. PICK u \in AccountIds : jobsOf[u] = "active" /\ jobsOf' = [jobsOf EXCEPT ![u] = "done"]
    BY <1>4 DEF JobEnds
  <2>2. \A v \in AccountIds : jobsOf[v] = "none" => jobsOf'[v] = "none"
    BY <2>1 DEF AccountTypes
  <2>3. UNCHANGED <<account, call, late>>
    BY <1>4 DEF JobEnds
  <2>4. \A q \in Requests : call[q].pc = "remove" => call[q].target \in AccountIds
    BY CallFields DEF AccountTypes
  <2> QED BY <2>2, <2>3, <2>4 DEF LeftInv, NothingLeftBehind, RemovalsEmpty, AccountExists
<1>5. CASE Aside /\ ~JobEnds
  <2>1. UNCHANGED <<jobsOf, late>>
    BY <1>5 DEF Aside, Signup, Pass, RestartServer, accountVars
  <2> QED BY <1>1, <1>5, <2>1, QuietSteps, SteadySteps
<1>6. ASSUME NEW r \in Requests, UpdateUser(r) \/ DeleteUser(r) PROVE LeftInv'
  <2>1. UNCHANGED <<jobsOf, late, account>>
    BY <1>6 DEF UpdateUser, DeleteUser
  <2>2. \A q \in Requests : call'[q] = call[q] \/ call'[q].pc # "remove"
    <3>1. PICK u, old, new :
            \/ call' = [call EXCEPT ![r] = [pc |-> "update", target |-> u, old |-> old, new |-> new]]
            \/ call' = [call EXCEPT ![r] = [pc |-> "purge", target |-> u]]
      BY <1>6 DEF UpdateUser, DeleteUser
    <3> QED BY <3>1 DEF AccountTypes
  <2> QED BY <2>1, <2>2 DEF LeftInv, NothingLeftBehind, RemovalsEmpty, AccountExists
<1>7. ASSUME NEW r \in Requests, CommitUpdate(r) PROVE LeftInv'
  <2>1. UNCHANGED <<jobsOf, late>> /\ QuietCalls
    BY <1>7, QuietSteps DEF CommitUpdate
  <2>2. \A u \in AccountIds : account'[u] = NoAccount => account[u] = NoAccount
    BY <1>0, <1>7, UpdateEffect
  <2> QED BY <2>1, <2>2 DEF LeftInv, NothingLeftBehind, RemovalsEmpty, QuietCalls, AccountExists
<1>8. ASSUME NEW r \in Requests, PurgeUser(r) PROVE LeftInv'
  <2> DEFINE u == call[r].target
  <2>1. /\ account' = account /\ late' = late \ {u} /\ jobsOf' = [jobsOf EXCEPT ![u] = "none"]
        /\ \A q \in Requests \ {r} : call'[q] = call[q]
    BY <1>8 DEF PurgeUser, AccountTypes
  <2>2. call'[r].target = u /\ u \in AccountIds
    BY <1>8, RemovingCall, CallFields DEF PurgeUser, AccountTypes
  <2>3. jobsOf'[u] = "none" /\ \A v \in AccountIds : jobsOf[v] = "none" => jobsOf'[v] = "none"
    BY <2>1, <2>2 DEF AccountTypes
  <2>4. \A q \in Requests : call[q].pc = "remove" => call[q].target \in AccountIds
    BY CallFields DEF AccountTypes
  <2> HIDE DEF u
  <2>5. NothingLeftBehind'
    BY <2>1, <2>2, <2>3 DEF LeftInv, NothingLeftBehind, AccountExists
  <2>6. RemovalsEmpty'
    BY <2>1, <2>2, <2>3, <2>4 DEF LeftInv, RemovalsEmpty
  <2> QED BY <2>5, <2>6 DEF LeftInv
<1>9. ASSUME NEW r \in Requests, RemoveUser(r) PROVE LeftInv'
  <2>1. UNCHANGED <<jobsOf, late>> /\ QuietCalls
    BY <1>9, QuietSteps DEF RemoveUser
  <2>2. \A u \in AccountIds : account'[u] = NoAccount => account[u] = NoAccount \/ u = call[r].target
    BY <1>9 DEF RemoveUser, AccountTypes
  <2>3. call[r].target \notin late => jobsOf[call[r].target] = "none"
    BY <1>9 DEF RemoveUser, LeftInv, RemovalsEmpty
  <2> QED BY <2>1, <2>2, <2>3 DEF LeftInv, NothingLeftBehind, RemovalsEmpty, QuietCalls, AccountExists
<1> QED BY <1>2, <1>3, <1>4, <1>5, <1>6, <1>7, <1>8, <1>9, NextCases DEF LetInOnly

\* delete_user removes the jobs in one commit and the account in the next: what
\* is left was submitted while that went on.
THEOREM DeletionIsComplete == AccountsSpec => []NothingLeftBehind
<1>1. AccountsInit => LeftInv
  BY DEF AccountsInit, NoCall, LeftInv, NothingLeftBehind, RemovalsEmpty
<1>2. LeftInv => NothingLeftBehind
  BY DEF LeftInv
<1> QED BY <1>1, <1>2, TypesInit, TypesStep, LeftStep, PTL DEF AccountsSpec

-----------------------------------------------------------------------------
(* Sessions. *)

SeenIsUse == /\ \A u \in AccountIds : lastUse[u] <= clock
             /\ \A u \in AccountIds : account[u] \in AccountRow => account[u].seen <= lastUse[u]
CallsTimely == \A r \in Requests : call[r].pc \in {"login", "touch"} => call[r].now <= clock
UpdatesKeepSeen == \A r \in Requests : call[r].pc = "update" => call[r].new.seen = call[r].old.seen
Enabled(a) == a \in AccountRow /\ ~a.disabled
PrefsSound == \A r \in Requests : call[r].pc = "prefs" /\ ~call[r].excused =>
    Enabled(account[call[r].token.user]) /\ call[r].seen <= lastUse[call[r].token.user]
TouchSound == \A r \in Requests : call[r].pc = "touch" /\ ~call[r].excused =>
    /\ call[r].token.born > notBefore /\ Enabled(account[call[r].token.user])
    /\ call[r].seen = Never \/ call[r].now <= lastUse[call[r].token.user] + Timeout
SessionInv == SeenIsUse /\ CallsTimely /\ UpdatesKeepSeen /\ PrefsSound /\ TouchSound

\* A token of a later second is younger.
LEMMA LaterSecond ==
  ASSUME NEW s \in Nat, NEW t \in Nat, Seconds(s) > Seconds(t)
  PROVE  s > t
<1>1. s <= t => s \div TicksPerSecond <= t \div TicksPerSecond
  BY AccountsConstants
<1>2. s \div TicksPerSecond \in Nat /\ t \div TicksPerSecond \in Nat
  BY AccountsConstants
<1> QED BY <1>1, <1>2 DEF Seconds

\* How a request that is not excused may look after a step that begins none.
Calm(q) ==
    \/ call'[q] = call[q]
    \/ call'[q].pc \in {"idle", "in", "reset", "purge", "remove"}
    \/ /\ call'[q].pc = call[q].pc /\ call[q].pc \in {"prefs", "touch"} /\ call'[q].excused = TRUE
       /\ call[q].pc = "touch" => call'[q].now = call[q].now /\ call'[q].seen = call[q].seen

SoundNext(q) ==
    /\ call'[q].pc \in {"login", "touch"} => call'[q].now <= clock'
    /\ call'[q].pc = "update" => call'[q].new.seen = call'[q].old.seen
    /\ call'[q].pc = "prefs" /\ ~call'[q].excused =>
         Enabled(account'[call'[q].token.user]) /\ call'[q].seen <= lastUse'[call'[q].token.user]
    /\ call'[q].pc = "touch" /\ ~call'[q].excused =>
         /\ call'[q].token.born > notBefore' /\ Enabled(account'[call'[q].token.user])
         /\ call'[q].seen = Never \/ call'[q].now <= lastUse'[call'[q].token.user] + Timeout

\* Time and use only advance, and what was enabled remains so for the requests
\* that are not excused.
LEMMA SessionKept ==
  ASSUME AccountTypes, AccountTypes', SessionInv,
         \A u \in AccountIds : lastUse[u] <= lastUse'[u],
         clock <= clock',
         NEW q \in Requests, Calm(q),
         call'[q] = call[q] /\ call[q].pc \in {"prefs", "touch"} /\ ~call[q].excused =>
            /\ notBefore' = notBefore
            /\ Enabled(account[call[q].token.user]) => Enabled(account'[call[q].token.user])
  PROVE  SoundNext(q)
<1>0. q \in Requests /\ call[q] \in Calls /\ clock \in Nat /\ clock' \in Nat
  BY DEF AccountTypes
<1>1. call[q].pc \in {"login", "touch"} => call[q].now \in Nat /\ call[q].now <= clock
  BY <1>0, CallFields DEF SessionInv, CallsTimely
<1>2. CASE call'[q] = call[q]
  <2>1. call[q].pc \in {"login", "touch"} => call[q].now <= clock'
    BY <1>0, <1>1
  <2>2. call[q].pc = "update" => call[q].new.seen = call[q].old.seen
    BY <1>0 DEF SessionInv, UpdatesKeepSeen
  <2>3. ASSUME call[q].pc = "prefs", ~call[q].excused
        PROVE  Enabled(account'[call[q].token.user]) /\ call[q].seen <= lastUse'[call[q].token.user]
    <3>1. call[q].token.user \in AccountIds /\ call[q].seen \in Nat
      BY <1>0, <2>3, CallFields DEF TokenSet
    <3>2. Enabled(account[call[q].token.user]) /\ call[q].seen <= lastUse[call[q].token.user]
      BY <1>0, <2>3 DEF SessionInv, PrefsSound
    <3>3. lastUse[call[q].token.user] \in Nat /\ lastUse'[call[q].token.user] \in Nat
      BY <3>1 DEF AccountTypes
    <3>4. lastUse[call[q].token.user] <= lastUse'[call[q].token.user]
      BY <3>1
    <3> QED BY <1>2, <2>3, <3>1, <3>2, <3>3, <3>4
  <2>4. ASSUME call[q].pc = "touch", ~call[q].excused
        PROVE  /\ call[q].token.born > notBefore' /\ Enabled(account'[call[q].token.user])
               /\ call[q].seen = Never \/ call[q].now <= lastUse'[call[q].token.user] + Timeout
    <3>1. call[q].token.user \in AccountIds /\ call[q].now \in Nat
      BY <1>0, <2>4, CallFields DEF TokenSet
    <3>2. /\ call[q].token.born > notBefore /\ Enabled(account[call[q].token.user])
          /\ call[q].seen = Never \/ call[q].now <= lastUse[call[q].token.user] + Timeout
      BY <1>0, <2>4 DEF SessionInv, TouchSound
    <3>3. /\ lastUse[call[q].token.user] \in Nat /\ lastUse'[call[q].token.user] \in Nat /\ Timeout \in Nat
      BY <3>1, AccountsConstants DEF AccountTypes
    <3>4. lastUse[call[q].token.user] <= lastUse'[call[q].token.user]
      BY <3>1
    <3>5. call[q].seen = Never \/ call[q].now <= lastUse'[call[q].token.user] + Timeout
      BY <3>1, <3>2, <3>3, <3>4
    <3> QED BY <1>2, <2>4, <3>2, <3>5
  <2> QED BY <1>2, <2>1, <2>2, <2>3, <2>4 DEF SoundNext
<1>3. CASE call'[q].pc \in {"idle", "in", "reset", "purge", "remove"}
  BY <1>3 DEF SoundNext
<1>4. CASE /\ call'[q].pc = call[q].pc /\ call[q].pc \in {"prefs", "touch"} /\ call'[q].excused = TRUE
           /\ call[q].pc = "touch" => call'[q].now = call[q].now /\ call'[q].seen = call[q].seen
  BY <1>0, <1>1, <1>4 DEF SoundNext
<1> QED BY <1>2, <1>3, <1>4 DEF Calm

LEMMA SessionJoin ==
  ASSUME SeenIsUse', \A q \in Requests : SoundNext(q)
  PROVE  SessionInv'
  BY DEF SessionInv, SoundNext, CallsTimely, UpdatesKeepSeen, PrefsSound, TouchSound

\* The time of the last use bounds the one that is written.
LEMMA UseAdvances ==
  ASSUME AccountTypes, AccountTypes', SeenIsUse, clock <= clock',
         \/ lastUse' = lastUse
         \/ \E v \in AccountIds : lastUse' = [lastUse EXCEPT ![v] = clock],
         \A u \in AccountIds : account'[u] \in AccountRow =>
            \/ account[u] \in AccountRow /\ account'[u].seen = account[u].seen
            \/ account'[u].seen <= lastUse'[u]
  PROVE  SeenIsUse' /\ \A u \in AccountIds : lastUse[u] <= lastUse'[u]
<1>1. \A u \in AccountIds : /\ lastUse[u] \in Nat /\ lastUse'[u] \in Nat /\ lastUse[u] <= clock
                            /\ lastUse'[u] = lastUse[u] \/ lastUse'[u] = clock
  BY DEF AccountTypes, SeenIsUse
<1>2. clock \in Nat /\ clock' \in Nat
  BY DEF AccountTypes
<1>3. \A u \in AccountIds : lastUse[u] <= lastUse'[u] /\ lastUse'[u] <= clock'
  BY <1>1, <1>2
<1>4. \A u \in AccountIds : account'[u] \in AccountRow => account'[u].seen <= lastUse'[u]
  <2> SUFFICES ASSUME NEW u \in AccountIds, account'[u] \in AccountRow
               PROVE  account'[u].seen <= lastUse'[u]
    OBVIOUS
  <2>1. account'[u].seen \in Nat
    BY DEF AccountRow
  <2>2. CASE account[u] \in AccountRow /\ account'[u].seen = account[u].seen
    BY <1>1, <1>3, <2>1, <2>2 DEF SeenIsUse
  <2> QED BY <2>2
<1> QED BY <1>3, <1>4 DEF SeenIsUse

\* What is enabled remains so where rows are steady.
LEMMA EnabledKept ==
  ASSUME AccountTypes, SteadyRows, NEW q \in Requests, call[q].pc \in {"prefs", "touch"}
  PROVE  Enabled(account[call[q].token.user]) => Enabled(account'[call[q].token.user])
<1>1. call[q].token.user \in AccountIds
  BY CallFields DEF AccountTypes, TokenSet
<1> QED BY <1>1 DEF SteadyRows, Enabled

\* A step that takes no right away.
LEMMA SteadySession ==
  ASSUME AccountTypes, AccountTypes', SessionInv, SteadyRows, notBefore' = notBefore, clock <= clock',
         \/ lastUse' = lastUse
         \/ \E v \in AccountIds : lastUse' = [lastUse EXCEPT ![v] = clock],
         \A u \in AccountIds : account'[u] \in AccountRow =>
            \/ account[u] \in AccountRow /\ account'[u].seen = account[u].seen
            \/ account'[u].seen <= lastUse'[u],
         \A q \in Requests : Calm(q) \/ SoundNext(q)
  PROVE  SessionInv'
<1>1. SeenIsUse' /\ \A u \in AccountIds : lastUse[u] <= lastUse'[u]
  BY UseAdvances DEF SessionInv
<1>2. \A q \in Requests : SoundNext(q)
  <2> SUFFICES ASSUME NEW q \in Requests, Calm(q) PROVE SoundNext(q)
    OBVIOUS
  <2>1. call[q].pc \in {"prefs", "touch"} =>
          (Enabled(account[call[q].token.user]) => Enabled(account'[call[q].token.user]))
    BY EnabledKept
  <2> QED BY <1>1, <2>1, SessionKept
<1> QED BY <1>1, <1>2, SessionJoin

\* A step that takes rights away excuses the requests it bears on.
LEMMA ExcusingSession ==
  ASSUME AccountTypes, AccountTypes', SessionInv, clock' = clock, lastUse' = lastUse,
         NEW r \in Requests, NEW rs \in SUBSET Requests, call' = [Excuse(rs) EXCEPT ![r] = NoCall],
         \A u \in AccountIds : account'[u] \in AccountRow =>
            account[u] \in AccountRow /\ account'[u].seen = account[u].seen,
         \A q \in Requests \ rs : call[q].pc \in {"prefs", "touch"} =>
            /\ notBefore' = notBefore
            /\ Enabled(account[call[q].token.user]) => Enabled(account'[call[q].token.user])
  PROVE  SessionInv'
<1>0. clock \in Nat /\ \A u \in AccountIds : lastUse[u] \in Nat
  BY DEF AccountTypes
<1>1. SeenIsUse'
  BY DEF SessionInv, SeenIsUse
<1>2. ASSUME NEW q \in Requests PROVE SoundNext(q)
  <2>1. CASE q = r
    <3>1. call'[q].pc = "idle"
      BY <2>1, ExcuseIsTyped DEF NoCall
    <3> QED BY <3>1 DEF SoundNext
  <2>2. CASE q # r
    <3>1. call'[q] = Excuse(rs)[q]
      BY <2>2, ExcuseIsTyped
    <3>2. Calm(q)
      <4>1. \/ call'[q] = call[q]
            \/ /\ call'[q].pc = call[q].pc /\ call[q].pc \in {"prefs", "touch"} /\ call'[q].excused = TRUE
               /\ call[q].pc = "touch" => call'[q].now = call[q].now /\ call'[q].seen = call[q].seen
        BY <3>1, ExcuseIsTyped
      <4> QED BY <4>1 DEF Calm
    <3>4. call'[q] = call[q] /\ call[q].pc \in {"prefs", "touch"} /\ ~call[q].excused => q \notin rs
      <4>1. \/ q \in rs => call[q].pc \notin {"prefs", "touch"}
            \/ call'[q].excused = TRUE
        BY <3>1, ExcuseIsTyped
      <4> QED BY <4>1
    <3>3. clock <= clock' /\ \A u \in AccountIds : lastUse[u] <= lastUse'[u]
      BY <1>0
    <3> QED BY <3>2, <3>3, <3>4, SessionKept
  <2> QED BY <2>1, <2>2
<1> QED BY <1>1, <1>2, SessionJoin

\* The steps that read what a later one relies on.
LEMMA ReadingSession ==
  ASSUME AccountTypes, SessionInv, NEW r \in Requests,
         Login(r) \/ CheckAccount(r) \/ CheckSession(r) \/ UpdateUser(r)
  PROVE  SoundNext(r) \/ Calm(r)
<1>0. clock \in Nat
  BY DEF AccountTypes
<1>1. CASE Login(r)
  <2>1. PICK u \in AccountIds : call' = [call EXCEPT ![r] = [pc |-> "login", user |-> u, now |-> clock]]
    BY <1>1 DEF Login, Start
  <2>2. call'[r] = [pc |-> "login", user |-> u, now |-> clock] /\ clock' = clock
    BY <1>1, <2>1 DEF Login, AccountTypes
  <2> QED BY <1>0, <2>2 DEF SoundNext
<1>2. CASE CheckAccount(r)
  <2>1. PICK t \in tokens :
          /\ AccountExists(t.user) /\ ~account[t.user].disabled
          /\ call' = [call EXCEPT ![r] = [pc |-> "prefs", token |-> t, admin |-> account[t.user].admin,
                                          seen |-> account[t.user].seen, excused |-> FALSE]]
    BY <1>2 DEF CheckAccount, Start
  <2>2. /\ call'[r] = [pc |-> "prefs", token |-> t, admin |-> account[t.user].admin,
                        seen |-> account[t.user].seen, excused |-> FALSE]
        /\ UNCHANGED <<account, lastUse>>
    BY <1>2, <2>1 DEF CheckAccount, AccountTypes
  <2>3. t.user \in AccountIds
    BY DEF AccountTypes, TokenSet
  <2>4. account[t.user] \in AccountRow
    BY <2>1, <2>3, RowExists
  <2>5. account[t.user].seen <= lastUse[t.user]
    BY <2>3, <2>4 DEF SessionInv, SeenIsUse
  <2> QED BY <2>1, <2>2, <2>4, <2>5 DEF SoundNext, Enabled
<1>3. CASE CheckSession(r)
  <2> DEFINE c == call[r]
  <2>1. /\ c.pc = "prefs" /\ c.token \in TokenSet /\ c.seen \in Nat /\ c.excused \in BOOLEAN
        /\ UNCHANGED <<account, notBefore, clock>>
    BY <1>3, CallFields DEF CheckSession, AccountTypes
  <2>2. CASE call'[r].pc # "touch"
    BY <1>3, <2>2 DEF CheckSession, Calm, End, NoCall, AccountTypes
  <2>3. CASE call'[r].pc = "touch"
    <3>1. /\ ~Revoked(c.token) /\ ~TimedOut(c.seen) /\ lastUse' = lastUse
          /\ call'[r] = [pc |-> "touch", token |-> c.token, admin |-> c.admin, seen |-> c.seen,
                          now |-> clock, excused |-> c.excused]
      BY <1>3, <2>3 DEF CheckSession, End, NoCall, AccountTypes
    <3>2. c.token.user \in AccountIds /\ c.token.born \in Nat /\ notBefore \in Nat
      BY <2>1 DEF TokenSet, AccountTypes
    <3>3. Seconds(c.token.born) \in Nat /\ Seconds(notBefore) \in Nat
      BY <3>2, AccountsConstants DEF Seconds
    <3>4. c.token.born > notBefore
      BY <3>1, <3>2, <3>3, LaterSecond DEF Revoked
    <3>5. ASSUME ~c.excused
          PROVE  /\ Enabled(account[c.token.user])
                 /\ c.seen = Never \/ clock <= lastUse[c.token.user] + Timeout
      <4>1. Enabled(account[c.token.user]) /\ c.seen <= lastUse[c.token.user]
        BY <2>1, <3>5 DEF SessionInv, PrefsSound
      <4>2. lastUse[c.token.user] \in Nat /\ Timeout \in Nat
        BY <3>2, AccountsConstants DEF AccountTypes
      <4>3. c.seen = Never \/ clock - c.seen <= Timeout
        BY <1>0, <2>1, <3>1, <4>2 DEF TimedOut
      <4> HIDE DEF c
      <4> QED BY <1>0, <2>1, <4>1, <4>2, <4>3
    <3>6. clock <= clock'
      BY <1>0, <2>1
    <3> QED BY <2>1, <3>1, <3>4, <3>5, <3>6 DEF SoundNext
  <2> QED BY <2>2, <2>3
<1>4. CASE UpdateUser(r)
  <2>1. PICK u \in AccountIds, admin \in BOOLEAN, disabled \in BOOLEAN, rename \in BOOLEAN :
          /\ AccountExists(u)
          /\ LET new == [account[u] EXCEPT !.admin = admin, !.disabled = disabled,
                                           !.isRoot = @ /\ ~rename] IN
             call' = [call EXCEPT ![r] = [pc |-> "update", target |-> u, old |-> account[u], new |-> new]]
    BY <1>4 DEF UpdateUser
  <2> DEFINE new == [account[u] EXCEPT !.admin = admin, !.disabled = disabled, !.isRoot = @ /\ ~rename]
  <2>2. new.seen = account[u].seen
    BY <2>1, RowExists, UpdatedRow
  <2>3. call' = [call EXCEPT ![r] = [pc |-> "update", target |-> u, old |-> account[u], new |-> new]]
    BY <2>1
  <2> HIDE DEF new
  <2>4. call'[r] = [pc |-> "update", target |-> u, old |-> account[u], new |-> new]
    BY <2>3 DEF AccountTypes
  <2> QED BY <2>2, <2>4 DEF SoundNext
<1> QED BY <1>1, <1>2, <1>3, <1>4

LEMMA SessionStep ==
  ASSUME AccountTypes, AccountTypes', SessionInv, [AccountsNext]_accountVars
  PROVE  SessionInv'
<1>0. /\ clock \in Nat /\ \A u \in AccountIds : lastUse[u] \in Nat /\ lastUse[u] <= clock
      /\ NoAccount \notin AccountRow
  BY AccountsConstants DEF AccountTypes, AccountRow, SessionInv, SeenIsUse
<1>1. ASSUME NEW r \in Requests, account' = account, notBefore' = notBefore, clock' = clock,
             \/ lastUse' = lastUse
             \/ \E v \in AccountIds : lastUse' = [lastUse EXCEPT ![v] = clock],
             \A q \in Requests \ {r} : call'[q] = call[q],
             SoundNext(r) \/ Calm(r)
      PROVE  SessionInv'
  <2>1. \A q \in Requests : Calm(q) \/ SoundNext(q)
    BY <1>1 DEF Calm
  <2>2. SteadyRows /\ clock <= clock'
    BY <1>0, <1>1 DEF SteadyRows
  <2> QED BY <1>1, <2>1, <2>2, SteadySession
<1>2. ASSUME NEW r \in Requests, Login(r) \/ CheckAccount(r) \/ CheckSession(r) \/ UpdateUser(r)
      PROVE  SessionInv'
  <2>1. /\ UNCHANGED <<account, notBefore, clock>>
        /\ \A q \in Requests \ {r} : call'[q] = call[q]
    BY <1>2 DEF Login, CheckAccount, Start, CheckSession, End, UpdateUser, AccountTypes
  <2>2. \/ lastUse' = lastUse
        \/ \E v \in AccountIds : lastUse' = [lastUse EXCEPT ![v] = clock]
    <3>1. CASE CheckSession(r)
      <4>1. call[r].token.user \in AccountIds
        BY <3>1, CallFields DEF CheckSession, AccountTypes, TokenSet
      <4> QED BY <3>1, <4>1 DEF CheckSession
    <3>2. CASE Login(r) \/ CheckAccount(r) \/ UpdateUser(r)
      BY <3>2 DEF Login, CheckAccount, UpdateUser
    <3> QED BY <1>2, <3>1, <3>2
  <2> QED BY <1>1, <1>2, <2>1, <2>2, ReadingSession
<1>3. ASSUME NEW r \in Requests, LeaveIdle(r) \/ SubmitJob(r) \/ ResetSessions(r) \/ DeleteUser(r)
      PROVE  SessionInv'
  <2>1. /\ UNCHANGED <<account, notBefore, clock, lastUse>>
        /\ \A q \in Requests \ {r} : call'[q] = call[q]
    BY <1>3 DEF LeaveIdle, SubmitJob, End, ResetSessions, DeleteUser, AccountTypes
  <2>2. Calm(r)
    BY <1>3 DEF LeaveIdle, SubmitJob, End, NoCall, ResetSessions, DeleteUser, Calm, AccountTypes
  <2> QED BY <1>1, <2>1, <2>2
<1>4. ASSUME NEW r \in Requests, PurgeUser(r) PROVE SessionInv'
  <2>1. /\ UNCHANGED <<account, notBefore, clock, lastUse>>
        /\ \A q \in Requests \ {r} : call'[q] = call[q]
    BY <1>4 DEF PurgeUser, AccountTypes
  <2>2. Calm(r)
    BY <1>4, RemovingCall DEF PurgeUser, Calm, AccountTypes
  <2> QED BY <1>1, <2>1, <2>2
<1>5. ASSUME NEW r \in Requests, NEW u \in AccountIds, NEW n \in Nat, n <= clock, AccountExists(u),
             account' = [account EXCEPT ![u].seen = n], lastUse' = [lastUse EXCEPT ![u] = clock],
             notBefore' = notBefore, clock' = clock, SteadyRows,
             \A q \in Requests : Calm(q)
      PROVE  SessionInv'
  <2>1. account[u] \in AccountRow
    BY <1>5, RowExists
  <2>2. account'[u].seen = n /\ \A v \in AccountIds \ {u} : account'[v] = account[v]
    <3> DEFINE e == [account[u] EXCEPT !.seen = n]
    <3>1. e.seen = n /\ account' = [account EXCEPT ![u] = e]
      BY <1>5, <2>1, SeenRow
    <3> HIDE DEF e
    <3> QED BY <3>1 DEF AccountTypes
  <2>3. lastUse'[u] = clock /\ clock <= clock'
    BY <1>0, <1>5 DEF AccountTypes
  <2>4. \A v \in AccountIds : account'[v] \in AccountRow =>
           \/ account[v] \in AccountRow /\ account'[v].seen = account[v].seen
           \/ account'[v].seen <= lastUse'[v]
    BY <1>5, <2>2, <2>3
  <2> QED BY <1>5, <2>3, <2>4, SteadySession
<1>6. ASSUME NEW r \in Requests, FinishLogin(r) PROVE SessionInv'
  <2>1. call[r].user \in AccountIds /\ call[r].now \in Nat /\ call[r].now <= clock
    BY <1>6, CallFields DEF FinishLogin, AccountTypes, SessionInv, CallsTimely
  <2>2. SteadyRows /\ \A q \in Requests : Calm(q)
    BY <1>6, SteadySteps DEF FinishLogin, Unchecked, End, NoCall, Calm, AccountTypes
  <2>3. UNCHANGED <<notBefore, clock>> /\ clock <= clock'
    BY <1>0, <1>6 DEF FinishLogin
  <2>4. CASE AccountExists(call[r].user)
    BY <1>5, <1>6, <2>1, <2>2, <2>3, <2>4 DEF FinishLogin
  <2>5. CASE ~AccountExists(call[r].user)
    BY <1>6, <2>2, <2>3, <2>5, SteadySession DEF FinishLogin
  <2> QED BY <2>4, <2>5
<1>7. ASSUME NEW r \in Requests, TouchSeen(r) PROVE SessionInv'
  <2>1. call[r].token.user \in AccountIds /\ call[r].now \in Nat /\ call[r].now <= clock
    BY <1>7, CallFields DEF TouchSeen, AccountTypes, TokenSet, SessionInv, CallsTimely
  <2>2. SteadyRows /\ \A q \in Requests : Calm(q)
    <3>1. \/ call' = [call EXCEPT ![r] = [pc |-> "in", user |-> call[r].token.user, admin |-> call[r].admin]]
          \/ call' = [call EXCEPT ![r] = NoCall]
      BY <1>7 DEF TouchSeen, End
    <3>2. \A q \in Requests : Calm(q)
      BY <3>1 DEF NoCall, Calm, AccountTypes
    <3> QED BY <1>7, <3>2, SteadySteps DEF Unchecked
  <2>3. UNCHANGED <<notBefore, clock>> /\ clock <= clock'
    BY <1>0, <1>7 DEF TouchSeen
  <2>4. CASE AccountExists(call[r].token.user)
    BY <1>5, <1>7, <2>1, <2>2, <2>3, <2>4 DEF TouchSeen
  <2>5. CASE ~AccountExists(call[r].token.user)
    BY <1>7, <2>2, <2>3, <2>5, SteadySession DEF TouchSeen
  <2> QED BY <2>4, <2>5
<1>8. ASSUME NEW u \in AccountIds, NEW admin \in BOOLEAN, NEW n \in Nat,
             account' = [account EXCEPT ![u] = Row(admin, n)],
             \/ n = 0 /\ lastUse' = lastUse
             \/ n = clock /\ lastUse' = [lastUse EXCEPT ![u] = clock],
             UNCHANGED <<notBefore, clock>>, SteadyRows, \A q \in Requests : Calm(q)
      PROVE  SessionInv'
  <2>1. clock <= clock'
    BY <1>0, <1>8
  <2>2. account'[u].seen = n /\ \A v \in AccountIds \ {u} : account'[v] = account[v]
    BY <1>8, <2>1 DEF Row, AccountTypes
  <2>3. n <= lastUse'[u]
    BY <1>0, <1>8, <2>1 DEF AccountTypes
  <2>4. \A v \in AccountIds : account'[v] \in AccountRow =>
           \/ account[v] \in AccountRow /\ account'[v].seen = account[v].seen
           \/ account'[v].seen <= lastUse'[v]
    BY <2>2, <2>3
  <2>5. \/ lastUse' = lastUse
        \/ \E v \in AccountIds : lastUse' = [lastUse EXCEPT ![v] = clock]
    BY <1>8, <2>1
  <2> QED BY <1>8, <2>1, <2>4, <2>5, SteadySession
<1>9. ASSUME NEW r \in Requests, CreateUser(r) PROVE SessionInv'
  <2>1. SteadyRows /\ \A q \in Requests : Calm(q)
    BY <1>9, SteadySteps DEF CreateUser, LetInOnly, End, NoCall, Calm, AccountTypes
  <2> QED BY <1>8, <1>9, <2>1 DEF CreateUser, Never
<1>10. CASE Signup
  <2>1. SteadyRows /\ \A q \in Requests : Calm(q)
    BY <1>10, SteadySteps DEF Signup, Aside, Calm
  <2>2. PICK u \in AccountIds : /\ account' = [account EXCEPT ![u] = Row(FALSE, clock)]
                                /\ lastUse' = [lastUse EXCEPT ![u] = clock]
    BY <1>10 DEF Signup
  <2>3. UNCHANGED <<notBefore, clock>>
    BY <1>10 DEF Signup
  <2> QED BY <1>0, <1>8, <2>1, <2>2, <2>3
<1>11. ASSUME NEW r \in Requests, CommitReset(r) PROVE SessionInv'
  <2>1. UNCHANGED <<account, clock, lastUse>> /\ call' = [Excuse(Requests) EXCEPT ![r] = NoCall]
    BY <1>11 DEF CommitReset
  <2> QED BY <2>1, ExcusingSession
<1>12. ASSUME NEW r \in Requests, CommitUpdate(r) PROVE SessionInv'
  <2> DEFINE c == call[r]
  <2>1. UNCHANGED <<clock, lastUse, notBefore>>
    BY <1>12 DEF CommitUpdate
  <2>2. CASE ~AccountExists(c.target)
    <3>1. account' = account /\ \A q \in Requests : Calm(q)
      BY <1>12, <2>2, UpdateEffect DEF CommitUpdate, End, NoCall, Calm, AccountTypes
    <3>2. SteadyRows /\ clock <= clock'
      BY <1>0, <2>1, <3>1 DEF SteadyRows
    <3> QED BY <2>1, <3>1, <3>2, SteadySession
  <2>3. CASE AccountExists(c.target)
    <3>1. /\ call' = [Excuse(Of(c.target)) EXCEPT ![r] = NoCall]
          /\ Of(c.target) \in SUBSET Requests
      BY <1>12, <2>3 DEF CommitUpdate, Of
    <3>2. c.new.seen = c.old.seen
      BY <1>12 DEF CommitUpdate, SessionInv, UpdatesKeepSeen
    <3>3. account[c.target] \in AccountRow /\ account'[c.target].seen = account[c.target].seen
      BY <1>12, <2>3, <3>2, UpdateEffect, RowExists
    <3>4. \A u \in AccountIds \ {c.target} : account'[u] = account[u]
      BY <1>12, UpdateEffect
    <3>5. \A u \in AccountIds : account'[u] \in AccountRow =>
            account[u] \in AccountRow /\ account'[u].seen = account[u].seen
      BY <3>3, <3>4
    <3>6. \A q \in Requests \ Of(c.target) : call[q].pc \in {"prefs", "touch"} =>
            account'[call[q].token.user] = account[call[q].token.user]
      <4>1. \A q \in Requests : call[q].pc \in {"prefs", "touch"} => call[q].token.user \in AccountIds
        BY CallFields DEF AccountTypes, TokenSet
      <4> QED BY <3>4, <4>1 DEF Of
    <3> HIDE DEF c
    <3> QED BY <2>1, <3>1, <3>5, <3>6, ExcusingSession
  <2> QED BY <2>2, <2>3
<1>13. ASSUME NEW r \in Requests, RemoveUser(r) PROVE SessionInv'
  <2> DEFINE t == call[r].target
  <2>1. /\ UNCHANGED <<clock, lastUse, notBefore>>
        /\ account' = [account EXCEPT ![t] = NoAccount]
        /\ call' = [Excuse(Of(t)) EXCEPT ![r] = NoCall] /\ Of(t) \in SUBSET Requests
    BY <1>13 DEF RemoveUser, Of
  <2>2. \A u \in AccountIds \ {t} : account'[u] = account[u]
    BY <2>1 DEF AccountTypes
  <2>3. \A u \in AccountIds : account'[u] \in AccountRow => account'[u] = account[u]
    BY <1>0, <2>1 DEF AccountTypes
  <2>4. \A q \in Requests \ Of(t) : call[q].pc \in {"prefs", "touch"} =>
          account'[call[q].token.user] = account[call[q].token.user]
    <3>1. \A q \in Requests : call[q].pc \in {"prefs", "touch"} => call[q].token.user \in AccountIds
      BY CallFields DEF AccountTypes, TokenSet
    <3> QED BY <2>2, <3>1 DEF Of
  <2>5. \A u \in AccountIds : account'[u] \in AccountRow =>
          account[u] \in AccountRow /\ account'[u].seen = account[u].seen
    BY <2>3
  <2> HIDE DEF t
  <2> QED BY <2>1, <2>4, <2>5, ExcusingSession
<1>14. CASE RestartServer
  <2>1. \A q \in Requests : SoundNext(q)
    BY <1>14 DEF RestartServer, NoCall, SoundNext
  <2>2. SeenIsUse'
    BY <1>14 DEF RestartServer, SessionInv, SeenIsUse
  <2> QED BY <2>1, <2>2, SessionJoin
<1>15. CASE Pass \/ JobEnds \/ UNCHANGED accountVars
  <2>1. UNCHANGED <<account, notBefore, lastUse, call>> /\ clock <= clock'
    BY <1>0, <1>15 DEF Pass, JobEnds, accountVars
  <2>2. SteadyRows /\ \A q \in Requests : Calm(q)
    BY <2>1 DEF SteadyRows, Calm
  <2> QED BY <2>1, <2>2, SteadySession
<1> QED BY <1>2, <1>3, <1>4, <1>6, <1>7, <1>9, <1>10, <1>11, <1>12, <1>13, <1>14, <1>15 DEF AccountsNext

\* The step that lets a request in.
LEMMA LetInStep ==
  ASSUME AccountTypes, SessionInv, [AccountsNext]_accountVars,
         NEW r \in Requests, LetIn(r), ~call[r].excused
  PROVE  LET t == call[r].token IN
         /\ t.born > notBefore
         /\ AccountExists(t.user) /\ ~account[t.user].disabled
         /\ \/ call[r].seen = Never
            \/ (IF call[r].pc = "touch" THEN call[r].now ELSE clock) <= lastUse[t.user] + Timeout
<1>0. /\ call[r] \in Calls /\ call[r].token \in TokenSet /\ call[r].token.user \in AccountIds
      /\ call[r].token.born \in Nat
      /\ clock \in Nat /\ notBefore \in Nat /\ Timeout \in Nat
      /\ call[r].pc \in {"prefs", "touch"} /\ call'[r].pc = "in"
  BY CallFields, AccountsConstants DEF LetIn, AccountTypes, TokenSet
<1>1. CheckSession(r) \/ call[r].pc = "touch"
  <2> SUFFICES ASSUME call[r].pc = "prefs" PROVE CheckSession(r)
    BY <1>0
  <2>1. ASSUME NEW q \in Requests, \/ Login(q) \/ FinishLogin(q) \/ CheckAccount(q) \/ TouchSeen(q)
                                   \/ LeaveIdle(q) \/ SubmitJob(q) \/ ResetSessions(q) \/ CreateUser(q)
                                   \/ UpdateUser(q) \/ DeleteUser(q) \/ PurgeUser(q)
        PROVE  FALSE
    <3>1. q # r
      <4>1. CASE Login(q) \/ CheckAccount(q)
        BY <1>0, <4>1 DEF Login, CheckAccount, Start, NoCall
      <4>2. CASE ~(Login(q) \/ CheckAccount(q))
        <5>1. call[q].pc # "prefs" \/ call'[q].pc # "in"
          BY <2>1, <4>2 DEF FinishLogin, TouchSeen, LeaveIdle, SubmitJob, ResetSessions, CreateUser,
                            UpdateUser, DeleteUser, PurgeUser, AsAdmin
        <5> QED BY <1>0, <5>1
      <4> QED BY <4>1, <4>2
    <3>2. \E c : call' = [call EXCEPT ![q] = c]
      BY <2>1 DEF Login, FinishLogin, CheckAccount, TouchSeen, LeaveIdle, SubmitJob, ResetSessions,
           CreateUser, UpdateUser, DeleteUser, PurgeUser, Start, End
    <3>3. call'[r] = call[r]
      BY <3>1, <3>2 DEF AccountTypes
    <3> QED BY <1>0, <3>3
  <2>2. ASSUME NEW q \in Requests, CheckSession(q), q # r
        PROVE  FALSE
    BY <1>0, <2>2 DEF CheckSession, End, AccountTypes
  <2>3. ASSUME NEW q \in Requests, NEW rs \in SUBSET Requests, call' = [Excuse(rs) EXCEPT ![q] = NoCall]
        PROVE  FALSE
    <3>1. call'[r].pc = "idle" \/ call'[r] = Excuse(rs)[r]
      BY <2>3, ExcuseIsTyped DEF NoCall
    <3> QED BY <1>0, <3>1, ExcuseIsTyped
  <2>4. ASSUME NEW q \in Requests, CommitReset(q) \/ CommitUpdate(q) \/ RemoveUser(q)
        PROVE  FALSE
    <3>1. End(q) \/ \E rs \in SUBSET Requests : call' = [Excuse(rs) EXCEPT ![q] = NoCall]
      BY <2>4 DEF CommitReset, CommitUpdate, RemoveUser, Of
    <3>2. ~End(q)
      BY <1>0 DEF End, NoCall, AccountTypes
    <3> QED BY <2>3, <3>1, <3>2
  <2>5. ~(Signup \/ Pass \/ JobEnds \/ RestartServer \/ UNCHANGED accountVars)
    <3>1. ~RestartServer
      BY <1>0 DEF RestartServer, NoCall
    <3>2. ~(Signup \/ Pass \/ JobEnds \/ UNCHANGED accountVars)
      BY <1>0 DEF Signup, Pass, JobEnds, accountVars
    <3> QED BY <3>1, <3>2
  <2> QED BY <2>1, <2>2, <2>4, <2>5 DEF AccountsNext
<1>2. CASE call[r].pc = "touch"
  <2>1. /\ call[r].token.born > notBefore /\ Enabled(account[call[r].token.user])
        /\ call[r].seen = Never \/ call[r].now <= lastUse[call[r].token.user] + Timeout
    BY <1>2 DEF SessionInv, TouchSound
  <2> QED BY <1>0, <1>2, <2>1, RowExists DEF Enabled
<1>3. CASE CheckSession(r)
  <2>1. /\ call[r].pc = "prefs" /\ call[r].seen \in Nat
        /\ ~Revoked(call[r].token) /\ ~TimedOut(call[r].seen)
    BY <1>0, <1>3, CallFields DEF CheckSession, End, NoCall, AccountTypes
  <2>2. Seconds(call[r].token.born) \in Nat /\ Seconds(notBefore) \in Nat
    BY <1>0, AccountsConstants DEF Seconds
  <2>3. call[r].token.born > notBefore
    BY <1>0, <2>1, <2>2, LaterSecond DEF Revoked
  <2>4. Enabled(account[call[r].token.user]) /\ call[r].seen <= lastUse[call[r].token.user]
    BY <2>1 DEF SessionInv, PrefsSound
  <2>5. call[r].seen = Never \/ clock <= lastUse[call[r].token.user] + Timeout
    <3>1. lastUse[call[r].token.user] \in Nat
      BY <1>0 DEF AccountTypes
    <3> QED BY <1>0, <2>1, <2>4, <3>1 DEF TimedOut
  <2> QED BY <1>0, <2>1, <2>3, <2>4, <2>5, RowExists DEF Enabled
<1> QED BY <1>1, <1>2, <1>3

\* get_current_user checks the account that has the id of the token, the reset of
\* all sessions and the time since the last use: no request is let in that was
\* late for any of them when its check began, whoever has come to have the id.
THEOREM SessionsDoEnd == AccountsSpec => SessionsEnd
<1>1. AccountsInit => SessionInv
  <2> SUFFICES ASSUME AccountsInit PROVE SessionInv
    OBVIOUS
  <2>1. \A r \in Requests : call[r].pc = "idle"
    BY DEF AccountsInit, NoCall
  <2>2. \A u \in AccountIds : account[u] \in AccountRow => account[u].seen = 0
    <3>1. /\ Row(TRUE, Never).seen = 0 /\ [Row(TRUE, Never) EXCEPT !.isRoot = TRUE].seen = 0
          /\ NoAccount \notin AccountRow
      BY AccountsConstants DEF Row, AccountRow, Never
    <3> QED BY <3>1 DEF AccountsInit
  <2>3. SeenIsUse
    <3>1. 0 <= TicksPerSecond /\ clock = TicksPerSecond /\ \A u \in AccountIds : lastUse[u] = 0
      BY AccountsConstants DEF AccountsInit
    <3> QED BY <2>2, <3>1 DEF SeenIsUse
  <2> QED BY <2>1, <2>3 DEF SessionInv, CallsTimely, UpdatesKeepSeen, PrefsSound, TouchSound
<1>2. AccountTypes /\ AccountTypes' /\ SessionInv /\ [AccountsNext]_accountVars => SessionInv'
  BY SessionStep
<1>3. AccountTypes /\ SessionInv /\ [AccountsNext]_accountVars =>
        [\A r \in Requests : LetIn(r) /\ ~call[r].excused =>
          LET t == call[r].token IN
          /\ t.born > notBefore
          /\ AccountExists(t.user) /\ ~account[t.user].disabled
          /\ \/ call[r].seen = Never
             \/ (IF call[r].pc = "touch" THEN call[r].now ELSE clock) <= lastUse[t.user] + Timeout
        ]_accountVars
  BY LetInStep
<1> QED BY <1>1, <1>2, <1>3, TypesInit, TypesStep, PTL DEF AccountsSpec, SessionsEnd
=============================================================================
