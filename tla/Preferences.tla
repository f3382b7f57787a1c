---------------------------- MODULE Preferences ----------------------------
(***************************************************************************)
(* The settings of users and of the system: routes/settings.py saves them, *)
(* services/settings_resolver.py says what they come to for a user.  A     *)
(* save reads the saver's row, then the system preferences and the row of  *)
(* the administrator, checks what it was asked for against these copies,   *)
(* and commits the columns that differ from them.  A user administrators    *)
(* promote keeps the row, and so does one they demote.                     *)
(*                                                                         *)
(* A group of defaults ("asr", "diarizer") is one value; a feature that    *)
(* needs other columns to work (feedback e-mail: destination and SMTP;     *)
(* webhook: URL; signup with CAPTCHA: provider and key) has a switch and   *)
(* one column for these.                                                   *)
(***************************************************************************)
EXTENDS Naturals

CONSTANTS
    Users,         \* user ids
    Root,          \* the administrator of the first start, who stays one
    Groups, Features,
    Values,        \* defaults of a group
    Caps,          \* values of max_concurrent_jobs
    DefaultValue, DefaultCap, \* of the columns of the table
    SaveHandlers,  \* concurrent requests
    NoSettings,
    MaxSaves       \* bound: saves begun and roles changed

ASSUME PreferencesConstants ==
    /\ Root \in Users
    /\ Caps \subseteq 1..10 /\ DefaultCap \in Caps /\ DefaultValue \in Values
    /\ MaxSaves \in Nat

VARIABLES
    staff,    \* the users who are enabled administrators
    settings, \* user -> NoSettings or the row of user_settings
    prefs,    \* the row of system_preferences: [on, has], by feature
    limit,    \* the concurrency the queue was last told
    saving,   \* what each handler has read and is about to write
    raced,    \* history: the last commit was checked against older preferences
    departed, \* history: where the last saves of a user found values that are not the administrators'
    saves

prefVars == <<staff, settings, prefs, limit, saving, raced, departed, saves>>

NoSave == [pc |-> "idle"]
HasRow(u) == settings[u] # NoSettings

\* get_admin_settings: of the administrators' rows the one saved last.  That of
\* the root administrator is made the first time anything asks for one.
AdminRow == LET latest == CHOOSE a \in staff : HasRow(a) /\ \A b \in staff :
                              HasRow(b) => settings[b].stamp <= settings[a].stamp
            IN settings[latest]

Coherent(p) == \A f \in Features : p.on[f] => p.has[f]

\* The defaults of the columns: no overrides, and the user follows.
TableDefaults(stamp) ==
    [val |-> [g \in Groups |-> DefaultValue], cap |-> DefaultCap,
     allow |-> [g \in Groups |-> FALSE], follow |-> [g \in Groups |-> TRUE], stamp |-> stamp]

PrefInit ==
    /\ staff \in {a \in SUBSET Users : Root \in a}
    /\ settings = [u \in Users |-> IF u = Root THEN TableDefaults(0) ELSE NoSettings]
    /\ prefs = [on |-> [f \in Features |-> FALSE], has |-> [f \in Features |-> FALSE]]
    /\ limit = settings[Root].cap
    /\ saving = [h \in SaveHandlers |-> NoSave]
    /\ raced = FALSE /\ departed = [u \in Users |-> {}]
    /\ saves = 0

-----------------------------------------------------------------------------
(* The row of a user, and what it comes to. *)

\* updated_at only orders the rows.
NextStamp == 1 + CHOOSE n \in {settings[u].stamp : u \in {x \in Users : HasRow(x)}} :
                   \A u \in Users : HasRow(u) => settings[u].stamp <= n

\* get_or_create_settings: the row of a plain user starts with the values of the
\* administrators; that of another administrator has the defaults of the table
\* and, being the newest, is at once the one that get_admin_settings finds.
NewRow_Detached(u) ==   \* mutated form
    IF u \in staff THEN TableDefaults(NextStamp)
    ELSE [TableDefaults(NextStamp) EXCEPT !.val = AdminRow.val, !.cap = AdminRow.cap,
                                          !.follow = [g \in Groups |-> FALSE]]
NewRow(u) ==
    IF u \in staff THEN TableDefaults(NextStamp)
    ELSE [TableDefaults(NextStamp) EXCEPT !.val = AdminRow.val, !.cap = AdminRow.cap]
RowOf(u) == IF HasRow(u) THEN settings[u] ELSE NewRow(u)

\* build_effective_defaults: the policy of the administrators decides whether the
\* flag of the user's row counts.
Resolved(row, g) == IF AdminRow.allow[g] /\ ~row.follow[g] THEN row.val[g] ELSE AdminRow.val[g]

\* create_job makes the row; an administrator's own values count.  The worker
\* puts the administrators' row over every user's, theirs included, and runs
\* without defaults for a user who has no row.
AtCreation(u, g) == IF u \in staff THEN RowOf(u).val[g] ELSE Resolved(RowOf(u), g)
AtRun(u, g) == IF HasRow(u) THEN Resolved(settings[u], g) ELSE NoSettings

\* resolve_queue_concurrency: the row of the first administrator.
StartupLimit == settings[Root].cap

-----------------------------------------------------------------------------
(* A save. *)

SaveRequest ==
           [what : {"value", "section"}, key : Groups, val : Values]
      \cup [what : {"allow"}, key : Groups, to : BOOLEAN]
      \cup [what : {"on", "has"}, key : Features, to : BOOLEAN]
      \cup [what : {"cap"}, cap : Caps]
      \cup [what : {"other"}]

\* A request that only reads the settings makes the row as well; it is a save
\* that is refused.
BeginSave(h) ==
    /\ saving[h] = NoSave /\ saves < MaxSaves /\ saves' = saves + 1
    /\ \E u \in Users, q \in SaveRequest :
         /\ settings' = [settings EXCEPT ![u] = RowOf(u)]
         /\ saving' = [saving EXCEPT ![h] =
              [pc |-> "check", user |-> u, plain |-> u \notin staff, ask |-> q, old |-> RowOf(u)]]
    /\ UNCHANGED <<staff, prefs, limit, raced, departed>>

\* What a plain user may not send.  The pages for one section resend the policy
\* flags of the row with it.
Refused(s, admin) ==
    s.plain /\ \/ s.ask.what \in {"allow", "cap", "on", "has", "section"}
               \/ s.ask.what = "value" /\ ~admin.allow[s.ask.key]

\* Does a plain user follow the administrators in g, as the save sees the two?
Follows(g, row, admin) == ~admin.allow[g] \/ row.val[g] = admin.val[g]

Asked(s, admin) ==
    LET q == s.ask
        new == [s.old EXCEPT
            !.val = IF q.what \in {"value", "section"} THEN [@ EXCEPT ![q.key] = q.val] ELSE @,
            !.allow = IF q.what = "allow" THEN [@ EXCEPT ![q.key] = q.to] ELSE @,
            !.cap = IF q.what = "cap" THEN q.cap ELSE @]
    IN IF s.plain THEN [new EXCEPT !.follow = [g \in Groups |-> Follows(g, new, admin)]]
       ELSE new

AskedPrefs(q, p) ==
    IF q.what = "on" THEN [p EXCEPT !.on[q.key] = q.to]
    ELSE IF q.what = "has" THEN [p EXCEPT !.has[q.key] = q.to] ELSE p

\* The checks of _apply_settings; the preferences must be coherent as a whole.
CheckSave_OwnColumnsOnly(h) ==   \* mutated form
    LET s == saving[h]
        p == AskedPrefs(s.ask, prefs)
        new == Asked(s, AdminRow) IN
    /\ s.pc = "check"
    /\ saving' = [saving EXCEPT ![h] =
         IF Refused(s, AdminRow) \/ (s.ask.what = "on" /\ ~Coherent(p)) THEN NoSave
         ELSE [pc |-> "commit", user |-> s.user, plain |-> s.plain, old |-> s.old, row |-> new,
               left |-> {g \in Groups : new.val[g] # AdminRow.val[g]}, base |-> prefs, prefs |-> p]]
    /\ UNCHANGED <<staff, settings, prefs, limit, raced, departed, saves>>
CheckSave(h) ==
    LET s == saving[h]
        p == AskedPrefs(s.ask, prefs)
        new == Asked(s, AdminRow) IN
    /\ s.pc = "check"
    /\ saving' = [saving EXCEPT ![h] =
         IF Refused(s, AdminRow) \/ ~Coherent(p) THEN NoSave
         ELSE [pc |-> "commit", user |-> s.user, plain |-> s.plain, old |-> s.old, row |-> new,
               left |-> {g \in Groups : new.val[g] # AdminRow.val[g]}, base |-> prefs, prefs |-> p]]
    /\ UNCHANGED <<staff, settings, prefs, limit, raced, departed, saves>>

\* A column is written when it differs from the copy.
Merged(old, new, now) == IF new = old THEN now ELSE new
MergedBy(old, new, now) == [k \in DOMAIN now |-> Merged(old[k], new[k], now[k])]

CommitSave(h) ==
    LET s == saving[h]
        now == settings[s.user] IN
    /\ s.pc = "commit"
    /\ settings' = [settings EXCEPT ![s.user] =
         [val |-> MergedBy(s.old.val, s.row.val, now.val),
          allow |-> MergedBy(s.old.allow, s.row.allow, now.allow),
          follow |-> MergedBy(s.old.follow, s.row.follow, now.follow),
          cap |-> Merged(s.old.cap, s.row.cap, now.cap),
          stamp |-> NextStamp]]
    /\ prefs' = [on |-> MergedBy(s.base.on, s.prefs.on, prefs.on),
                 has |-> MergedBy(s.base.has, s.prefs.has, prefs.has)]
    /\ raced' = (prefs # s.base)
    /\ departed' = [departed EXCEPT ![s.user] =
         IF ~s.plain THEN @ ELSE IF now = s.old THEN s.left ELSE @ \cup s.left]
    /\ saving' = [saving EXCEPT ![h] = [pc |-> "schedule", user |-> s.user]]
    /\ UNCHANGED <<staff, limit, saves>>

\* The queue is told the saver's own limit, whoever the saver is.
ScheduleLimit(h) ==
    /\ saving[h].pc = "schedule"
    /\ limit' = settings[saving[h].user].cap
    /\ saving' = [saving EXCEPT ![h] = NoSave]
    /\ UNCHANGED <<staff, settings, prefs, raced, departed, saves>>

RestartPreferences ==
    /\ limit' = StartupLimit
    /\ saving' = [h \in SaveHandlers |-> NoSave]
    /\ UNCHANGED <<staff, settings, prefs, raced, departed, saves>>

\* update_user: administrators make others administrators, or no longer so.
SetRole(u) ==
    /\ u # Root /\ saves < MaxSaves /\ saves' = saves + 1
    /\ staff' = IF u \in staff THEN staff \ {u} ELSE staff \cup {u}
    /\ UNCHANGED <<settings, prefs, limit, saving, raced, departed>>

PrefNext ==
    \/ \E h \in SaveHandlers : BeginSave(h) \/ CheckSave(h) \/ CommitSave(h) \/ ScheduleLimit(h)
    \/ \E u \in Users : SetRole(u)
    \/ RestartPreferences

PreferencesSpec == PrefInit /\ [][PrefNext]_prefVars

-----------------------------------------------------------------------------
(* Properties. *)

\* No feature is on without what it needs, unless the last commit was checked
\* against preferences another one has changed since; the next save that is not
\* raced brings it back.
FeaturesAreConfigured == ~raced => Coherent(prefs)

\* The administrators' defaults of the moment are what a plain user's new jobs
\* are given, and what the jobs of every user who has a row are run under, unless
\* the administrators allow other values and a save that the user made as a plain
\* user found another one in the row.  Administrators detach nobody: neither by
\* what they set nor by whom they promote or demote, between the copies of a
\* save and its commit or after.  Which save counts is the last one that
\* overlapped no other of the same user, and those since.
DefaultsReach ==
    \A u \in Users, g \in Groups :
        \/ /\ u \in staff \/ AtCreation(u, g) = AdminRow.val[g]
           /\ ~HasRow(u) \/ AtRun(u, g) = AdminRow.val[g]
        \/ AdminRow.allow[g] /\ g \in departed[u]
=============================================================================
