------------------------------ MODULE Catalog ------------------------------
(***************************************************************************)
(* The registry of model sets and weights (services/model_registry.py, its *)
(* routes) and the snapshot of it that capabilities and jobs read          *)
(* (services/provider_manager.py).  A handler loads rows, commits a change *)
(* and then refreshes the snapshot in a session that keeps the copies it   *)
(* has already loaded: a query does not renew them.                        *)
(*                                                                         *)
(* A weight is the pair of its set's id and a slot, a set has the slot 0.  *)
(* Model files come and go on the disk as an operator of the server likes. *)
(***************************************************************************)
EXTENDS Naturals, Functions, FiniteSetsExt

CONSTANTS
    MaxSets,         \* bound: ids of sets
    Slots,           \* weights of a set
    CatalogHandlers, \* concurrent requests
    Absent,
    MaxCatalogOps    \* bound: requests begun

Reasons == {"none", "seeded", "forced", "note"}
Item == [on : BOOLEAN, why : Reasons]

ASSUME CatalogConstants ==
    /\ MaxSets \in Nat /\ Slots \subseteq Nat \ {0} /\ MaxCatalogOps \in Nat
    /\ Absent \notin Item

VARIABLES
    entry,      \* the tables model_sets and model_entries: row or Absent
    onDisk,     \* weights whose path has files
    allowEmpty, \* system preference enable_empty_weights
    cache,      \* [recs |-> weight -> combined_enabled, empty |-> BOOLEAN]
    session,    \* what each handler has loaded and is about to do
    disturbed,  \* history: the handlers that some other one has overlapped
    stale,      \* history: the last to finish was one of them
    catalogOps

catalogVars == <<entry, onDisk, allowEmpty, cache, session, disturbed, stale, catalogOps>>

ModelSets == (1..MaxSets) \X {0}
Weights == (1..MaxSets) \X Slots
ItemIds == ModelSets \cup Weights
ItemExists(i) == entry[i] # Absent
SetOf(w) == <<w[1], 0>>
WeightsOf(s) == {w \in Weights : SetOf(w) = s /\ ItemExists(w)}
Resting == [pc |-> "idle"]
Nothing == [i \in {} |-> Absent]
Only(i, row) == [k \in {i} |-> row]

\* A session's own copies hide the rows a query finds.
Over(own, found) ==
    [i \in DOMAIN own \cup DOMAIN found |-> IF i \in DOMAIN own THEN own[i] ELSE found[i]]

\* The records of a refresh whose session sees the rows as rowOf does.
Records(weights, rowOf) == [w \in weights |-> rowOf[w].on /\ rowOf[SetOf(w)].on]
Joined == {w \in Weights : ItemExists(w) /\ ItemExists(SetOf(w))}
Current == [recs |-> Records(Joined, entry), empty |-> allowEmpty]

\* The first start: seeded rows, and the refresh of the startup.
CatalogInit ==
    /\ entry \in [ItemIds -> {Absent, [on |-> TRUE, why |-> "none"]}]
    /\ \A w \in Weights : ItemExists(w) => ItemExists(SetOf(w))
    /\ \A s, t \in ModelSets : ItemExists(s) /\ t[1] < s[1] => ItemExists(t)
    /\ onDisk = {w \in Weights : ItemExists(w)}
    /\ allowEmpty = FALSE
    /\ cache = Current
    /\ session = [h \in CatalogHandlers |-> Resting]
    /\ disturbed = {} /\ stale = FALSE
    /\ catalogOps = 0

-----------------------------------------------------------------------------
(* The first half of a handler: rows are loaded and a change decided on. *)

\* old is what the session has loaded, seen its copies with the change made,
\* drops the rows to delete, target the row refreshed by name after the commit,
\* allow a new preference.  Rows seen and not loaded are inserted.
Change(old, seen) ==
    [pc |-> "commit", old |-> old, seen |-> seen, drops |-> {}, target |-> {}, allow |-> {}]

Load(h, change) ==
    /\ session[h].pc = "idle"
    /\ catalogOps < MaxCatalogOps /\ catalogOps' = catalogOps + 1
    /\ LET others == {g \in CatalogHandlers : session[g].pc # "idle"} IN
         disturbed' = disturbed \cup others \cup (IF others = {} THEN {} ELSE {h})
    /\ session' = [session EXCEPT ![h] = change]
    /\ UNCHANGED <<entry, onDisk, allowEmpty, cache, stale>>

Loaded(ids) == Restrict(entry, {i \in ids : ItemExists(i)})

CreateSet(h) == Load(h, [Change(Nothing, Nothing) EXCEPT !.pc = "insert"])

\* A weight without files starts disabled.
CreateWeight(h) ==
    \E w \in Weights :
      LET old == Loaded({SetOf(w)})
          new == [on |-> w \in onDisk, why |-> IF w \in onDisk THEN "none" ELSE "seeded"] IN
      /\ ItemExists(SetOf(w)) /\ ~ItemExists(w)
      /\ Load(h, [Change(old, Over(Only(w, new), old)) EXCEPT !.target = {w}])

\* Switching on clears the reason, switching off needs one, new or old; a
\* reason alone is stored as it is.
Switched(r) ==
    {[on |-> TRUE, why |-> IF r.on THEN r.why ELSE "none"], [r EXCEPT !.why = "note"],
     [on |-> FALSE, why |-> "note"], [on |-> FALSE, why |-> IF r.why = "none" THEN "note" ELSE r.why]}

UpdateSet(h) ==
    \E s \in ModelSets : ItemExists(s) /\ \E new \in Switched(entry[s]) :
      Load(h, [Change(Loaded({s}), Only(s, new)) EXCEPT !.target = {s}])

\* Missing files keep a weight off unless empty weights are allowed.
UpdateWeight(h) ==
    \E w \in Weights : ItemExists(w) /\ \E new \in Switched(entry[w]) :
      LET old == Loaded({w, SetOf(w)}) IN
      /\ new.on /\ ~entry[w].on => w \in onDisk \/ allowEmpty
      /\ Load(h, [Change(old, Over(Only(w, new), old)) EXCEPT !.target = {w}])

\* The rows of a deleted set's weights are left to the database, which does not
\* enforce its foreign keys.
DeleteSet(h) ==
    \E s \in ModelSets : ItemExists(s) /\ Load(h, [Change(Nothing, Nothing) EXCEPT !.drops = {s}])
DeleteWeight(h) ==
    \E w \in Weights :
      LET old == Loaded({SetOf(w)}) IN
      ItemExists(w) /\ Load(h, [Change(old, old) EXCEPT !.drops = {w}])

\* The preference of the settings page; no row of the registry is loaded.
SaveAllowEmpty(h) == Load(h, [Change(Nothing, Nothing) EXCEPT !.allow = {~allowEmpty}])

\* Listing reconciles the rows with the files it finds.
Usable(w) == w \in onDisk \/ (entry[w].on /\ (entry[w].why = "forced" \/ allowEmpty))
Reconciled(w) ==
    LET r == entry[w] IN
    IF w \in onDisk THEN [r EXCEPT !.why = IF @ \in {"seeded", "forced"} THEN "none" ELSE @]
    ELSE IF r.on /\ ~Usable(w)
         THEN [on |-> FALSE, why |-> IF r.why = "none" THEN "seeded" ELSE r.why]
         ELSE r
ReconciledSet(s) ==
    [entry[s] EXCEPT !.why = IF @ = "seeded" /\ \E w \in WeightsOf(s) : Usable(w) THEN "none" ELSE @]

ListSets(h) ==
    LET old == Loaded(ModelSets \cup Joined)
        new == [i \in DOMAIN old |-> IF i \in Weights THEN Reconciled(i) ELSE ReconciledSet(i)] IN
    new # old /\ Load(h, Change(old, new))

-----------------------------------------------------------------------------
(* The second half: commit, then ProviderManager.refresh. *)

Columns(old, new, now) ==
    [on |-> IF new.on = old.on THEN now.on ELSE new.on,
     why |-> IF new.why = old.why THEN now.why ELSE new.why]
Changed(s) == {i \in DOMAIN s.old \cap DOMAIN s.seen : s.old[i] # s.seen[i]}
Added(s) == DOMAIN s.seen \ DOMAIN s.old

\* The end of a handler, with or without a refresh.
Leave(h, refreshed) ==
    /\ session' = [session EXCEPT ![h] = Resting]
    /\ stale' = IF h \in disturbed THEN TRUE ELSE stale /\ ~refreshed
    /\ disturbed' = disturbed \ {h}

\* An update of a row that is gone fails, as does a second row for one path.
CommitItems(h) ==
    LET s == session[h] IN
    /\ s.pc = "commit"
    /\ \/ /\ (\E i \in Changed(s) : ~ItemExists(i)) \/ \E i \in Added(s) : ItemExists(i)
          /\ Leave(h, FALSE)
          /\ UNCHANGED <<entry, allowEmpty>>
       \/ /\ \A i \in Changed(s) : ItemExists(i)
          /\ \A i \in Added(s) : ~ItemExists(i)
          /\ entry' = [i \in ItemIds |->
               IF i \in s.drops THEN Absent
               ELSE IF i \in Added(s) THEN s.seen[i]
               ELSE IF i \in Changed(s) THEN Columns(s.old[i], s.seen[i], entry[i])
               ELSE entry[i]]
          /\ allowEmpty' = IF s.allow = {} THEN allowEmpty ELSE s.allow = {TRUE}
          /\ session' = [session EXCEPT ![h].pc = "reload"]
          /\ UNCHANGED <<disturbed, stale>>
    /\ UNCHANGED <<onDisk, cache, catalogOps>>

\* A new set takes the id after the highest, which may be that of a deleted one.
InsertSet(h) ==
    LET s == <<1 + Max({0} \cup {t[1] : t \in {m \in ModelSets : ItemExists(m)}}), 0>>
        new == [on |-> TRUE, why |-> "none"] IN
    /\ session[h].pc = "insert" /\ s \in ModelSets
    /\ entry' = [entry EXCEPT ![s] = new]
    /\ session' = [session EXCEPT
         ![h] = [@ EXCEPT !.pc = "reload", !.target = {s}, !.seen = Only(s, new)]]
    /\ UNCHANGED <<onDisk, allowEmpty, cache, disturbed, stale, catalogOps>>

\* The row is refreshed, unless it is gone, and the preference is read.
Reload(h) ==
    LET s == session[h] IN
    /\ s.pc = "reload"
    /\ \/ (\E i \in s.target : ~ItemExists(i)) /\ Leave(h, FALSE)
       \/ /\ \A i \in s.target : ItemExists(i)
          /\ session' = [session EXCEPT ![h] =
               [pc |-> "entries", seen |-> Over(Restrict(entry, s.target), s.seen),
                empty |-> allowEmpty]]
          /\ UNCHANGED <<disturbed, stale>>
    /\ UNCHANGED <<entry, onDisk, allowEmpty, cache, catalogOps>>

\* The weights of the snapshot: a row the session already has keeps its copy.
ReadEntries(h) ==
    LET s == session[h] IN
    /\ s.pc = "entries"
    /\ session' = [session EXCEPT ![h] =
         [pc |-> "sets", seen |-> Over(s.seen, Restrict(entry, Joined)), empty |-> s.empty,
          weights |-> Joined]]
    /\ UNCHANGED <<entry, onDisk, allowEmpty, cache, disturbed, stale, catalogOps>>

\* Their sets, likewise, and the snapshot is replaced.
InstallSnapshot_KeepsPreference(h) ==   \* mutated form
    LET s == session[h]
        seen == Over(s.seen, Loaded(ModelSets))
        found == {w \in s.weights : SetOf(w) \in DOMAIN seen} IN
    /\ s.pc = "sets"
    /\ cache' = [cache EXCEPT !.recs = Records(found, seen)]
    /\ Leave(h, TRUE)
    /\ UNCHANGED <<entry, onDisk, allowEmpty, catalogOps>>
InstallSnapshot(h) ==
    LET s == session[h]
        seen == Over(s.seen, Loaded(ModelSets))
        found == {w \in s.weights : SetOf(w) \in DOMAIN seen} IN
    /\ s.pc = "sets"
    /\ cache' = [recs |-> Records(found, seen), empty |-> s.empty]
    /\ Leave(h, TRUE)
    /\ UNCHANGED <<entry, onDisk, allowEmpty, catalogOps>>

\* Files are copied to a path or removed from it.
ChangeFiles ==
    /\ \E w \in Weights : onDisk' = IF w \in onDisk THEN onDisk \ {w} ELSE onDisk \cup {w}
    /\ UNCHANGED <<entry, allowEmpty, cache, session, disturbed, stale, catalogOps>>

\* The snapshot of a new process is read at its startup.
RestartCatalog ==
    /\ cache' = Current
    /\ session' = [h \in CatalogHandlers |-> Resting]
    /\ disturbed' = {} /\ stale' = FALSE
    /\ UNCHANGED <<entry, onDisk, allowEmpty, catalogOps>>

CatalogNext ==
    \/ \E h \in CatalogHandlers :
         \/ CreateSet(h) \/ CreateWeight(h) \/ UpdateSet(h) \/ UpdateWeight(h)
         \/ DeleteSet(h) \/ DeleteWeight(h) \/ SaveAllowEmpty(h) \/ ListSets(h)
         \/ CommitItems(h) \/ InsertSet(h) \/ Reload(h) \/ ReadEntries(h) \/ InstallSnapshot(h)
    \/ ChangeFiles \/ RestartCatalog

CatalogSpec == CatalogInit /\ [][CatalogNext]_catalogVars

-----------------------------------------------------------------------------
(* Properties. *)

\* Between requests the snapshot says what the tables say, whatever mix of sets,
\* weights, listings and preferences was changed; after requests that overlapped
\* it does again once one request has run through undisturbed.
CacheIsCurrent ==
    ~stale /\ (\A h \in CatalogHandlers : session[h].pc = "idle") => cache = Current

\* Every weight has its set.
WeightsHaveSets == \A w \in Weights : ItemExists(w) => ItemExists(SetOf(w))
=============================================================================
