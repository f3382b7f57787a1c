------------------------ MODULE Administration_proofs ------------------------
(***************************************************************************)
(* Proofs about what administrators set: the snapshot of the registry that *)
(* jobs read says what the tables say (Catalog), no feature of the system  *)
(* is on without what it needs and only a user's own saves come between    *)
(* the user and the administrators' defaults (Preferences), and the token  *)
(* bucket grants exactly what its limit allows (RateLimit).                *)
(***************************************************************************)
EXTENDS Catalog, Preferences, RateLimit, TLAPS

-----------------------------------------------------------------------------
(* The registry and its snapshot. *)

\* h is serving a request, and no other request has overlapped it.
Active(h) == session[h].pc # "idle"
Lone(h) == Active(h) /\ h \notin disturbed

ChangeFields == {"pc", "old", "seen", "drops", "target", "allow"}

\* What a request carries, by the stage it is at.
SessionTypes(h) ==
    LET s == session[h] IN
    /\ s.pc \in {"idle", "insert", "commit", "reload", "entries", "sets"}
    /\ s.pc \in {"insert", "commit", "reload"} => DOMAIN s = ChangeFields
    /\ s.pc # "idle" => DOMAIN s.seen \subseteq ItemIds /\ \A i \in DOMAIN s.seen : s.seen[i] \in Item
    /\ s.pc \in {"commit", "reload"} => s.target \subseteq DOMAIN s.seen
    /\ s.pc = "commit" => s.drops \cap DOMAIN s.seen = {}

\* The copies of a request that no other has overlapped are the rows.
Faithful(h) ==
    LET s == session[h] IN
    /\ s.pc = "commit" => \A i \in DOMAIN s.old : s.old[i] = entry[i]
    /\ s.pc \in {"reload", "entries", "sets"} => \A i \in DOMAIN s.seen : s.seen[i] = entry[i]
    /\ s.pc \in {"entries", "sets"} => s.empty = allowEmpty
    /\ s.pc = "sets" => s.weights = Joined /\ Joined \subseteq DOMAIN s.seen

\* Nobody has committed a change that the snapshot does not show yet.
Settled == \A h \in CatalogHandlers : Active(h) => Lone(h) /\ session[h].pc \in {"insert", "commit"}

CatalogTypes ==
    /\ DOMAIN session = CatalogHandlers
    /\ entry \in [ItemIds -> Item \cup {Absent}]
    /\ \A h \in CatalogHandlers : SessionTypes(h)

CatalogInv ==
    /\ CatalogTypes
    /\ \A h \in CatalogHandlers :
         Lone(h) => Faithful(h) /\ \A g \in CatalogHandlers \ {h} : ~Active(g)
    /\ Settled /\ ~stale => cache = Current

-----------------------------------------------------------------------------

\* What may be the change a handler begins with.
ChangeSound(c) ==
    /\ DOMAIN c = ChangeFields /\ c.pc \in {"insert", "commit"}
    /\ DOMAIN c.seen \subseteq ItemIds /\ \A i \in DOMAIN c.seen : c.seen[i] \in Item
    /\ c.target \subseteq DOMAIN c.seen
    /\ c.drops \cap DOMAIN c.seen = {}
    /\ \A i \in DOMAIN c.old : c.old[i] = entry[i]

\* A session holds the rows of the ids asked for that exist.
LEMMA LoadedRows ==
    ASSUME CatalogTypes, NEW ids \in SUBSET ItemIds
    PROVE  /\ DOMAIN Loaded(ids) = {i \in ids : ItemExists(i)}
           /\ \A i \in DOMAIN Loaded(ids) : Loaded(ids)[i] = entry[i] /\ Loaded(ids)[i] \in Item
BY DEF Loaded, Restrict, CatalogTypes, ItemExists

\* Own copies hide those found.
LEMMA OverRows ==
    ASSUME NEW own, NEW found
    PROVE  /\ DOMAIN Over(own, found) = DOMAIN own \cup DOMAIN found
           /\ \A i \in DOMAIN own : Over(own, found)[i] = own[i]
           /\ \A i \in DOMAIN found \ DOMAIN own : Over(own, found)[i] = found[i]
BY DEF Over

\* The copies of a session that has one row.
LEMMA OnlyRow == ASSUME NEW i, NEW row PROVE DOMAIN Only(i, row) = {i} /\ Only(i, row)[i] = row
BY DEF Only

\* The set of a weight is an item, as is the weight.
LEMMA WeightIds == ASSUME NEW w \in Weights PROVE w \in ItemIds /\ SetOf(w) \in ModelSets /\ SetOf(w) \in ItemIds
BY DEF Weights, ItemIds, ModelSets, SetOf

\* A slot is not 0, the slot of a set.
LEMMA WeightsAreNoSets == Weights \cap ModelSets = {}
BY CatalogConstants DEF Weights, ModelSets

\* A change and what is asked of it besides.
LEMMA ChangeParts ==
    ASSUME NEW old, NEW seen
    PROVE  /\ DOMAIN Change(old, seen) = ChangeFields /\ Change(old, seen).pc = "commit"
           /\ Change(old, seen).old = old /\ Change(old, seen).seen = seen
           /\ Change(old, seen).drops = {} /\ Change(old, seen).target = {}
BY DEF Change, ChangeFields

-----------------------------------------------------------------------------
(* The first half of a handler. *)

\* A handler begins: those it overlaps, and itself then, are no longer alone.
LEMMA LoadStep ==
    ASSUME CatalogInv, NEW h \in CatalogHandlers, NEW c, ChangeSound(c), Load(h, c)
    PROVE  CatalogInv'
<1>1. /\ session[h].pc = "idle" /\ session' = [session EXCEPT ![h] = c]
      /\ entry' = entry /\ allowEmpty' = allowEmpty /\ cache' = cache /\ stale' = stale
      /\ \A g \in CatalogHandlers : g \in disturbed => g \in disturbed'
      /\ \A g \in CatalogHandlers : Active(g) => g \in disturbed' /\ h \in disturbed'
  BY DEF Load, Active
<1>2. DOMAIN session = CatalogHandlers  BY DEF CatalogInv, CatalogTypes
<1>3. session'[h] = c /\ \A g \in CatalogHandlers \ {h} : session'[g] = session[g]
  BY <1>1, <1>2
<1>4. DOMAIN session' = CatalogHandlers  BY <1>1, <1>2
<1>5. \A g \in CatalogHandlers : SessionTypes(g)'
  BY <1>1, <1>3 DEF CatalogInv, CatalogTypes, SessionTypes, ChangeSound
<1>6. CatalogTypes'  BY <1>1, <1>4, <1>5 DEF CatalogInv, CatalogTypes
<1>7. ASSUME NEW g \in CatalogHandlers, Lone(g)'
      PROVE  Faithful(g)' /\ \A f \in CatalogHandlers \ {g} : ~Active(f)'
  <2>1. g = h  BY <1>1, <1>3, <1>7 DEF Lone, Active
  <2>2. \A f \in CatalogHandlers \ {h} : ~Active(f)'  BY <1>1, <1>3, <1>7, <2>1 DEF Lone, Active
  <2>3. Faithful(h)'  BY <1>1, <1>3 DEF Faithful, ChangeSound
  <2>4. QED  BY <2>1, <2>2, <2>3
<1>8. Settled' => Settled
  BY <1>1, <1>3 DEF Settled, Lone, Active
<1>9. Current' = Current  BY <1>1 DEF Current, Joined, ItemExists, SetOf
<1>10. QED  BY <1>1, <1>6, <1>7, <1>8, <1>9 DEF CatalogInv

\* The operations that begin so, one by one: each starts from a sound change.
LEMMA CreateSetStep ==
    ASSUME CatalogInv, NEW h \in CatalogHandlers, CreateSet(h) PROVE CatalogInv'
<1> DEFINE c == [Change(Nothing, Nothing) EXCEPT !.pc = "insert"]
<1>1. ChangeSound(c)  BY ChangeParts DEF ChangeSound, ChangeFields, Nothing
<1>2. Load(h, c)  BY DEF CreateSet
<1> HIDE DEF c
<1>3. QED  BY <1>1, <1>2, LoadStep

\* A row of the session's own over the rows it has loaded is a change.
LEMMA OwnRowIsSound ==
    ASSUME CatalogTypes, NEW ids \in SUBSET ItemIds, NEW w \in ItemIds, NEW new \in Item
    PROVE  ChangeSound([Change(Loaded(ids), Over(Only(w, new), Loaded(ids))) EXCEPT !.target = {w}])
<1> DEFINE old == Loaded(ids)
           own == Only(w, new)
           seen == Over(own, old)
           c == [Change(old, seen) EXCEPT !.target = {w}]
<1>1. DOMAIN old \subseteq ItemIds /\ \A i \in DOMAIN old : old[i] = entry[i] /\ old[i] \in Item
  BY LoadedRows
<1>2. DOMAIN own = {w} /\ own[w] = new  BY OnlyRow
<1> HIDE DEF old, own
<1>3. /\ DOMAIN seen = DOMAIN own \cup DOMAIN old
      /\ \A i \in DOMAIN own : seen[i] = own[i]
      /\ \A i \in DOMAIN old \ DOMAIN own : seen[i] = old[i]
  BY OverRows
<1> HIDE DEF seen
<1>4. DOMAIN seen \subseteq ItemIds /\ w \in DOMAIN seen /\ \A i \in DOMAIN seen : seen[i] \in Item
  BY <1>1, <1>2, <1>3
<1>5. DOMAIN c = ChangeFields /\ c.pc = "commit" /\ c.old = old /\ c.seen = seen /\ c.drops = {} /\ c.target = {w}
  BY ChangeParts DEF ChangeFields
<1> HIDE DEF c
<1>6. ChangeSound(c)  BY <1>1, <1>4, <1>5 DEF ChangeSound
<1>7. QED  BY <1>6 DEF c, seen, own, old

\* create_model_weight.
LEMMA CreateWeightStep ==
    ASSUME CatalogInv, NEW h \in CatalogHandlers, CreateWeight(h) PROVE CatalogInv'
<1>1. PICK w \in Weights : 
        /\ ItemExists(SetOf(w)) /\ ~ItemExists(w)
        /\ LET new == [on |-> w \in onDisk, why |-> IF w \in onDisk THEN "none" ELSE "seeded"] IN
           Load(h, [Change(Loaded({SetOf(w)}), Over(Only(w, new), Loaded({SetOf(w)}))) EXCEPT !.target = {w}])
  BY DEF CreateWeight
<1> DEFINE new == [on |-> w \in onDisk, why |-> IF w \in onDisk THEN "none" ELSE "seeded"]
           ids == {SetOf(w)}
<1>2. new \in Item  BY DEF Item, Reasons
<1>3. ids \in SUBSET ItemIds /\ w \in ItemIds  BY WeightIds
<1>4. Load(h, [Change(Loaded(ids), Over(Only(w, new), Loaded(ids))) EXCEPT !.target = {w}])
  BY <1>1
<1> HIDE DEF new, ids
<1>5. ChangeSound([Change(Loaded(ids), Over(Only(w, new), Loaded(ids))) EXCEPT !.target = {w}])
  BY <1>2, <1>3, OwnRowIsSound DEF CatalogInv
<1>6. QED  BY <1>4, <1>5, LoadStep

\* A row that is switched is a row.
LEMMA SwitchedItem == ASSUME NEW r \in Item PROVE Switched(r) \subseteq Item
BY DEF Switched, Item, Reasons

\* update_model_set.
LEMMA UpdateSetStep ==
    ASSUME CatalogInv, NEW h \in CatalogHandlers, UpdateSet(h) PROVE CatalogInv'
<1>1. PICK s \in ModelSets : ItemExists(s) /\ \E new \in Switched(entry[s]) :
        Load(h, [Change(Loaded({s}), Only(s, new)) EXCEPT !.target = {s}])
  BY DEF UpdateSet
<1>2. s \in ItemIds /\ entry[s] \in Item
  BY <1>1 DEF ItemIds, ItemExists, CatalogInv, CatalogTypes
<1>3. PICK new \in Item : Load(h, [Change(Loaded({s}), Only(s, new)) EXCEPT !.target = {s}])
  BY <1>1, <1>2, SwitchedItem
<1> DEFINE old == Loaded({s})
           seen == Only(s, new)
           c == [Change(old, seen) EXCEPT !.target = {s}]
<1>4. \A i \in DOMAIN old : old[i] = entry[i]  BY <1>2, LoadedRows DEF CatalogInv
<1>5. DOMAIN seen = {s} /\ seen[s] = new  BY OnlyRow
<1> HIDE DEF old, seen
<1>6. ChangeSound(c)  BY <1>2, <1>4, <1>5, ChangeParts DEF ChangeSound, ChangeFields
<1>7. Load(h, c)  BY <1>3 DEF old, seen
<1> HIDE DEF c
<1>8. QED  BY <1>6, <1>7, LoadStep

\* update_model_weight.
LEMMA UpdateWeightStep ==
    ASSUME CatalogInv, NEW h \in CatalogHandlers, UpdateWeight(h) PROVE CatalogInv'
<1>1. PICK w \in Weights : ItemExists(w) /\ \E new \in Switched(entry[w]) :
        Load(h, [Change(Loaded({w, SetOf(w)}), Over(Only(w, new), Loaded({w, SetOf(w)}))) EXCEPT !.target = {w}])
  BY DEF UpdateWeight
<1>2. w \in ItemIds /\ SetOf(w) \in ItemIds /\ entry[w] \in Item
  BY <1>1, WeightIds DEF ItemExists, CatalogInv, CatalogTypes
<1>3. PICK new \in Item :
        Load(h, [Change(Loaded({w, SetOf(w)}), Over(Only(w, new), Loaded({w, SetOf(w)}))) EXCEPT !.target = {w}])
  BY <1>1, <1>2, SwitchedItem
<1> DEFINE ids == {w, SetOf(w)}
<1>4. ids \in SUBSET ItemIds  BY <1>2
<1>5. Load(h, [Change(Loaded(ids), Over(Only(w, new), Loaded(ids))) EXCEPT !.target = {w}])
  BY <1>3
<1> HIDE DEF ids
<1>6. ChangeSound([Change(Loaded(ids), Over(Only(w, new), Loaded(ids))) EXCEPT !.target = {w}])
  BY <1>2, <1>4, OwnRowIsSound DEF CatalogInv
<1>7. QED  BY <1>5, <1>6, LoadStep

\* delete_model_set.
LEMMA DeleteSetStep ==
    ASSUME CatalogInv, NEW h \in CatalogHandlers, DeleteSet(h) PROVE CatalogInv'
<1>1. PICK s \in ModelSets : Load(h, [Change(Nothing, Nothing) EXCEPT !.drops = {s}])
  BY DEF DeleteSet
<1> DEFINE c == [Change(Nothing, Nothing) EXCEPT !.drops = {s}]
<1>2. ChangeSound(c)  BY ChangeParts DEF ChangeSound, ChangeFields, Nothing
<1> HIDE DEF c
<1>3. QED  BY <1>1, <1>2, LoadStep DEF c

\* delete_model_weight.
LEMMA DeleteWeightStep ==
    ASSUME CatalogInv, NEW h \in CatalogHandlers, DeleteWeight(h) PROVE CatalogInv'
<1>1. PICK w \in Weights :
        Load(h, [Change(Loaded({SetOf(w)}), Loaded({SetOf(w)})) EXCEPT !.drops = {w}])
  BY DEF DeleteWeight
<1> DEFINE old == Loaded({SetOf(w)})
           c == [Change(old, old) EXCEPT !.drops = {w}]
<1>2. /\ DOMAIN old \subseteq {SetOf(w)} /\ SetOf(w) \in ItemIds
      /\ \A i \in DOMAIN old : old[i] = entry[i] /\ old[i] \in Item
  BY WeightIds, LoadedRows DEF CatalogInv
<1>3. w # SetOf(w)  BY WeightIds, WeightsAreNoSets
<1> HIDE DEF old
<1>4. ChangeSound(c)  BY <1>2, <1>3, ChangeParts DEF ChangeSound, ChangeFields
<1>5. Load(h, c)  BY <1>1 DEF old
<1> HIDE DEF c
<1>6. QED  BY <1>4, <1>5, LoadStep

\* The preference that allows empty weights.
LEMMA SaveAllowEmptyStep ==
    ASSUME CatalogInv, NEW h \in CatalogHandlers, SaveAllowEmpty(h) PROVE CatalogInv'
<1> DEFINE c == [Change(Nothing, Nothing) EXCEPT !.allow = {~allowEmpty}]
<1>1. ChangeSound(c)  BY ChangeParts DEF ChangeSound, ChangeFields, Nothing
<1>2. Load(h, c)  BY DEF SaveAllowEmpty
<1> HIDE DEF c
<1>3. QED  BY <1>1, <1>2, LoadStep

\* Reconciling with the disk gives rows again.
LEMMA ReconciledItems ==
    ASSUME CatalogTypes
    PROVE  /\ \A w \in Weights : ItemExists(w) => Reconciled(w) \in Item
           /\ \A s \in ModelSets : ItemExists(s) => ReconciledSet(s) \in Item
<1>1. ASSUME NEW w \in Weights, ItemExists(w) PROVE Reconciled(w) \in Item
  <2>1. entry[w] \in Item  BY <1>1, WeightIds DEF CatalogTypes, ItemExists
  <2>2. QED  BY <2>1 DEF Reconciled, Item, Reasons
<1>2. ASSUME NEW s \in ModelSets, ItemExists(s) PROVE ReconciledSet(s) \in Item
  <2>1. entry[s] \in Item  BY <1>2 DEF CatalogTypes, ItemExists, ItemIds
  <2>2. QED  BY <2>1 DEF ReconciledSet, Item, Reasons
<1>3. QED  BY <1>1, <1>2

\* list_model_sets with what it reconciles.
LEMMA ListSetsStep ==
    ASSUME CatalogInv, NEW h \in CatalogHandlers, ListSets(h) PROVE CatalogInv'
<1> DEFINE old == Loaded(ModelSets \cup Joined)
           seen == [i \in DOMAIN old |-> IF i \in Weights THEN Reconciled(i) ELSE ReconciledSet(i)]
           c == Change(old, seen)
<1>1. /\ DOMAIN old \subseteq ItemIds
      /\ \A i \in DOMAIN old : ItemExists(i) /\ old[i] = entry[i] /\ (i \in Weights \/ i \in ModelSets)
  <2>1. ModelSets \cup Joined \in SUBSET ItemIds  BY DEF ItemIds, Joined
  <2>2. QED  BY <2>1, LoadedRows DEF CatalogInv, ItemIds
<1>2. Load(h, c)  BY DEF ListSets
<1> HIDE DEF old
<1>3. DOMAIN seen = DOMAIN old /\ \A i \in DOMAIN old : seen[i] \in Item
  BY <1>1, ReconciledItems DEF CatalogInv
<1> HIDE DEF seen
<1>4. ChangeSound(c)  BY <1>1, <1>3, ChangeParts DEF ChangeSound
<1> HIDE DEF c
<1>5. QED  BY <1>2, <1>4, LoadStep

-----------------------------------------------------------------------------
(* The second half of a handler. *)

\* A step of an active handler: nobody else can be alone.
LEMMA AdvanceStep ==
    ASSUME CatalogInv, NEW h \in CatalogHandlers, Active(h), NEW t,
           session' = [session EXCEPT ![h] = t], CatalogTypes',
           \/ t.pc # "idle" /\ disturbed' = disturbed /\ (Lone(h) => Faithful(h)')
           \/ t.pc = "idle" /\ disturbed' = disturbed \ {h},
           Settled' /\ ~stale' => cache' = Current'
    PROVE  CatalogInv'
<1>1. DOMAIN session = CatalogHandlers  BY DEF CatalogInv, CatalogTypes
<1>2. session'[h] = t /\ \A g \in CatalogHandlers \ {h} : session'[g] = session[g]
  BY <1>1
<1>3. ASSUME NEW g \in CatalogHandlers, Lone(g)'
      PROVE  Faithful(g)' /\ \A f \in CatalogHandlers \ {g} : ~Active(f)'
  <2>1. g = h
    <3>1. CASE g # h
      <4>1. Lone(g)  BY <1>2, <1>3, <3>1 DEF Lone, Active
      <4>2. QED  BY <3>1, <4>1 DEF CatalogInv
    <3>2. QED  BY <3>1
  <2>2. t.pc # "idle" /\ disturbed' = disturbed /\ (Lone(h) => Faithful(h)')
    BY <1>2, <1>3, <2>1 DEF Lone, Active
  <2>3. Lone(h)  BY <1>3, <2>1, <2>2 DEF Lone, Active
  <2>4. \A f \in CatalogHandlers \ {h} : ~Active(f)'  BY <1>2, <2>3 DEF CatalogInv, Active
  <2>5. QED  BY <2>1, <2>2, <2>3, <2>4
<1>4. QED  BY <1>3 DEF CatalogInv

\* What the snapshot should say depends on the tables alone.
LEMMA CurrentKept ==
    ASSUME entry' = entry, allowEmpty' = allowEmpty PROVE Current' = Current /\ Joined' = Joined
BY DEF Current, Joined, ItemExists, SetOf

\* The types, but for the session of h.
LEMMA TypesButOne ==
    ASSUME CatalogInv, NEW h \in CatalogHandlers, NEW t, session' = [session EXCEPT ![h] = t],
           entry' \in [ItemIds -> Item \cup {Absent}], SessionTypes(h)'
    PROVE  CatalogTypes' /\ session'[h] = t
<1>1. DOMAIN session = CatalogHandlers  BY DEF CatalogInv, CatalogTypes
<1>2. session'[h] = t /\ \A g \in CatalogHandlers \ {h} : session'[g] = session[g]
  BY <1>1
<1>3. \A g \in CatalogHandlers : SessionTypes(g)'
  BY <1>2 DEF CatalogInv, CatalogTypes, SessionTypes
<1>4. DOMAIN session' = CatalogHandlers  BY <1>1
<1>5. QED  BY <1>2, <1>3, <1>4 DEF CatalogTypes

\* A handler leaves without a refresh.
LEMMA GiveUpStep ==
    ASSUME CatalogInv, NEW h \in CatalogHandlers, Active(h), Leave(h, FALSE),
           Lone(h) => session[h].pc = "commit",
           entry' = entry, allowEmpty' = allowEmpty, cache' = cache
    PROVE  CatalogInv'
<1>1. DOMAIN session = CatalogHandlers  BY DEF CatalogInv, CatalogTypes
<1>2. session' = [session EXCEPT ![h] = Resting] /\ disturbed' = disturbed \ {h}  BY DEF Leave
<1>3. SessionTypes(h)'  BY <1>1, <1>2 DEF SessionTypes, Resting
<1>4. CatalogTypes'  BY <1>2, <1>3, TypesButOne DEF CatalogInv, CatalogTypes
<1>5. ASSUME Settled', ~stale' PROVE cache' = Current'
  <2>1. h \notin disturbed /\ ~stale  BY <1>5 DEF Leave
  <2>2. Lone(h)  BY <2>1 DEF Lone
  <2>3. Settled  BY <2>2 DEF CatalogInv, Settled
  <2>4. QED  BY <2>1, <2>3, CurrentKept DEF CatalogInv
<1>6. Resting.pc = "idle"  BY DEF Resting
<1>7. QED  BY <1>2, <1>4, <1>5, <1>6, AdvanceStep

\* In a handler nobody has overlapped the copies are the rows, after the commit too.
LEMMA CommittedRow ==
    ASSUME NEW old \in Item, NEW new \in Item PROVE Columns(old, new, old) = new
BY DEF Columns, Item

\* The commit: what a lone session has made of its copies is in the tables.
LEMMA CommitItemsStep ==
    ASSUME CatalogInv, NEW h \in CatalogHandlers, CommitItems(h) PROVE CatalogInv'
<1> DEFINE s == session[h]
<1>1. s.pc = "commit" /\ Active(h) /\ cache' = cache /\ DOMAIN session = CatalogHandlers
  BY DEF CommitItems, Active, CatalogInv, CatalogTypes
<1>2. CASE Leave(h, FALSE) /\ entry' = entry /\ allowEmpty' = allowEmpty
  BY <1>1, <1>2, GiveUpStep
<1>3. CASE /\ \A i \in Changed(s) : ItemExists(i)
           /\ entry' = [i \in ItemIds |->
                 IF i \in s.drops THEN Absent
                 ELSE IF i \in Added(s) THEN s.seen[i]
                 ELSE IF i \in Changed(s) THEN Columns(s.old[i], s.seen[i], entry[i])
                 ELSE entry[i]]
           /\ session' = [session EXCEPT ![h].pc = "reload"]
           /\ UNCHANGED <<disturbed, stale>>
  <2> DEFINE t == [s EXCEPT !.pc = "reload"]
  <2>1. SessionTypes(h) /\ entry \in [ItemIds -> Item \cup {Absent}]  BY DEF CatalogInv, CatalogTypes
  <2>2. session' = [session EXCEPT ![h] = t]  BY <1>3
  <2>3. DOMAIN s = ChangeFields /\ s.target \subseteq DOMAIN s.seen /\ s.drops \cap DOMAIN s.seen = {}
        /\ DOMAIN s.seen \subseteq ItemIds /\ \A i \in DOMAIN s.seen : s.seen[i] \in Item
    BY <1>1, <2>1 DEF SessionTypes
  <2>4. DOMAIN t = ChangeFields /\ t.pc = "reload" /\ t.seen = s.seen /\ t.target = s.target
    BY <2>3 DEF ChangeFields
  <2>5. session'[h] = t  BY <1>1, <2>2
  <2> HIDE DEF t, s
  <2>6. SessionTypes(h)'  BY <2>3, <2>4, <2>5 DEF SessionTypes
  <2>7. entry' \in [ItemIds -> Item \cup {Absent}]
    <3>1. ASSUME NEW i \in ItemIds PROVE entry'[i] \in Item \cup {Absent}
      <4>1. CASE i \in s.drops  BY <1>3, <4>1
      <4>2. CASE i \notin s.drops /\ i \in Added(s)  BY <1>3, <2>3, <4>2 DEF Added
      <4>3. CASE i \notin s.drops /\ i \notin Added(s) /\ i \in Changed(s)
        <5>1. entry[i] \in Item /\ s.seen[i] \in Item
          BY <1>3, <2>1, <2>3, <4>3 DEF Changed, ItemExists
        <5>2. Columns(s.old[i], s.seen[i], entry[i]) \in Item  BY <5>1 DEF Columns, Item
        <5>3. QED  BY <1>3, <4>3, <5>2
      <4>4. CASE i \notin s.drops /\ i \notin Added(s) /\ i \notin Changed(s)
        BY <1>3, <2>1, <4>4
      <4>5. QED  BY <4>1, <4>2, <4>3, <4>4
    <3>2. QED  BY <1>3, <3>1
  <2>8. CatalogTypes'  BY <2>2, <2>6, <2>7, TypesButOne
  <2>9. ASSUME Lone(h) PROVE Faithful(h)'
    <3>1. \A i \in DOMAIN s.old : s.old[i] = entry[i]
      BY <1>1, <2>9 DEF CatalogInv, Faithful, s
    <3>2. ASSUME NEW i \in DOMAIN s.seen PROVE entry'[i] = s.seen[i]
      <4>1. i \in ItemIds /\ i \notin s.drops /\ s.seen[i] \in Item  BY <2>3
      <4>2. CASE i \in Added(s)  BY <1>3, <4>1, <4>2
      <4>3. CASE i \in Changed(s)
        <5>1. s.old[i] = entry[i] /\ entry[i] \in Item
          BY <1>3, <2>1, <3>1, <4>1, <4>3 DEF Changed, ItemExists
        <5>2. Columns(s.old[i], s.seen[i], entry[i]) = s.seen[i]  BY <4>1, <5>1, CommittedRow
        <5>3. i \notin Added(s)  BY <4>3 DEF Changed, Added
        <5>4. QED  BY <1>3, <4>1, <4>3, <5>2, <5>3
      <4>4. CASE i \notin Added(s) /\ i \notin Changed(s)
        <5>1. i \in DOMAIN s.old /\ s.old[i] = s.seen[i]  BY <4>4 DEF Added, Changed
        <5>2. QED  BY <1>3, <3>1, <4>1, <4>4, <5>1
      <4>5. QED  BY <4>2, <4>3, <4>4
    <3>3. QED  BY <2>4, <2>5, <3>2 DEF Faithful
  <2>10. ~Settled'
    BY <2>4, <2>5 DEF Settled, Active
  <2>11. QED  BY <1>1, <1>3, <2>2, <2>4, <2>8, <2>9, <2>10, AdvanceStep
<1>4. QED  BY <1>2, <1>3 DEF CommitItems

\* The commit of a new set.
LEMMA InsertSetStep ==
    ASSUME CatalogInv, NEW h \in CatalogHandlers, InsertSet(h) PROVE CatalogInv'
<1> DEFINE new == [on |-> TRUE, why |-> "none"]
<1>1. PICK s \in ModelSets :
        /\ session[h].pc = "insert" /\ entry' = [entry EXCEPT ![s] = new]
        /\ session' = [session EXCEPT ![h] = [session[h] EXCEPT !.pc = "reload", !.target = {s}, !.seen = Only(s, new)]]
        /\ UNCHANGED <<allowEmpty, cache, disturbed, stale>>
  BY DEF InsertSet
<1> DEFINE own == Only(s, new)
           t == [session[h] EXCEPT !.pc = "reload", !.target = {s}, !.seen = own]
<1>2. new \in Item /\ s \in ItemIds  BY DEF Item, Reasons, ItemIds
<1>3. DOMAIN own = {s} /\ own[s] = new  BY OnlyRow
<1>4. SessionTypes(h) /\ entry \in [ItemIds -> Item \cup {Absent}] /\ DOMAIN session = CatalogHandlers
  BY DEF CatalogInv, CatalogTypes
<1>5. session' = [session EXCEPT ![h] = t]  BY <1>1
<1> HIDE DEF own
<1>6. DOMAIN t = ChangeFields /\ t.pc = "reload" /\ t.seen = own /\ t.target = {s}
  BY <1>1, <1>4 DEF SessionTypes, ChangeFields
<1> HIDE DEF t
<1>7. session'[h] = t  BY <1>4, <1>5
<1>8. SessionTypes(h)'  BY <1>2, <1>3, <1>6, <1>7 DEF SessionTypes
<1>9. entry' \in [ItemIds -> Item \cup {Absent}] /\ entry'[s] = new  BY <1>1, <1>2, <1>4
<1>10. CatalogTypes'  BY <1>5, <1>8, <1>9, TypesButOne
<1>11. Faithful(h)'  BY <1>3, <1>6, <1>7, <1>9 DEF Faithful
<1>12. ~Settled'  BY <1>6, <1>7 DEF Settled, Active
<1>13. Active(h)  BY <1>1 DEF Active
<1>14. QED  BY <1>1, <1>5, <1>6, <1>10, <1>11, <1>12, <1>13, AdvanceStep

\* A lone session always finds the row it refreshes.
LEMMA ReloadStep ==
    ASSUME CatalogInv, NEW h \in CatalogHandlers, Reload(h) PROVE CatalogInv'
<1> DEFINE s == session[h]
<1>1. /\ s.pc = "reload" /\ Active(h) /\ cache' = cache /\ entry' = entry /\ allowEmpty' = allowEmpty
      /\ DOMAIN session = CatalogHandlers /\ entry \in [ItemIds -> Item \cup {Absent}]
  BY DEF Reload, Active, CatalogInv, CatalogTypes
<1>2. /\ s.target \subseteq DOMAIN s.seen /\ DOMAIN s.seen \subseteq ItemIds
      /\ \A i \in DOMAIN s.seen : s.seen[i] \in Item
  BY <1>1 DEF CatalogInv, CatalogTypes, SessionTypes
<1>3. Lone(h) => \A i \in DOMAIN s.seen : s.seen[i] = entry[i]
  BY <1>1 DEF CatalogInv, Faithful
<1>4. CASE (\E i \in s.target : ~ItemExists(i)) /\ Leave(h, FALSE)
  <2>1. ~Lone(h)  BY <1>2, <1>3, <1>4, CatalogConstants DEF ItemExists
  <2>2. QED  BY <1>1, <1>4, <2>1, GiveUpStep
<1>5. CASE /\ \A i \in s.target : ItemExists(i)
           /\ session' = [session EXCEPT ![h] =
                [pc |-> "entries", seen |-> Over(Restrict(entry, s.target), s.seen), empty |-> allowEmpty]]
           /\ UNCHANGED <<disturbed, stale>>
  <2> DEFINE found == Restrict(entry, s.target)
             seen == Over(found, s.seen)
             t == [pc |-> "entries", seen |-> seen, empty |-> allowEmpty]
  <2>1. DOMAIN found = s.target /\ \A i \in s.target : found[i] = entry[i]
    BY DEF Restrict
  <2>2. session' = [session EXCEPT ![h] = t]  BY <1>5
  <2> HIDE DEF found, s
  <2>3. /\ DOMAIN seen = DOMAIN found \cup DOMAIN s.seen
        /\ \A i \in DOMAIN found : seen[i] = found[i]
        /\ \A i \in DOMAIN s.seen \ DOMAIN found : seen[i] = s.seen[i]
    BY OverRows
  <2> HIDE DEF seen
  <2>4. t.pc = "entries" /\ t.seen = seen /\ t.empty = allowEmpty  OBVIOUS
  <2> HIDE DEF t
  <2>5. session'[h] = t  BY <1>1, <2>2
  <2>6. \A i \in s.target : entry[i] \in Item  BY <1>1, <1>2, <1>5 DEF ItemExists
  <2>7. DOMAIN seen \subseteq ItemIds /\ \A i \in DOMAIN seen : seen[i] \in Item
    BY <1>2, <2>1, <2>3, <2>6
  <2>8. SessionTypes(h)'  BY <2>4, <2>5, <2>7 DEF SessionTypes
  <2>9. CatalogTypes'  BY <1>1, <2>2, <2>8, TypesButOne
  <2>10. Lone(h) => \A i \in DOMAIN seen : seen[i] = entry[i]  BY <1>3, <2>1, <2>3
  <2>11. Lone(h) => Faithful(h)'  BY <1>1, <2>4, <2>5, <2>10 DEF Faithful
  <2>12. ~Settled'  BY <2>4, <2>5 DEF Settled, Active
  <2>13. QED  BY <1>1, <1>5, <2>2, <2>4, <2>9, <2>11, <2>12, AdvanceStep
<1>6. QED  BY <1>4, <1>5 DEF Reload

\* The copies of a lone session are those of all joined rows then.
LEMMA ReadEntriesStep ==
    ASSUME CatalogInv, NEW h \in CatalogHandlers, ReadEntries(h) PROVE CatalogInv'
<1> DEFINE s == session[h]
           found == Restrict(entry, Joined)
           seen == Over(s.seen, found)
           t == [pc |-> "sets", seen |-> seen, empty |-> s.empty, weights |-> Joined]
<1>1. /\ s.pc = "entries" /\ Active(h) /\ entry' = entry /\ allowEmpty' = allowEmpty
      /\ UNCHANGED <<disturbed, stale, cache>> /\ session' = [session EXCEPT ![h] = t]
      /\ DOMAIN session = CatalogHandlers /\ entry \in [ItemIds -> Item \cup {Absent}]
  BY DEF ReadEntries, Active, CatalogInv, CatalogTypes
<1>2. DOMAIN s.seen \subseteq ItemIds /\ \A i \in DOMAIN s.seen : s.seen[i] \in Item
  BY <1>1 DEF CatalogInv, CatalogTypes, SessionTypes
<1>3. Lone(h) => s.empty = allowEmpty /\ \A i \in DOMAIN s.seen : s.seen[i] = entry[i]
  BY <1>1 DEF CatalogInv, Faithful
<1>4. DOMAIN found = Joined /\ \A i \in Joined : found[i] = entry[i]
  BY DEF Restrict
<1>5. Joined \subseteq ItemIds /\ \A i \in Joined : entry[i] \in Item
  BY <1>1, WeightIds DEF Joined, ItemExists
<1> HIDE DEF s, found
<1>6. /\ DOMAIN seen = DOMAIN s.seen \cup DOMAIN found
      /\ \A i \in DOMAIN s.seen : seen[i] = s.seen[i]
      /\ \A i \in DOMAIN found \ DOMAIN s.seen : seen[i] = found[i]
  BY OverRows
<1> HIDE DEF seen
<1>7. t.pc = "sets" /\ t.seen = seen /\ t.empty = s.empty /\ t.weights = Joined  OBVIOUS
<1> HIDE DEF t
<1>8. session'[h] = t  BY <1>1
<1>9. DOMAIN seen \subseteq ItemIds /\ \A i \in DOMAIN seen : seen[i] \in Item
  BY <1>2, <1>4, <1>5, <1>6
<1>10. SessionTypes(h)'  BY <1>7, <1>8, <1>9 DEF SessionTypes
<1>11. CatalogTypes'  BY <1>1, <1>10, TypesButOne
<1>12. Lone(h) => \A i \in DOMAIN seen : seen[i] = entry[i]  BY <1>3, <1>4, <1>6
<1>13. Joined \subseteq DOMAIN seen  BY <1>4, <1>6
<1>14. Lone(h) => Faithful(h)'
  BY <1>1, <1>3, <1>7, <1>8, <1>12, <1>13, CurrentKept DEF Faithful
<1>15. ~Settled'  BY <1>7, <1>8 DEF Settled, Active
<1>16. QED  BY <1>1, <1>7, <1>11, <1>14, <1>15, AdvanceStep

\* The snapshot a lone session installs is the current one.
LEMMA InstallSnapshotStep ==
    ASSUME CatalogInv, NEW h \in CatalogHandlers, InstallSnapshot(h) PROVE CatalogInv'
<1> DEFINE s == session[h]
           found == Loaded(ModelSets)
           seen == Over(s.seen, found)
           listed == {w \in s.weights : SetOf(w) \in DOMAIN seen}
<1>1. /\ s.pc = "sets" /\ Active(h) /\ entry' = entry /\ allowEmpty' = allowEmpty /\ Leave(h, TRUE)
      /\ cache' = [recs |-> Records(listed, seen), empty |-> s.empty]
      /\ DOMAIN session = CatalogHandlers /\ entry \in [ItemIds -> Item \cup {Absent}]
  BY DEF InstallSnapshot, Active, CatalogInv, CatalogTypes
<1>2. session' = [session EXCEPT ![h] = Resting] /\ disturbed' = disturbed \ {h}
  BY <1>1 DEF Leave
<1>3. SessionTypes(h)'  BY <1>1, <1>2 DEF SessionTypes, Resting
<1>4. CatalogTypes'  BY <1>1, <1>2, <1>3, TypesButOne
<1>5. ASSUME Settled', ~stale' PROVE cache' = Current'
  <2>1. Lone(h)  BY <1>1, <1>5 DEF Leave, Lone
  <2>2. /\ s.empty = allowEmpty /\ s.weights = Joined /\ Joined \subseteq DOMAIN s.seen
        /\ \A i \in DOMAIN s.seen : s.seen[i] = entry[i]
    BY <1>1, <2>1 DEF CatalogInv, Faithful
  <2>3. /\ DOMAIN found = {i \in ModelSets : ItemExists(i)}
        /\ \A i \in DOMAIN found : found[i] = entry[i]
    <3>1. ModelSets \in SUBSET ItemIds  BY DEF ItemIds
    <3>2. QED  BY <3>1, LoadedRows DEF CatalogInv
  <2>4. \A w \in Joined : SetOf(w) \in DOMAIN found
    BY <2>3, WeightIds DEF Joined
  <2> HIDE DEF s, found
  <2>5. /\ DOMAIN seen = DOMAIN s.seen \cup DOMAIN found
        /\ \A i \in DOMAIN s.seen : seen[i] = s.seen[i]
        /\ \A i \in DOMAIN found \ DOMAIN s.seen : seen[i] = found[i]
    BY OverRows
  <2> HIDE DEF seen
  <2>6. listed = Joined  BY <2>2, <2>4, <2>5
  <2>7. \A w \in Joined : seen[w] = entry[w] /\ seen[SetOf(w)] = entry[SetOf(w)]
    BY <2>2, <2>3, <2>4, <2>5
  <2>8. Records(Joined, seen) = Records(Joined, entry)  BY <2>7 DEF Records
  <2> HIDE DEF listed
  <2>9. cache' = Current  BY <1>1, <2>2, <2>6, <2>8 DEF Current
  <2>10. QED  BY <1>1, <2>9, CurrentKept
<1>6. Resting.pc = "idle"  BY DEF Resting
<1>7. QED  BY <1>1, <1>2, <1>4, <1>5, <1>6, AdvanceStep

\* Files on the disk are not part of the tables.
LEMMA ChangeFilesStep == ASSUME CatalogInv, ChangeFiles PROVE CatalogInv'
<1>1. /\ entry' = entry /\ allowEmpty' = allowEmpty /\ cache' = cache /\ session' = session
      /\ disturbed' = disturbed /\ stale' = stale
  BY DEF ChangeFiles
<1>2. Current' = Current /\ Joined' = Joined  BY <1>1, CurrentKept
<1>3. CatalogTypes'  BY <1>1 DEF CatalogInv, CatalogTypes, SessionTypes
<1>4. ASSUME NEW h \in CatalogHandlers, Lone(h)'
      PROVE  Faithful(h)' /\ \A g \in CatalogHandlers \ {h} : ~Active(g)'
  BY <1>1, <1>2, <1>4 DEF CatalogInv, Lone, Active, Faithful
<1>5. Settled' => Settled  BY <1>1 DEF Settled, Lone, Active
<1>6. QED  BY <1>1, <1>2, <1>3, <1>4, <1>5 DEF CatalogInv

\* A new process starts with the tables.
LEMMA RestartCatalogStep == ASSUME CatalogInv, RestartCatalog PROVE CatalogInv'
<1>1. /\ entry' = entry /\ allowEmpty' = allowEmpty /\ cache' = Current
      /\ session' = [h \in CatalogHandlers |-> Resting]
  BY DEF RestartCatalog
<1>2. Current' = Current  BY <1>1, CurrentKept
<1>3. \A h \in CatalogHandlers : session'[h] = Resting  BY <1>1
<1>4. CatalogTypes'
  BY <1>1, <1>3 DEF CatalogInv, CatalogTypes, SessionTypes, Resting
<1>5. \A h \in CatalogHandlers : ~Lone(h)'  BY <1>3 DEF Lone, Active, Resting
<1>6. QED  BY <1>1, <1>2, <1>4, <1>5 DEF CatalogInv

-----------------------------------------------------------------------------

\* The invariant holds after the startup.
LEMMA CatalogStart == CatalogInit => CatalogInv
<1> SUFFICES ASSUME CatalogInit PROVE CatalogInv  OBVIOUS
<1>1. \A h \in CatalogHandlers : session[h] = Resting  BY DEF CatalogInit
<1>2. [on |-> TRUE, why |-> "none"] \in Item  BY DEF Item, Reasons
<1>3. entry \in [ItemIds -> Item \cup {Absent}]  BY <1>2 DEF CatalogInit
<1>4. CatalogTypes  BY <1>1, <1>3 DEF CatalogInit, CatalogTypes, SessionTypes, Resting
<1>5. \A h \in CatalogHandlers : ~Lone(h)  BY <1>1 DEF Lone, Active, Resting
<1>6. QED  BY <1>4, <1>5 DEF CatalogInv, CatalogInit

\* Every step keeps it.
LEMMA CatalogInductive == CatalogInv /\ [CatalogNext]_catalogVars => CatalogInv'
<1> SUFFICES ASSUME CatalogInv, [CatalogNext]_catalogVars PROVE CatalogInv'  OBVIOUS
<1>1. CASE UNCHANGED catalogVars
  BY <1>1 DEF catalogVars, CatalogInv, CatalogTypes, SessionTypes, Faithful, Settled, Lone, Active,
              Current, Joined, ItemExists, SetOf
<1>2. CASE CatalogNext
  <2>1. ASSUME NEW h \in CatalogHandlers,
               \/ CreateSet(h) \/ CreateWeight(h) \/ UpdateSet(h) \/ UpdateWeight(h)
               \/ DeleteSet(h) \/ DeleteWeight(h) \/ SaveAllowEmpty(h) \/ ListSets(h)
        PROVE  CatalogInv'
    BY <2>1, CreateSetStep, CreateWeightStep, UpdateSetStep, UpdateWeightStep, DeleteSetStep,
       DeleteWeightStep, SaveAllowEmptyStep, ListSetsStep
  <2>2. ASSUME NEW h \in CatalogHandlers,
               CommitItems(h) \/ InsertSet(h) \/ Reload(h) \/ ReadEntries(h) \/ InstallSnapshot(h)
        PROVE  CatalogInv'
    BY <2>2, CommitItemsStep, InsertSetStep, ReloadStep, ReadEntriesStep, InstallSnapshotStep
  <2>3. QED  BY <1>2, <2>1, <2>2, ChangeFilesStep, RestartCatalogStep DEF CatalogNext
<1>3. QED  BY <1>1, <1>2

\* Whenever no request is open and the last one was not overlapped, the snapshot
\* that jobs and capabilities read says what the tables say.
THEOREM SnapshotFollowsTables == CatalogSpec => []CacheIsCurrent
<1>1. CatalogInv => CacheIsCurrent
  BY DEF CatalogInv, Settled, Active, CacheIsCurrent
<1>2. QED  BY CatalogStart, CatalogInductive, <1>1, PTL DEF CatalogSpec

-----------------------------------------------------------------------------
(* Preferences. *)

Switches == [Features -> BOOLEAN]
SystemPrefs == [on : Switches, has : Switches]

\* What the checks have seen of the preferences, and made of them.
Checked(s) ==
    /\ s.pc = "check" => s.ask \in SaveRequest
    /\ s.pc = "commit" => s.base \in SystemPrefs /\ s.prefs \in SystemPrefs /\ Coherent(s.prefs)

FeatureInv ==
    /\ prefs \in SystemPrefs
    /\ saving = [h \in SaveHandlers |-> saving[h]]
    /\ \A h \in SaveHandlers : Checked(saving[h])
    /\ FeaturesAreConfigured

\* The columns of a row.
IsRow(row) == DOMAIN row = {"val", "cap", "allow", "follow", "stamp"} /\ DOMAIN row.follow = Groups

\* A row follows the administrators wherever no save of its user departed.
Follower(u) ==
    /\ IsRow(settings[u])
    /\ \A g \in Groups \ departed[u] : settings[u].follow[g]

\* A save works on a row that is there.  What a plain user saves follows where
\* its values are the administrators'; nobody else's save writes the flags.
Saved(s) == s.pc \in {"check", "commit"} =>
    /\ s.user \in Users /\ IsRow(s.old) /\ Follower(s.user)
    /\ s.pc = "commit" /\ s.plain => \A g \in Groups \ s.left : s.row.follow[g]
    /\ s.pc = "commit" /\ ~s.plain => s.row.follow = s.old.follow

FollowInv ==
    /\ settings = [u \in Users |-> settings[u]]
    /\ departed = [u \in Users |-> departed[u]]
    /\ saving = [h \in SaveHandlers |-> saving[h]]
    /\ \A u \in Users : HasRow(u) => Follower(u)
    /\ \A h \in SaveHandlers : Saved(saving[h])

-----------------------------------------------------------------------------
(* Features. *)

LEMMA AskedIsTyped ==
  ASSUME NEW q \in SaveRequest, NEW p \in SystemPrefs
  PROVE  AskedPrefs(q, p) \in SystemPrefs
<1>1. q.what \in {"on", "has"} => q.to \in BOOLEAN
  BY DEF SaveRequest
<1>2. CASE q.what = "on"
  BY <1>1, <1>2 DEF AskedPrefs, SystemPrefs, Switches
<1>3. CASE q.what = "has"
  BY <1>1, <1>3 DEF AskedPrefs, SystemPrefs, Switches
<1>4. CASE q.what \notin {"on", "has"}
  BY <1>4 DEF AskedPrefs
<1> QED BY <1>2, <1>3, <1>4

\* Where a switch differs from the copy or the copy is the present, merging
\* yields what was checked.
LEMMA MergeIsTyped ==
  ASSUME NEW old \in Switches, NEW new \in Switches, NEW current \in Switches
  PROVE  /\ MergedBy(old, new, current) \in Switches
         /\ current = old => MergedBy(old, new, current) = new
  BY DEF MergedBy, Merged, Switches

\* Every step keeps the features configured.
LEMMA FeatureStep == FeatureInv /\ [PrefNext]_prefVars => FeatureInv'
<1> SUFFICES ASSUME FeatureInv, [PrefNext]_prefVars PROVE FeatureInv'
  OBVIOUS
<1>1. ASSUME NEW h \in SaveHandlers, BeginSave(h) PROVE FeatureInv'
  <2>1. PICK u \in Users, q \in SaveRequest :
          saving' = [saving EXCEPT ![h] = [pc |-> "check", user |-> u, plain |-> u \notin staff,
                                           ask |-> q, old |-> RowOf(u)]]
    BY <1>1 DEF BeginSave
  <2>2. UNCHANGED <<prefs, raced>>
    BY <1>1 DEF BeginSave
  <2>3. \A g \in SaveHandlers : Checked(saving'[g])
    BY <2>1 DEF FeatureInv, Checked
  <2> QED BY <2>1, <2>2, <2>3 DEF FeatureInv, FeaturesAreConfigured, Coherent, Checked
<1>2. ASSUME NEW h \in SaveHandlers, CheckSave(h) PROVE FeatureInv'
  <2> DEFINE s == saving[h]
             p == AskedPrefs(s.ask, prefs)
  <2>1. s.ask \in SaveRequest /\ p \in SystemPrefs /\ prefs \in SystemPrefs
    BY <1>2, AskedIsTyped DEF CheckSave, FeatureInv, Checked
  <2> DEFINE new == saving'[h]
  <2>2. \/ new = NoSave
        \/ new.pc = "commit" /\ new.base = prefs /\ new.prefs = p /\ Coherent(p)
    BY <1>2 DEF CheckSave, FeatureInv
  <2>3. /\ saving' = [g \in SaveHandlers |-> saving'[g]]
        /\ \A g \in SaveHandlers \ {h} : saving'[g] = saving[g]
        /\ UNCHANGED <<prefs, raced>>
    BY <1>2 DEF CheckSave, FeatureInv
  <2> HIDE DEF new, p
  <2>4. Checked(new)
    BY <2>1, <2>2 DEF Checked, NoSave
  <2>5. \A g \in SaveHandlers : Checked(saving'[g])
    BY <2>3, <2>4 DEF FeatureInv, new
  <2> QED BY <2>3, <2>5 DEF FeatureInv, FeaturesAreConfigured, Coherent, Checked
<1>3. ASSUME NEW h \in SaveHandlers, CommitSave(h) PROVE FeatureInv'
  <2> DEFINE s == saving[h]
  <2>1. s.base \in SystemPrefs /\ s.prefs \in SystemPrefs /\ Coherent(s.prefs) /\ prefs \in SystemPrefs
    BY <1>3 DEF CommitSave, FeatureInv, Checked
  <2>2. /\ prefs' = [on |-> MergedBy(s.base.on, s.prefs.on, prefs.on),
                     has |-> MergedBy(s.base.has, s.prefs.has, prefs.has)]
        /\ raced' = (prefs # s.base)
    BY <1>3 DEF CommitSave
  <2>3. /\ s.base.on \in Switches /\ s.prefs.on \in Switches /\ prefs.on \in Switches
        /\ s.base.has \in Switches /\ s.prefs.has \in Switches /\ prefs.has \in Switches
    BY <2>1 DEF SystemPrefs
  <2>4. prefs' \in SystemPrefs
    BY <2>2, <2>3, MergeIsTyped DEF SystemPrefs
  <2>5. ~raced' => prefs' = [on |-> s.prefs.on, has |-> s.prefs.has]
    <3>1. ASSUME ~raced' PROVE prefs.on = s.base.on /\ prefs.has = s.base.has
      BY <2>2, <3>1
    <3>2. ~raced' => /\ MergedBy(s.base.on, s.prefs.on, prefs.on) = s.prefs.on
                     /\ MergedBy(s.base.has, s.prefs.has, prefs.has) = s.prefs.has
      BY <2>3, <3>1, MergeIsTyped
    <3> QED BY <2>2, <3>2
  <2>6. FeaturesAreConfigured'
    BY <2>1, <2>5 DEF FeaturesAreConfigured, Coherent
  <2>7. /\ saving' = [g \in SaveHandlers |-> saving'[g]]
        /\ saving'[h].pc = "schedule"
        /\ \A g \in SaveHandlers \ {h} : saving'[g] = saving[g]
    BY <1>3 DEF CommitSave, FeatureInv
  <2>8. \A g \in SaveHandlers : Checked(saving'[g])
    BY <2>7 DEF FeatureInv, Checked
  <2> QED BY <2>4, <2>6, <2>7, <2>8 DEF FeatureInv, Checked, Coherent
<1>4. ASSUME NEW h \in SaveHandlers, ScheduleLimit(h) PROVE FeatureInv'
  BY <1>4 DEF ScheduleLimit, NoSave, FeatureInv, FeaturesAreConfigured, Coherent, Checked
<1>5. CASE RestartPreferences
  BY <1>5 DEF RestartPreferences, NoSave, FeatureInv, FeaturesAreConfigured, Coherent, Checked
<1>6. CASE UNCHANGED prefVars \/ \E u \in Users : SetRole(u)
  BY <1>6 DEF prefVars, SetRole, FeatureInv, FeaturesAreConfigured, Coherent, Checked
<1> QED BY <1>1, <1>2, <1>3, <1>4, <1>5, <1>6 DEF PrefNext

\* update_settings checks the preferences it is about to commit as a whole: what
\* is switched on has what it needs after every save that no other one raced.
THEOREM FeaturesStayConfigured == PreferencesSpec => []FeaturesAreConfigured
<1>1. PrefInit => FeatureInv
  BY DEF PrefInit, NoSave, FeatureInv, FeaturesAreConfigured, Coherent, Checked, SystemPrefs, Switches
<1>2. FeatureInv => FeaturesAreConfigured
  BY DEF FeatureInv
<1> QED BY <1>1, <1>2, FeatureStep, PTL DEF PreferencesSpec

-----------------------------------------------------------------------------
(* Defaults. *)

\* A new row follows in everything.
LEMMA NewRowFollows ==
  ASSUME NEW u
  PROVE  IsRow(NewRow(u)) /\ \A g \in Groups : NewRow(u).follow[g]
<1>1. ASSUME NEW t PROVE IsRow(TableDefaults(t)) /\ \A g \in Groups : TableDefaults(t).follow[g]
  BY DEF TableDefaults, IsRow
<1>2. ASSUME NEW row, NEW val, NEW cap, IsRow(row)
      PROVE  LET e == [row EXCEPT !.val = val, !.cap = cap] IN IsRow(e) /\ e.follow = row.follow
  BY <1>2 DEF IsRow
<1>3. CASE u \in staff
  BY <1>1, <1>3 DEF NewRow
<1>4. CASE u \notin staff
  <2>1. PICK t, val, cap : NewRow(u) = [TableDefaults(t) EXCEPT !.val = val, !.cap = cap]
    BY <1>4 DEF NewRow
  <2>2. IsRow(NewRow(u)) /\ NewRow(u).follow = TableDefaults(t).follow
    BY <2>1 DEF TableDefaults, IsRow
  <2> QED BY <1>1, <2>2
<1> QED BY <1>3, <1>4

\* What a save asks for follows where it leaves the administrators' values.
LEMMA AskedFollows ==
  ASSUME NEW s, IsRow(s.old), NEW admin
  PROVE  /\ s.plain => \A g \in Groups : Asked(s, admin).val[g] = admin.val[g] => Asked(s, admin).follow[g]
         /\ ~s.plain => Asked(s, admin).follow = s.old.follow
<1> DEFINE q == s.ask
           val == IF q.what \in {"value", "section"} THEN [s.old.val EXCEPT ![q.key] = q.val] ELSE s.old.val
           allow == IF q.what = "allow" THEN [s.old.allow EXCEPT ![q.key] = q.to] ELSE s.old.allow
           cap == IF q.what = "cap" THEN q.cap ELSE s.old.cap
           new == [s.old EXCEPT !.val = val, !.allow = allow, !.cap = cap]
           following == [g \in Groups |-> Follows(g, new, admin)]
<1>1. Asked(s, admin) = IF s.plain THEN [new EXCEPT !.follow = following] ELSE new
  BY DEF Asked
<1>2. \A g \in Groups : new.val[g] = admin.val[g] => following[g]
  BY DEF Follows
<1> HIDE DEF val, allow, cap, following
<1>3. DOMAIN new = DOMAIN s.old /\ new.follow = s.old.follow
  BY DEF IsRow
<1> HIDE DEF new
<1>4. [new EXCEPT !.follow = following].follow = following /\ [new EXCEPT !.follow = following].val = new.val
  BY <1>3 DEF IsRow
<1> QED BY <1>1, <1>2, <1>3, <1>4

\* Where a merge writes, or the copy is the present, it yields what was asked.
LEMMA MergedAt ==
  ASSUME NEW old, NEW new, NEW current, NEW k \in DOMAIN current
  PROVE  /\ DOMAIN MergedBy(old, new, current) = DOMAIN current
         /\ MergedBy(old, new, current)[k] \in {current[k], new[k]}
         /\ current = old => MergedBy(old, new, current)[k] = new[k]
         /\ new = old => MergedBy(old, new, current)[k] = current[k]
  BY DEF MergedBy, Merged

\* The commit of a save.
LEMMA CommitFollows ==
  ASSUME FollowInv, NEW h \in SaveHandlers, CommitSave(h), NEW u, u = saving[h].user
  PROVE  Follower(u)'
<1> DEFINE s == saving[h]
           row == settings[u]
           flags == MergedBy(s.old.follow, s.row.follow, row.follow)
<1>1. /\ u \in Users /\ s.pc = "commit" /\ Follower(u)
      /\ s.plain => \A g \in Groups \ s.left : s.row.follow[g]
      /\ ~s.plain => s.row.follow = s.old.follow
  BY DEF FollowInv, Saved, CommitSave
<1>2. DOMAIN row.follow = Groups /\ \A g \in Groups \ departed[u] : row.follow[g]
  BY <1>1 DEF Follower, IsRow
<1>3. /\ DOMAIN settings'[u] = {"val", "cap", "allow", "follow", "stamp"}
      /\ settings'[u].follow = flags
      /\ departed'[u] = IF ~s.plain THEN departed[u] ELSE IF row = s.old THEN s.left
                        ELSE departed[u] \cup s.left
  <2>1. u \in DOMAIN settings /\ u \in DOMAIN departed
    BY <1>1 DEF FollowInv
  <2>2. /\ settings' = [settings EXCEPT ![u] =
             [val |-> MergedBy(s.old.val, s.row.val, row.val),
              allow |-> MergedBy(s.old.allow, s.row.allow, row.allow),
              follow |-> flags,
              cap |-> Merged(s.old.cap, s.row.cap, row.cap),
              stamp |-> NextStamp]]
        /\ departed' = [departed EXCEPT ![u] =
             IF ~s.plain THEN @ ELSE IF row = s.old THEN s.left ELSE @ \cup s.left]
    BY DEF CommitSave
  <2> HIDE DEF s, row, flags
  <2> QED BY <2>1, <2>2
<1> HIDE DEF s, row
<1>4. DOMAIN flags = Groups
  BY <1>2 DEF MergedBy
<1>5. ASSUME NEW g \in Groups \ departed'[u] PROVE flags[g]
  <2>0. /\ flags[g] \in {row.follow[g], s.row.follow[g]}
        /\ row.follow = s.old.follow => flags[g] = s.row.follow[g]
        /\ s.row.follow = s.old.follow => flags[g] = row.follow[g]
    BY <1>2, MergedAt
  <2> HIDE DEF flags
  <2>1. CASE ~s.plain
    <3>1. g \notin departed[u] /\ flags[g] = row.follow[g]
      BY <1>1, <1>3, <1>5, <2>0, <2>1
    <3> QED BY <1>2, <1>5, <3>1
  <2>2. CASE s.plain /\ row = s.old
    <3>1. g \notin s.left /\ flags[g] = s.row.follow[g]
      BY <1>3, <1>5, <2>0, <2>2
    <3> QED BY <1>1, <1>5, <2>2, <3>1
  <2>3. CASE s.plain /\ row # s.old
    <3>1. g \notin s.left /\ g \notin departed[u]
      BY <1>3, <1>5, <2>3
    <3>2. row.follow[g] /\ s.row.follow[g]
      BY <1>1, <1>2, <1>5, <2>3, <3>1
    <3> QED BY <2>0, <3>2
  <2> QED BY <2>1, <2>2, <2>3
<1> HIDE DEF flags
<1> QED BY <1>3, <1>4, <1>5 DEF Follower, IsRow

\* Every step keeps the rows following.
LEMMA FollowStep == FollowInv /\ [PrefNext]_prefVars => FollowInv'
<1> SUFFICES ASSUME FollowInv, [PrefNext]_prefVars PROVE FollowInv'
  OBVIOUS
<1>1. ASSUME NEW h \in SaveHandlers, NEW u \in Users, Follower(u)',
             settings' = [settings EXCEPT ![u] = settings'[u]],
             departed' = [departed EXCEPT ![u] = departed'[u]],
             saving' = [saving EXCEPT ![h] = saving'[h]],
             saving'[h].pc = "check" => saving'[h].user = u /\ IsRow(saving'[h].old),
             saving'[h].pc # "commit"
      PROVE  FollowInv'
  <2>1. ASSUME NEW v \in Users, v # u PROVE settings'[v] = settings[v] /\ departed'[v] = departed[v]
    BY <1>1, <2>1 DEF FollowInv
  <2>2. \A v \in Users : Follower(v) => Follower(v)'
    BY <1>1, <2>1 DEF Follower, IsRow
  <2>3. \A v \in Users : HasRow(v)' => Follower(v)'
    BY <1>1, <2>1, <2>2 DEF FollowInv, HasRow
  <2>4. ASSUME NEW k \in SaveHandlers PROVE Saved(saving[k])'
    <3>1. CASE k = h
      BY <1>1, <3>1 DEF Saved, IsRow
    <3>2. CASE k # h
      <4>1. saving'[k] = saving[k] /\ Saved(saving[k])
        BY <1>1, <3>2 DEF FollowInv
      <4> QED BY <2>2, <4>1 DEF Saved, IsRow
    <3> QED BY <3>1, <3>2
  <2>5. /\ settings' = [v \in Users |-> settings'[v]]
        /\ departed' = [v \in Users |-> departed'[v]]
        /\ saving' = [k \in SaveHandlers |-> saving'[k]]
    BY <1>1 DEF FollowInv
  <2> QED BY <2>3, <2>4, <2>5 DEF FollowInv
<1>2. ASSUME NEW h \in SaveHandlers, BeginSave(h) PROVE FollowInv'
  <2>1. PICK u \in Users, q \in SaveRequest :
          /\ settings' = [settings EXCEPT ![u] = RowOf(u)]
          /\ saving' = [saving EXCEPT ![h] = [pc |-> "check", user |-> u, plain |-> u \notin staff,
                                              ask |-> q, old |-> RowOf(u)]]
    BY <1>2 DEF BeginSave
  <2>2. IsRow(RowOf(u)) /\ \A g \in Groups \ departed[u] : RowOf(u).follow[g]
    BY NewRowFollows DEF RowOf, FollowInv, Follower
  <2>3. departed' = departed /\ settings'[u] = RowOf(u)
    BY <1>2, <2>1 DEF BeginSave, FollowInv
  <2>4. Follower(u)'
    BY <2>2, <2>3 DEF Follower, IsRow
  <2>5. saving'[h] = [pc |-> "check", user |-> u, plain |-> u \notin staff, ask |-> q, old |-> RowOf(u)]
    BY <2>1 DEF FollowInv
  <2>6. departed' = [departed EXCEPT ![u] = departed'[u]]
    BY <2>3 DEF FollowInv
  <2>7. /\ settings' = [settings EXCEPT ![u] = settings'[u]]
        /\ saving' = [saving EXCEPT ![h] = saving'[h]]
    BY <2>1, <2>3, <2>5
  <2>8. saving'[h].pc = "check" /\ saving'[h].user = u /\ saving'[h].old = RowOf(u)
    BY <2>5
  <2>9. saving'[h].pc # "commit" /\ IsRow(saving'[h].old)
    BY <2>2, <2>8
  <2> QED BY <1>1, <2>4, <2>6, <2>7, <2>8, <2>9
<1>3. ASSUME NEW h \in SaveHandlers, CheckSave(h) PROVE FollowInv'
  <2> DEFINE s == saving[h]
             new == Asked(s, AdminRow)
             left == {g \in Groups : new.val[g] # AdminRow.val[g]}
  <2>1. s.user \in Users /\ IsRow(s.old) /\ Follower(s.user)
    BY <1>3 DEF CheckSave, FollowInv, Saved
  <2>2. /\ UNCHANGED <<settings, departed>>
        /\ saving' = [k \in SaveHandlers |-> saving'[k]]
        /\ \A k \in SaveHandlers \ {h} : saving'[k] = saving[k]
        /\ \/ saving'[h] = NoSave
           \/ /\ saving'[h].pc = "commit" /\ saving'[h].user = s.user /\ saving'[h].plain = s.plain
              /\ saving'[h].old = s.old /\ saving'[h].row = new /\ saving'[h].left = left
    BY <1>3 DEF CheckSave, FollowInv
  <2>3. /\ s.plain => \A g \in Groups : new.val[g] = AdminRow.val[g] => new.follow[g]
        /\ ~s.plain => new.follow = s.old.follow
    <3> HIDE DEF s
    <3> QED BY <2>1, AskedFollows
  <2>4. s.plain => \A g \in Groups \ left : new.follow[g]
    BY <2>3
  <2> HIDE DEF s, new, left
  <2>5. \A u \in Users : (HasRow(u) <=> HasRow(u)') /\ (Follower(u) <=> Follower(u)')
    BY <2>2 DEF HasRow, Follower, IsRow
  <2>6. Saved(saving[h])'
    BY <2>1, <2>2, <2>3, <2>4, <2>5 DEF Saved, NoSave, IsRow
  <2>7. \A k \in SaveHandlers \ {h} : Saved(saving[k])'
    BY <2>2, <2>5 DEF FollowInv, Saved, IsRow
  <2> QED BY <2>2, <2>5, <2>6, <2>7 DEF FollowInv
<1>4. ASSUME NEW h \in SaveHandlers, CommitSave(h) PROVE FollowInv'
  <2>1. PICK u \in Users : u = saving[h].user
    BY <1>4 DEF CommitSave, FollowInv, Saved
  <2>2. /\ settings' = [settings EXCEPT ![u] = settings'[u]]
        /\ departed' = [departed EXCEPT ![u] = departed'[u]]
        /\ saving' = [saving EXCEPT ![h] = saving'[h]]
        /\ saving'[h].pc = "schedule"
    BY <1>4, <2>1 DEF CommitSave, FollowInv
  <2>3. Follower(u)'
    BY <1>4, <2>1, CommitFollows
  <2>4. saving'[h].pc # "check" /\ saving'[h].pc # "commit"
    BY <2>2
  <2> QED BY <1>1, <2>2, <2>3, <2>4
<1>5. ASSUME NEW h \in SaveHandlers, ScheduleLimit(h) PROVE FollowInv'
  BY <1>5 DEF ScheduleLimit, NoSave, FollowInv, HasRow, Follower, Saved, IsRow
<1>6. CASE RestartPreferences
  BY <1>6 DEF RestartPreferences, NoSave, FollowInv, HasRow, Follower, Saved, IsRow
<1>7. CASE UNCHANGED prefVars \/ \E u \in Users : SetRole(u)
  BY <1>7 DEF prefVars, SetRole, FollowInv, HasRow, Follower, Saved, IsRow
<1> QED BY <1>2, <1>3, <1>4, <1>5, <1>6, <1>7 DEF PrefNext

\* get_or_create_settings makes rows that follow, _apply_settings ends it where a
\* user who is no administrator saves another value, and build_effective_defaults
\* heeds the policy before the row: nothing administrators do comes between.
THEOREM DefaultsStayReached == PreferencesSpec => []DefaultsReach
<1>1. PrefInit => FollowInv
  <2> SUFFICES ASSUME PrefInit PROVE FollowInv
    OBVIOUS
  <2>1. /\ settings = [u \in Users |-> IF u = Root THEN TableDefaults(0) ELSE NoSettings]
        /\ departed = [u \in Users |-> {}] /\ saving = [h \in SaveHandlers |-> NoSave]
    BY DEF PrefInit
  <2>2. \A u \in Users : HasRow(u) => settings[u] = TableDefaults(0)
    BY <2>1 DEF HasRow
  <2>3. IsRow(TableDefaults(0)) /\ \A g \in Groups : TableDefaults(0).follow[g]
    BY DEF TableDefaults, IsRow
  <2>4. \A u \in Users : HasRow(u) => Follower(u)
    BY <2>2, <2>3 DEF Follower
  <2> QED BY <2>1, <2>4 DEF FollowInv, Saved, NoSave
<1>2. FollowInv => DefaultsReach
  <2> SUFFICES ASSUME FollowInv, NEW u \in Users, NEW g \in Groups,
                      ~(AdminRow.allow[g] /\ g \in departed[u])
               PROVE  /\ u \in staff \/ AtCreation(u, g) = AdminRow.val[g]
                      /\ ~HasRow(u) \/ AtRun(u, g) = AdminRow.val[g]
    BY DEF DefaultsReach
  <2>1. ASSUME NEW row, AdminRow.allow[g] => row.follow[g] PROVE Resolved(row, g) = AdminRow.val[g]
    BY <2>1 DEF Resolved
  <2>2. HasRow(u) /\ AdminRow.allow[g] => settings[u].follow[g]
    BY DEF FollowInv, Follower
  <2>3. AdminRow.allow[g] => RowOf(u).follow[g]
    BY <2>2, NewRowFollows DEF RowOf
  <2> QED BY <2>1, <2>2, <2>3 DEF AtCreation, AtRun
<1> QED BY <1>1, <1>2, FollowStep, PTL DEF PreferencesSpec

-----------------------------------------------------------------------------
(* The rate limiter.  The two numbers a bucket keeps summarise its history: *)
(* what was granted since any earlier moment is covered by the tokens that  *)
(* are gone (Covered), and from some moment on it is all of them (Tight),   *)
(* the last moment at which the bucket was full.                            *)

RateTypeOK ==
    /\ now \in Moments
    /\ level \in [RateKeys -> 0..Minute]
    /\ lastRefill \in [RateKeys -> 0..now]
    /\ spent \in [RateKeys -> [Moments -> Int]]

Covered(k) == \A s \in Moments :
    IF s <= lastRefill[k] THEN spent[k][s] + level[k] <= Minute + (lastRefill[k] - s)
    ELSE spent[k][s] = 0

Tight(k) == \E s \in Moments :
    s <= lastRefill[k] /\ spent[k][s] + level[k] = Minute + (lastRefill[k] - s)

RateInv == RateTypeOK /\ \A k \in RateKeys : Covered(k) /\ Tight(k)

\* What a token costs is positive and no more than a full bucket holds.
LEMMA CostRange == \A k \in RateKeys : Cost(k) \in 1..Minute
  BY RateConstants DEF Cost

\* Every bucket is full at first, and nothing was granted.
LEMMA RateInvInit == RateInit => RateInv
<1> SUFFICES ASSUME RateInit PROVE RateInv
  OBVIOUS
<1> USE RateConstants
<1>1. RateTypeOK
  BY DEF RateInit, RateTypeOK, Moments
<1>2. ASSUME NEW k \in RateKeys PROVE Covered(k)
  BY DEF RateInit, Covered, Moments
<1>3. ASSUME NEW k \in RateKeys PROVE Tight(k)
  <2>1. 0 \in Moments /\ 0 <= lastRefill[k] /\ spent[k][0] + level[k] = Minute + (lastRefill[k] - 0)
    BY DEF RateInit, Moments
  <2> QED BY <2>1 DEF Tight
<1> QED BY <1>1, <1>2, <1>3 DEF RateInv

\* A request leaves the history of its bucket summarised: refilling moves the
\* bound along, granting adds to one side what it takes from the other, and a
\* bucket that overflows is full now.
LEMMA RequestKeeps ==
  ASSUME RateInv, NEW k \in RateKeys, IsAllowed(k)
  PROVE  RateInv'
<1> USE RateConstants
<1> DEFINE sum == level[k] + (now - lastRefill[k])
           c == IF Allowed(k) THEN Cost(k) ELSE 0
<1>1. /\ now \in Int /\ level[k] \in Int /\ lastRefill[k] \in Int /\ Cost(k) \in Int /\ Minute \in Int
      /\ 0 <= level[k] /\ level[k] <= Minute /\ 0 <= lastRefill[k] /\ lastRefill[k] <= now
      /\ 1 <= Cost(k) /\ Cost(k) <= Minute
      /\ now \in Moments /\ spent[k] \in [Moments -> Int]
  BY CostRange DEF RateInv, RateTypeOK, Moments
<1>2. /\ Refilled(k) \in 0..Minute /\ Refilled(k) \in Int /\ Refilled(k) <= sum
      /\ Refilled(k) = sum \/ Refilled(k) = Minute
      /\ now = lastRefill[k] => Refilled(k) = sum
  <2>1. Refilled(k) = IF sum < Minute THEN sum ELSE Minute
    BY DEF Refilled
  <2>2. sum \in Int /\ 0 <= sum /\ (now = lastRefill[k] => sum = level[k])
    BY <1>1
  <2> HIDE DEF sum
  <2> QED BY <1>1, <2>1, <2>2
<1>3. c \in 0..Minute /\ c \in Int /\ c <= Refilled(k)
  BY <1>1, <1>2 DEF Allowed
<1>4. /\ now' = now
      /\ lastRefill' = [lastRefill EXCEPT ![k] = now]
      /\ level' = [level EXCEPT ![k] = Refilled(k) - c]
  BY DEF IsAllowed
<1>5. /\ spent' \in [RateKeys -> [Moments -> Int]]
      /\ \A s \in Moments : spent'[k][s] = spent[k][s] + (IF s <= now THEN c ELSE 0)
      /\ \A j \in RateKeys \ {k} : spent'[j] = spent[j]
  <2>1. CASE Allowed(k)
    <3> DEFINE grown == [s \in Moments |-> spent[k][s] + (IF s <= now THEN Cost(k) ELSE 0)]
    <3>1. spent' = [spent EXCEPT ![k] = grown]
      BY <2>1 DEF IsAllowed
    <3>2. grown \in [Moments -> Int]
      BY <1>1
    <3>3. \A s \in Moments : grown[s] = spent[k][s] + (IF s <= now THEN c ELSE 0)
      BY <2>1
    <3> HIDE DEF grown
    <3> QED BY <3>1, <3>2, <3>3 DEF RateInv, RateTypeOK
  <2>2. CASE ~Allowed(k)
    BY <2>2, <1>1 DEF IsAllowed, RateInv, RateTypeOK, Moments
  <2> QED BY <2>1, <2>2
<1>6. RateTypeOK'
  <2>1. Refilled(k) - c \in 0..Minute
    BY <1>2, <1>3
  <2>2. level' \in [RateKeys -> 0..Minute]
    BY <2>1, <1>4 DEF RateInv, RateTypeOK
  <2>3. lastRefill' \in [RateKeys -> 0..now]
    BY <1>1, <1>4 DEF RateInv, RateTypeOK, Moments
  <2> QED BY <2>2, <2>3, <1>1, <1>4, <1>5 DEF RateTypeOK
<1>7. /\ lastRefill'[k] = now /\ level'[k] = Refilled(k) - c
      /\ \A j \in RateKeys \ {k} : lastRefill'[j] = lastRefill[j] /\ level'[j] = level[j]
  BY <1>4 DEF RateInv, RateTypeOK
<1>8. Covered(k)'
  <2> SUFFICES ASSUME NEW s \in Moments
               PROVE  IF s <= now THEN spent'[k][s] + level'[k] <= Minute + (now - s)
                      ELSE spent'[k][s] = 0
    BY <1>7 DEF Covered
  <2>1. spent[k][s] \in Int /\ s \in Int /\ now \in Int
    BY <1>1 DEF Moments
  <2>2. CASE s <= lastRefill[k]
    <3>1. spent[k][s] + level[k] <= Minute + (lastRefill[k] - s)
      BY <2>2 DEF RateInv, Covered
    <3>2. spent'[k][s] = spent[k][s] + c
      BY <2>1, <2>2, <1>1, <1>5
    <3> HIDE DEF c
    <3> QED BY <3>1, <3>2, <2>1, <2>2, <1>1, <1>2, <1>3, <1>7
  <2>3. CASE ~(s <= lastRefill[k])
    <3>1. spent[k][s] = 0
      BY <2>3 DEF RateInv, Covered
    <3>2. spent'[k][s] = IF s <= now THEN c ELSE 0
      BY <3>1, <2>1, <1>1, <1>3, <1>5
    <3> HIDE DEF c
    <3> QED BY <3>2, <2>1, <2>3, <1>1, <1>2, <1>3, <1>7
  <2> QED BY <2>2, <2>3
<1>9. Tight(k)'
  <2>1. CASE Refilled(k) = sum
    <3>1. PICK s \in Moments :
            s <= lastRefill[k] /\ spent[k][s] + level[k] = Minute + (lastRefill[k] - s)
      BY DEF RateInv, Tight
    <3>2. spent[k][s] \in Int /\ s \in Int
      BY <1>1, <3>1 DEF Moments
    <3>3. s <= now /\ spent'[k][s] = spent[k][s] + c
      BY <3>1, <3>2, <1>1, <1>5
    <3>4. spent'[k][s] + level'[k] = Minute + (now - s)
      <4> HIDE DEF c
      <4> QED BY <2>1, <3>1, <3>2, <3>3, <1>1, <1>3, <1>7
    <3> QED BY <3>1, <3>3, <3>4, <1>7 DEF Tight
  <2>2. CASE Refilled(k) = Minute /\ now # lastRefill[k]
    <3>1. spent[k][now] = 0
      BY <2>2, <1>1 DEF RateInv, Covered, Moments
    <3>2. spent'[k][now] = c
      BY <3>1, <1>1, <1>3, <1>5
    <3>3. spent'[k][now] + level'[k] = Minute + (now - now)
      <4> HIDE DEF c
      <4> QED BY <2>2, <3>2, <1>1, <1>3, <1>7
    <3> QED BY <3>3, <1>1, <1>7 DEF Tight
  <2> QED BY <2>1, <2>2, <1>2
<1>10. ASSUME NEW j \in RateKeys, j # k PROVE Covered(j)' /\ Tight(j)'
  <2>1. Covered(j) /\ Tight(j)
    BY DEF RateInv
  <2> QED BY <2>1, <1>5, <1>7, <1>10 DEF Covered, Tight
<1> QED BY <1>6, <1>8, <1>9, <1>10 DEF RateInv

\* Time alone changes nothing that is summarised.
LEMMA TimeKeeps == RateInv /\ TimePasses => RateInv'
<1> SUFFICES ASSUME RateInv, TimePasses PROVE RateInv'
  OBVIOUS
<1>1. RateTypeOK'
  BY RateConstants DEF RateInv, RateTypeOK, TimePasses, Moments
<1>2. \A k \in RateKeys : Covered(k)' /\ Tight(k)'
  BY DEF RateInv, Covered, Tight, TimePasses
<1> QED BY <1>1, <1>2 DEF RateInv

\* The summary holds in every reachable state.
LEMMA RateInvariance == RateSpec => []RateInv
<1>1. RateInv /\ [RateNext]_rateVars => RateInv'
  <2> SUFFICES ASSUME RateInv, [RateNext]_rateVars PROVE RateInv'
    OBVIOUS
  <2>1. ASSUME NEW k \in RateKeys, IsAllowed(k) PROVE RateInv'
    BY <2>1, RequestKeeps
  <2>2. CASE TimePasses
    BY <2>2, TimeKeeps
  <2>3. CASE UNCHANGED rateVars
    BY <2>3 DEF rateVars, RateInv, RateTypeOK, Covered, Tight
  <2> QED BY <2>1, <2>2, <2>3 DEF RateNext
<1> QED BY <1>1, RateInvInit, PTL DEF RateSpec

\* The summary decides a request as the whole history would: a refusal is due to
\* the stretch since the tight moment, a grant keeps every stretch in bounds.
LEMMA SummaryDecides == RateInv => LimitIsExact
<1> SUFFICES ASSUME RateInv, NEW k \in RateKeys PROVE Allowed(k) <=> WithinWindows(k)
  BY DEF LimitIsExact
<1> USE RateConstants
<1>1. /\ now \in Int /\ level[k] \in Int /\ lastRefill[k] \in Int /\ Cost(k) \in Int /\ Minute \in Int
      /\ 0 <= level[k] /\ level[k] <= Minute /\ 0 <= lastRefill[k] /\ lastRefill[k] <= now
      /\ 1 <= Cost(k) /\ Cost(k) <= Minute
      /\ now \in Moments /\ spent[k] \in [Moments -> Int]
  BY CostRange DEF RateInv, RateTypeOK, Moments
<1>2. ASSUME Allowed(k) PROVE WithinWindows(k)
  <2> SUFFICES ASSUME NEW s \in 0..now PROVE spent[k][s] + Cost(k) <= Minute + (now - s)
    BY DEF WithinWindows
  <2>1. s \in Moments /\ s \in Int /\ spent[k][s] \in Int
    BY <1>1 DEF Moments
  <2>2. Cost(k) <= level[k] + (now - lastRefill[k])
    BY <1>1, <1>2 DEF Allowed, Refilled, Moments
  <2>3. IF s <= lastRefill[k] THEN spent[k][s] + level[k] <= Minute + (lastRefill[k] - s)
        ELSE spent[k][s] = 0
    BY <2>1 DEF RateInv, Covered
  <2>4. s <= now
    BY <1>1
  <2> QED BY <2>1, <2>2, <2>3, <2>4, <1>1
<1>3. ASSUME WithinWindows(k) PROVE Allowed(k)
  <2>1. PICK s \in Moments :
          s <= lastRefill[k] /\ spent[k][s] + level[k] = Minute + (lastRefill[k] - s)
    BY DEF RateInv, Tight
  <2>2. s \in 0..now /\ s \in Int /\ spent[k][s] \in Int
    BY <2>1, <1>1 DEF Moments
  <2>3. spent[k][s] + Cost(k) <= Minute + (now - s)
    BY <1>3, <2>2 DEF WithinWindows
  <2>4. Cost(k) <= level[k] + (now - lastRefill[k])
    BY <2>1, <2>2, <2>3, <1>1
  <2> QED BY <2>4, <1>1 DEF Allowed, Refilled, Moments
<1> QED BY <1>2, <1>3

\* A request is refused exactly if granting it would exceed the limit over some
\* stretch of time (middleware/rate_limit.py), for any limits, keys and times.
THEOREM BucketIsExact == RateSpec => []LimitIsExact
  BY RateInvariance, SummaryDecides, PTL
=============================================================================
