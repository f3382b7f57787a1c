------------------------------ MODULE Tags_proofs ------------------------------
(***************************************************************************)
(* Tags of one scope have distinct names, and jobs carry no tag that is    *)
(* gone, but for the exceptions the two properties name: proved for any    *)
(* users, names, handlers and numbers of tags and requests.                *)
(***************************************************************************)
EXTENDS Tags, TLAPS

TagRow == [scope : Scopes, name : TagNames]
Doing ==
         [pc : {"idle"}]
    \cup [pc : {"insert"}, row : TagRow]
    \cup [pc : {"rename"}, id : TagIds, row : TagRow]
    \cup [pc : {"assign"}, job : TagUsers, drop : SUBSET TagIds, add : SUBSET TagIds]
    \cup [pc : {"delete"}, id : TagIds, seen : SUBSET (TagUsers \X TagIds)]

TagTypes ==
    /\ members \subseteq TagUsers
    /\ tag \in [TagIds -> TagRow \cup {NoTag}]
    /\ links \subseteq TagUsers \X TagIds
    /\ doing \in [TagHandlers -> Doing]

\* A request that is about to take a name.
Takes(h) == doing[h].pc \in {"insert", "rename"}
Contested(r) == <<r.scope, r.name>> \in contested

\* Two rows of one name, a row and a request about to take its name, and two
\* requests about to take the same.
RowsApart == \A t, u \in TagIds : TagExists(t) /\ tag[t] = tag[u] /\ t # u => Contested(tag[t])
RowsFree == \A h \in TagHandlers, t \in TagIds :
                Takes(h) /\ TagExists(t) /\ tag[t] = doing[h].row => Contested(tag[t])
TakersApart == \A h, g \in TagHandlers :
                Takes(h) /\ Takes(g) /\ h # g /\ doing[h].row = doing[g].row => Contested(doing[h].row)

\* What is about to be assigned exists; what a deletion does not see is astray.
AddsExist == \A h \in TagHandlers : doing[h].pc = "assign" =>
                \A t \in doing[h].add : TagExists(t) \/ t \in astray
DeletionsSee == \A h \in TagHandlers : doing[h].pc = "delete" =>
                \A l \in links : l[2] = doing[h].id => l \in doing[h].seen \/ l[2] \in astray

NameInv == RowsApart /\ RowsFree /\ TakersApart
LinkInv == LinksHaveTags /\ AddsExist /\ DeletionsSee
TagInv == TagTypes /\ NameInv /\ LinkInv

\* Records of the stages, apart by their pc.
LEMMA DoingFields ==
  ASSUME NEW d \in Doing
  PROVE  /\ d.pc \in {"idle", "insert", "rename", "assign", "delete"}
         /\ d.pc \in {"insert", "rename"} => d.row \in TagRow
         /\ d.pc \in {"rename", "delete"} => d.id \in TagIds
         /\ d.pc = "assign" => d.job \in TagUsers /\ d.drop \in SUBSET TagIds /\ d.add \in SUBSET TagIds
         /\ d.pc = "delete" => d.seen \in SUBSET (TagUsers \X TagIds)
  BY DEF Doing

LEMMA InitHolds == TagsInit => TagInv
<1> SUFFICES ASSUME TagsInit PROVE TagInv
  OBVIOUS
<1>1. TagTypes
  BY DEF TagsInit, TagTypes, Vacant, Doing
<1>2. \A h \in TagHandlers : doing[h].pc = "idle"
  BY DEF TagsInit, Vacant
<1>3. NameInv
  BY <1>2 DEF TagsInit, NameInv, RowsApart, RowsFree, TakersApart, Takes, TagExists
<1>4. LinkInv
  BY <1>2 DEF TagsInit, LinkInv, LinksHaveTags, AddsExist, DeletionsSee
<1> QED BY <1>1, <1>3, <1>4 DEF TagInv

-----------------------------------------------------------------------------
(* Each request keeps the invariant. *)

\* A request decides on a name that no tag of the scope has.
LEMMA NameTaken ==
  ASSUME TagInv, NEW h \in TagHandlers, NEW r \in TagRow, NEW d \in Doing,
         d.pc \in {"insert", "rename"}, d.row = r,
         \A t \in TagIds : TagExists(t) => tag[t] # r,
         doing' = [doing EXCEPT ![h] = d],
         contested' = RaceFor(r.scope, r.name),
         UNCHANGED <<members, tag, links, astray>>
  PROVE  TagInv'
<1> USE DEF TagInv
<1>4. /\ doing'[h].pc \in {"insert", "rename"} /\ doing'[h].row = r
      /\ \A g \in TagHandlers \ {h} : doing'[g] = doing[g]
  BY DEF TagTypes
<1>5. contested \subseteq contested'
  BY DEF RaceFor
<1>6. \A g \in TagHandlers \ {h} : Takes(g) /\ doing[g].row = r => <<r.scope, r.name>> \in contested'
  <2>1. r = [scope |-> r.scope, name |-> r.name]
    BY DEF TagRow
  <2> QED BY <2>1 DEF RaceFor, Taking, Takes
<1>8. TagTypes'
  BY DEF TagTypes
<1>9. RowsApart'
  BY <1>5 DEF NameInv, RowsApart, TagExists, Contested
<1>10. RowsFree'
  <2> SUFFICES ASSUME NEW g \in TagHandlers, NEW t \in TagIds,
                      Takes(g)', TagExists(t), tag[t] = doing'[g].row
               PROVE  Contested(tag[t])'
    BY DEF RowsFree, TagExists, Takes, Contested
  <2>1. g # h
    BY <1>4
  <2> QED BY <2>1, <1>4, <1>5 DEF NameInv, RowsFree, Takes, Contested
<1>11. TakersApart'
  <2> SUFFICES ASSUME NEW f \in TagHandlers, NEW g \in TagHandlers, Takes(f)', Takes(g)', f # g,
                      doing'[f].row = doing'[g].row
               PROVE  <<doing'[f].row.scope, doing'[f].row.name>> \in contested'
    BY DEF TakersApart, Contested, Takes
  <2>1. CASE f = h
    BY <2>1, <1>4, <1>6 DEF Takes
  <2>2. CASE g = h
    BY <2>2, <1>4, <1>6 DEF Takes
  <2>3. CASE f # h /\ g # h
    BY <2>3, <1>4, <1>5 DEF NameInv, TakersApart, Takes, Contested
  <2> QED BY <2>1, <2>2, <2>3
<1>12. LinkInv'
  BY <1>4 DEF LinkInv, LinksHaveTags, AddsExist, DeletionsSee, TagExists
<1> QED BY <1>8, <1>9, <1>10, <1>11, <1>12 DEF NameInv

LEMMA CreateTagHolds ==
  ASSUME TagInv, NEW h \in TagHandlers, CreateTag(h)
  PROVE  TagInv'
<1>1. PICK u \in members, name \in TagNames, scope \in Scopes :
        /\ Named(scope, name) = {}
        /\ BeginTag(h, [pc |-> "insert", row |-> [scope |-> scope, name |-> name]])
        /\ contested' = RaceFor(scope, name)
  BY DEF CreateTag, Scopes, TagInv, TagTypes
<1> DEFINE r == [scope |-> scope, name |-> name]
           d == [pc |-> "insert", row |-> r]
<1>2. r \in TagRow /\ d \in Doing
  BY DEF TagRow, Doing
<1>3. doing' = [doing EXCEPT ![h] = d] /\ UNCHANGED <<members, tag, links, astray>>
  BY <1>1 DEF CreateTag, BeginTag
<1>4. \A t \in TagIds : TagExists(t) => tag[t] # r
  BY <1>1 DEF Named
<1>5. contested' = RaceFor(r.scope, r.name) /\ d.pc = "insert" /\ d.row = r
  BY <1>1
<1> HIDE DEF r, d
<1> QED BY <1>2, <1>3, <1>4, <1>5, NameTaken

\* Where rows only vanish and nobody new takes a name, names stay apart.
LEMMA NamesKept ==
  ASSUME NameInv, contested' = contested,
         \A t \in TagIds : tag'[t] \in {tag[t], NoTag},
         \A g \in TagHandlers : Takes(g)' => doing'[g] = doing[g]
  PROVE  NameInv'
<1>1. \A t \in TagIds : TagExists(t)' => TagExists(t) /\ tag'[t] = tag[t]
  BY DEF TagExists
<1>2. \A g \in TagHandlers : Takes(g)' => Takes(g) /\ doing'[g] = doing[g]
  BY DEF Takes
<1>3. RowsApart'
  <2> SUFFICES ASSUME NEW t \in TagIds, NEW u \in TagIds, TagExists(t)', tag'[t] = tag'[u], t # u
               PROVE  <<tag'[t].scope, tag'[t].name>> \in contested'
    BY DEF RowsApart, Contested
  <2>1. tag'[u] = tag[u] /\ tag'[t] = tag[t] /\ TagExists(t)
    BY <1>1 DEF TagExists
  <2> QED BY <2>1 DEF NameInv, RowsApart, Contested
<1>4. RowsFree'
  <2> SUFFICES ASSUME NEW g \in TagHandlers, NEW t \in TagIds,
                      Takes(g)', TagExists(t)', tag'[t] = doing'[g].row
               PROVE  <<tag'[t].scope, tag'[t].name>> \in contested'
    BY DEF RowsFree, Contested
  <2> QED BY <1>1, <1>2 DEF NameInv, RowsFree, Contested
<1>5. TakersApart'
  <2> SUFFICES ASSUME NEW f \in TagHandlers, NEW g \in TagHandlers, Takes(f)', Takes(g)', f # g,
                      doing'[f].row = doing'[g].row
               PROVE  <<doing'[f].row.scope, doing'[f].row.name>> \in contested'
    BY DEF TakersApart, Contested
  <2> QED BY <1>2 DEF NameInv, TakersApart, Contested
<1> QED BY <1>3, <1>4, <1>5 DEF NameInv

\* The row a request has decided on, or one of a name declared contested, is
\* written.
LEMMA RowWritten ==
  ASSUME TagInv, NEW h \in TagHandlers, Takes(h), NEW t \in TagIds, NEW r \in TagRow,
         tag' = [tag EXCEPT ![t] = r],
         doing' = [doing EXCEPT ![h] = Vacant],
         contested \subseteq contested',
         r = doing[h].row \/ <<r.scope, r.name>> \in contested',
         UNCHANGED <<members, links, astray>>
  PROVE  TagInv'
<1> USE DEF TagInv
<1>1. r # NoTag
  BY TagsConstants DEF TagRow, Scopes
<1>2. /\ tag'[t] = r /\ \A u \in TagIds \ {t} : tag'[u] = tag[u]
      /\ doing'[h].pc = "idle" /\ \A g \in TagHandlers \ {h} : doing'[g] = doing[g]
  BY DEF TagTypes, Vacant
<1>3. \A u \in TagIds : TagExists(u) => TagExists(u)'
  BY <1>1, <1>2 DEF TagExists
<1>4. TagTypes'
  BY DEF TagTypes, Doing, Vacant
<1>5. \A u \in TagIds \ {t} : tag[u] = r => <<r.scope, r.name>> \in contested'
  BY <1>1 DEF NameInv, RowsFree, TagExists, Contested
<1>6. \A g \in TagHandlers \ {h} : Takes(g) /\ doing[g].row = r => <<r.scope, r.name>> \in contested'
  BY DEF NameInv, TakersApart, Contested
<1>7. RowsApart'
  <2> SUFFICES ASSUME NEW v \in TagIds, NEW u \in TagIds, TagExists(v)', tag'[v] = tag'[u], v # u
               PROVE  <<tag'[v].scope, tag'[v].name>> \in contested'
    BY DEF RowsApart, Contested
  <2>1. CASE v = t
    BY <2>1, <1>2, <1>5
  <2>2. CASE u = t
    BY <2>2, <1>2, <1>5
  <2>3. CASE v # t /\ u # t
    BY <2>3, <1>2 DEF NameInv, RowsApart, TagExists, Contested
  <2> QED BY <2>1, <2>2, <2>3
<1>8. RowsFree'
  <2> SUFFICES ASSUME NEW g \in TagHandlers, NEW u \in TagIds,
                      Takes(g)', TagExists(u)', tag'[u] = doing'[g].row
               PROVE  <<tag'[u].scope, tag'[u].name>> \in contested'
    BY DEF RowsFree, Contested
  <2>1. g # h /\ Takes(g) /\ doing'[g] = doing[g]
    BY <1>2 DEF Takes
  <2>2. CASE u = t
    BY <2>1, <2>2, <1>2, <1>6
  <2>3. CASE u # t
    BY <2>1, <2>3, <1>2 DEF NameInv, RowsFree, TagExists, Contested
  <2> QED BY <2>2, <2>3
<1>9. TakersApart'
  <2> SUFFICES ASSUME NEW f \in TagHandlers, NEW g \in TagHandlers, Takes(f)', Takes(g)', f # g,
                      doing'[f].row = doing'[g].row
               PROVE  <<doing'[f].row.scope, doing'[f].row.name>> \in contested'
    BY DEF TakersApart, Contested
  <2>1. f # h /\ g # h
    BY <1>2 DEF Takes
  <2> QED BY <2>1, <1>2 DEF NameInv, TakersApart, Takes, Contested
<1>10. LinksHaveTags'
  BY <1>3 DEF LinkInv, LinksHaveTags, TagTypes
<1>11. AddsExist'
  <2> SUFFICES ASSUME NEW g \in TagHandlers, doing'[g].pc = "assign", NEW u \in doing'[g].add
               PROVE  TagExists(u)' \/ u \in astray'
    BY DEF AddsExist
  <2>1. doing'[g] = doing[g]
    BY <1>2
  <2>2. u \in TagIds
    BY <2>1, DoingFields DEF TagTypes
  <2> QED BY <2>1, <2>2, <1>3 DEF LinkInv, AddsExist
<1>12. DeletionsSee'
  BY <1>2 DEF LinkInv, DeletionsSee
<1> QED BY <1>4, <1>7, <1>8, <1>9, <1>10, <1>11, <1>12 DEF NameInv, LinkInv

LEMMA InsertTagHolds ==
  ASSUME TagInv, NEW h \in TagHandlers, InsertTag(h)
  PROVE  TagInv'
<1> DEFINE t == 1 + Max({0} \cup {i \in TagIds : TagExists(i)})
<1> HIDE DEF t
<1>1. /\ doing[h].pc = "insert" /\ t \in TagIds
      /\ tag' = [tag EXCEPT ![t] = doing[h].row]
      /\ doing' = [doing EXCEPT ![h] = Vacant]
      /\ UNCHANGED <<members, links, contested, astray>>
  BY DEF InsertTag, EndTag, t
<1>2. doing[h].row \in TagRow /\ Takes(h)
  BY <1>1, DoingFields DEF TagInv, TagTypes, Takes
<1> QED BY <1>1, <1>2, RowWritten

LEMMA RenameTagHolds ==
  ASSUME TagInv, NEW h \in TagHandlers, RenameTag(h)
  PROVE  TagInv'
<1>1. PICK t \in TagIds, name \in TagNames :
        /\ TagExists(t) /\ MayRename(t, name)
        /\ BeginTag(h, [pc |-> "rename", id |-> t, row |-> [tag[t] EXCEPT !.name = name]])
        /\ contested' = RaceFor(tag[t].scope, name)
  BY DEF RenameTag
<1> DEFINE r == [scope |-> tag[t].scope, name |-> name]
           d == [pc |-> "rename", id |-> t, row |-> r]
<1>2. r \in TagRow /\ [tag[t] EXCEPT !.name = name] = r /\ d \in Doing
  BY <1>1 DEF TagRow, TagInv, TagTypes, TagExists, Doing
<1>3. doing' = [doing EXCEPT ![h] = d] /\ UNCHANGED <<members, tag, links, astray>>
  BY <1>1, <1>2 DEF RenameTag, BeginTag
<1>4. \A u \in TagIds : TagExists(u) => tag[u] # r
  BY <1>1 DEF MayRename, Named
<1>5. contested' = RaceFor(r.scope, r.name) /\ d.pc = "rename" /\ d.row = r
  BY <1>1
<1> HIDE DEF r, d
<1> QED BY <1>2, <1>3, <1>4, <1>5, NameTaken

\* The name goes into the row as it is by now, which may have another scope.
LEMMA CommitNameHolds ==
  ASSUME TagInv, NEW h \in TagHandlers, CommitName(h)
  PROVE  TagInv'
<1> DEFINE d == doing[h]
<1>1. /\ d.pc = "rename" /\ d.id \in TagIds /\ d.row \in TagRow /\ Takes(h)
      /\ doing' = [doing EXCEPT ![h] = Vacant] /\ UNCHANGED <<members, links, astray>>
  BY DoingFields DEF CommitName, EndTag, TagInv, TagTypes, Takes
<1>2. CASE TagExists(d.id)
  <2> DEFINE r == [scope |-> tag[d.id].scope, name |-> d.row.name]
  <2>1. r \in TagRow
    BY <1>1, <1>2 DEF TagRow, TagExists, TagInv, TagTypes
  <2>2. tag' = [tag EXCEPT ![d.id] = r]
    <3>1. tag[d.id] \in TagRow
      BY <1>1, <1>2 DEF TagExists, TagInv, TagTypes
    <3>2. [tag[d.id] EXCEPT !.name = d.row.name] = r
      BY <3>1 DEF TagRow
    <3>3. tag' = [tag EXCEPT ![d.id].name = d.row.name]
      BY <1>2 DEF CommitName
    <3> QED BY <3>2, <3>3
  <2>3. r = d.row \/ <<r.scope, r.name>> \in contested'
    BY <1>1, <1>2 DEF CommitName, TagRow
  <2>4. contested \subseteq contested'
    BY DEF CommitName
  <2> HIDE DEF r
  <2> QED BY <1>1, <2>1, <2>2, <2>3, <2>4, RowWritten
<1>3. CASE ~TagExists(d.id)
  <2>1. UNCHANGED <<tag, contested>>
    BY <1>3 DEF CommitName
  <2>2. doing'[h].pc = "idle" /\ \A g \in TagHandlers \ {h} : doing'[g] = doing[g]
    BY <1>1 DEF Vacant, TagInv, TagTypes
  <2>3. NameInv'
    BY <2>1, <2>2, NamesKept DEF TagInv, Takes
  <2>4. TagTypes'
    BY <1>1, <2>1 DEF TagInv, TagTypes, Doing, Vacant
  <2>5. LinkInv'
    BY <1>1, <2>1, <2>2 DEF TagInv, LinkInv, LinksHaveTags, AddsExist, DeletionsSee, TagExists
  <2> QED BY <2>3, <2>4, <2>5 DEF TagInv
<1> QED BY <1>2, <1>3

LEMMA AssignTagsHolds ==
  ASSUME TagInv, NEW h \in TagHandlers, AssignTags(h) \/ UnlinkTag(h)
  PROVE  TagInv'
<1>1. PICK j \in TagUsers, drop \in SUBSET TagIds, add \in SUBSET {t \in TagIds : TagExists(t)} :
        doing' = [doing EXCEPT ![h] = [pc |-> "assign", job |-> j, drop |-> drop, add |-> add]]
  <2>1. CASE AssignTags(h)
    <3>0. PICK u \in members, j \in members :
            \E new \in SUBSET {t \in TagIds : TagExists(t) /\ tag[t].scope \in {u, GlobalScope}} :
               LET old == {t \in TagIds : <<j, t>> \in links} IN
               BeginTag(h, [pc |-> "assign", job |-> j, drop |-> old \ new, add |-> new \ old])
      BY <2>1 DEF AssignTags
    <3>1. PICK new \in SUBSET {t \in TagIds : TagExists(t) /\ tag[t].scope \in {u, GlobalScope}} :
            LET old == {t \in TagIds : <<j, t>> \in links} IN
            BeginTag(h, [pc |-> "assign", job |-> j, drop |-> old \ new, add |-> new \ old])
      BY <3>0
    <3> DEFINE old == {t \in TagIds : <<j, t>> \in links}
    <3>2. old \ new \in SUBSET TagIds /\ new \ old \in SUBSET {t \in TagIds : TagExists(t)}
      OBVIOUS
    <3>3. j \in TagUsers
      BY DEF TagInv, TagTypes
    <3> QED BY <3>1, <3>2, <3>3 DEF BeginTag
  <2>2. CASE UnlinkTag(h)
    <3>1. PICK l \in links : BeginTag(h, [pc |-> "assign", job |-> l[1], drop |-> {l[2]}, add |-> {}])
      BY <2>2 DEF UnlinkTag
    <3>2. l[1] \in TagUsers /\ {l[2]} \in SUBSET TagIds
      BY DEF TagInv, TagTypes
    <3> QED BY <3>1, <3>2 DEF BeginTag
  <2> QED BY <2>1, <2>2
<1>2. UNCHANGED <<members, tag, links, contested, astray>>
  BY DEF AssignTags, UnlinkTag
<1>3. /\ doing'[h].pc = "assign" /\ doing'[h].add = add
      /\ \A g \in TagHandlers \ {h} : doing'[g] = doing[g]
  BY <1>1 DEF TagInv, TagTypes
<1>4. TagTypes'
  <2>1. [pc |-> "assign", job |-> j, drop |-> drop, add |-> add] \in Doing
    BY DEF Doing
  <2> QED BY <1>1, <1>2, <2>1 DEF TagInv, TagTypes
<1>5. NameInv'
  BY <1>2, <1>3, NamesKept DEF TagInv, Takes
<1>6. LinkInv'
  BY <1>2, <1>3 DEF TagInv, LinkInv, LinksHaveTags, AddsExist, DeletionsSee, TagExists
<1> QED BY <1>4, <1>5, <1>6 DEF TagInv

\* New links have tags, unless their deletion is on its way without them.
LEMMA CommitLinksHolds ==
  ASSUME TagInv, NEW h \in TagHandlers, CommitLinks(h)
  PROVE  TagInv'
<1> DEFINE d == doing[h]
           old == {d.job} \X d.drop
           new == {d.job} \X d.add
<1>1. /\ d.pc = "assign" /\ d.job \in TagUsers /\ d.add \in SUBSET TagIds
      /\ doing' = [doing EXCEPT ![h] = Vacant] /\ UNCHANGED <<members, tag, contested>>
  BY DoingFields DEF CommitLinks, EndTag, TagInv, TagTypes
<1>2. doing'[h].pc = "idle" /\ \A g \in TagHandlers \ {h} : doing'[g] = doing[g]
  BY <1>1 DEF Vacant, TagInv, TagTypes
<1>3. \/ UNCHANGED <<links, astray>>
      \/ /\ links' = (links \ old) \cup new
         /\ astray' = astray \cup {t \in d.add : \E g \in TagHandlers :
                                      doing[g].pc = "delete" /\ doing[g].id = t}
  BY DEF CommitLinks
<1>4. astray \subseteq astray' /\ \A l \in links' : l \in links \/ (l[2] \in d.add /\ l \in TagUsers \X TagIds)
  BY <1>1, <1>3
<1>5. TagTypes'
  <2>1. links' \subseteq TagUsers \X TagIds
    BY <1>4 DEF TagInv, TagTypes
  <2>2. doing' \in [TagHandlers -> Doing]
    BY <1>1 DEF TagInv, TagTypes, Doing, Vacant
  <2> QED BY <1>1, <2>1, <2>2 DEF TagInv, TagTypes
<1>6. NameInv'
  BY <1>1, <1>2, NamesKept DEF TagInv, Takes
<1>7. LinksHaveTags'
  BY <1>1, <1>4 DEF TagInv, LinkInv, LinksHaveTags, AddsExist, TagExists
<1>8. AddsExist'
  BY <1>1, <1>2, <1>4 DEF TagInv, LinkInv, AddsExist, TagExists
<1>9. DeletionsSee'
  <2> SUFFICES ASSUME NEW g \in TagHandlers, doing'[g].pc = "delete",
                      NEW l \in links', l[2] = doing'[g].id
               PROVE  l \in doing'[g].seen \/ l[2] \in astray'
    BY DEF DeletionsSee
  <2>1. g # h /\ doing'[g] = doing[g]
    BY <1>2
  <2>2. CASE l \in links
    BY <2>1, <2>2, <1>4 DEF TagInv, LinkInv, DeletionsSee
  <2>3. CASE l \notin links
    <3>1. l[2] \in d.add
      BY <2>3, <1>4
    <3>2. astray' = astray \cup {t \in d.add : \E f \in TagHandlers :
                                      doing[f].pc = "delete" /\ doing[f].id = t}
      BY <2>3, <1>3
    <3> HIDE DEF d
    <3> QED BY <2>1, <3>1, <3>2
  <2> QED BY <2>2, <2>3
<1> QED BY <1>5, <1>6, <1>7, <1>8, <1>9 DEF TagInv, LinkInv

LEMMA DeleteTagHolds ==
  ASSUME TagInv, NEW h \in TagHandlers, DeleteTag(h)
  PROVE  TagInv'
<1>1. PICK t \in TagIds : BeginTag(h, [pc |-> "delete", id |-> t, seen |-> LinksOf(t)])
  BY DEF DeleteTag
<1>2. UNCHANGED <<members, tag, links, contested, astray>>
  BY DEF DeleteTag
<1>3. /\ doing'[h] = [pc |-> "delete", id |-> t, seen |-> LinksOf(t)]
      /\ \A g \in TagHandlers \ {h} : doing'[g] = doing[g]
  BY <1>1 DEF BeginTag, TagInv, TagTypes
<1>4. TagTypes'
  <2>1. [pc |-> "delete", id |-> t, seen |-> LinksOf(t)] \in Doing
    BY DEF Doing, LinksOf, TagInv, TagTypes
  <2> QED BY <1>1, <1>2, <2>1 DEF BeginTag, TagInv, TagTypes
<1>5. NameInv'
  BY <1>2, <1>3, NamesKept DEF TagInv, Takes
<1>6. LinkInv'
  BY <1>2, <1>3 DEF TagInv, LinkInv, LinksHaveTags, AddsExist, DeletionsSee, TagExists, LinksOf
<1> QED BY <1>4, <1>5, <1>6 DEF TagInv

\* Rows vanish with the links they have, unless one is astray or on its way.
LEMMA RowsVanish ==
  ASSUME TagInv, NEW gone \in SUBSET TagIds,
         tag' = [t \in TagIds |-> IF t \in gone THEN NoTag ELSE tag[t]],
         links' \subseteq links, contested' = contested, astray \subseteq astray',
         \A t \in gone : Adding(t) => t \in astray',
         \A l \in links' : l[2] \in gone => l[2] \in astray',
         \A g \in TagHandlers : doing'[g] \in {doing[g], Vacant}
  PROVE  NameInv' /\ LinkInv'
<1> USE DEF TagInv
<1>1. \A g \in TagHandlers : doing'[g].pc # "idle" => doing'[g] = doing[g]
  BY DEF Vacant
<1>2. \A t \in TagIds : TagExists(t) /\ t \notin gone => TagExists(t)'
  BY DEF TagExists
<1>3. NameInv'
  <2>1. \A t \in TagIds : tag'[t] \in {tag[t], NoTag}
    OBVIOUS
  <2>2. \A g \in TagHandlers : Takes(g)' => doing'[g] = doing[g]
    BY <1>1 DEF Takes
  <2> QED BY <2>1, <2>2, NamesKept
<1>4. LinksHaveTags'
  <2> SUFFICES ASSUME NEW l \in links' PROVE TagExists(l[2])' \/ l[2] \in astray'
    BY DEF LinksHaveTags
  <2>1. l[2] \in TagIds
    BY DEF TagTypes
  <2> QED BY <2>1, <1>2 DEF LinkInv, LinksHaveTags
<1>5. AddsExist'
  <2> SUFFICES ASSUME NEW g \in TagHandlers, doing'[g].pc = "assign", NEW t \in doing'[g].add
               PROVE  TagExists(t)' \/ t \in astray'
    BY DEF AddsExist
  <2>1. doing'[g] = doing[g] /\ t \in doing[g].add
    BY <1>1
  <2>2. t \in TagIds
    BY <2>1, DoingFields DEF TagTypes
  <2> QED BY <2>1, <2>2, <1>2 DEF LinkInv, AddsExist, Adding
<1>6. DeletionsSee'
  BY <1>1 DEF LinkInv, DeletionsSee
<1> QED BY <1>3, <1>4, <1>5, <1>6 DEF LinkInv

LEMMA CommitDeleteTagHolds ==
  ASSUME TagInv, NEW h \in TagHandlers, CommitDeleteTag(h)
  PROVE  TagInv'
<1> DEFINE d == doing[h]
<1>1. /\ d.pc = "delete" /\ d.id \in TagIds
      /\ doing' = [doing EXCEPT ![h] = Vacant] /\ UNCHANGED <<members, contested>>
  BY DoingFields DEF CommitDeleteTag, EndTag, TagInv, TagTypes
<1>2. /\ \A g \in TagHandlers : doing'[g] \in {doing[g], Vacant}
      /\ doing' \in [TagHandlers -> Doing]
  BY <1>1 DEF TagInv, TagTypes, Doing, Vacant
<1>3. CASE d.seen \subseteq links
  <2>1. /\ links' = links \ d.seen /\ tag' = [tag EXCEPT ![d.id] = NoTag]
        /\ astray' = IF Adding(d.id) THEN astray \cup {d.id} ELSE astray
    BY <1>3 DEF CommitDeleteTag
  <2>2. tag' = [t \in TagIds |-> IF t \in {d.id} THEN NoTag ELSE tag[t]]
    BY <2>1 DEF TagInv, TagTypes
  <2>3. \A t \in {d.id} : Adding(t) => t \in astray'
    BY <2>1
  <2>4. \A l \in links' : l[2] \in {d.id} => l[2] \in astray'
    BY <1>1, <2>1 DEF TagInv, LinkInv, DeletionsSee
  <2>5. NameInv' /\ LinkInv'
    <3>1. links' \subseteq links /\ astray \subseteq astray' /\ {d.id} \in SUBSET TagIds
      BY <1>1, <2>1
    <3> HIDE DEF d
    <3> QED BY <1>1, <1>2, <2>2, <2>3, <2>4, <3>1, RowsVanish
  <2>6. TagTypes'
    <3>1. tag' \in [TagIds -> TagRow \cup {NoTag}]
      BY <2>2 DEF TagInv, TagTypes
    <3> QED BY <1>1, <1>2, <2>1, <3>1 DEF TagInv, TagTypes
  <2> QED BY <2>5, <2>6 DEF TagInv
<1>4. CASE ~(d.seen \subseteq links)
  <2>1. UNCHANGED <<links, tag, astray>>
    BY <1>4 DEF CommitDeleteTag
  <2>2. \A g \in TagHandlers : doing'[g].pc # "idle" => doing'[g] = doing[g]
    BY <1>2 DEF Vacant
  <2>3. NameInv'
    BY <1>1, <2>1, <2>2, NamesKept DEF TagInv, Takes
  <2>4. LinkInv'
    BY <2>1, <2>2 DEF TagInv, LinkInv, LinksHaveTags, AddsExist, DeletionsSee, TagExists
  <2> QED BY <1>1, <1>2, <2>1, <2>3, <2>4 DEF TagInv, TagTypes
<1> QED BY <1>3, <1>4

LEMMA DeleteMemberHolds ==
  ASSUME TagInv, DeleteMember
  PROVE  TagInv'
<1>1. PICK u \in members :
        LET own == {t \in TagIds : TagExists(t) /\ tag[t].scope = u}
            left == {l \in links : l[1] # u} IN
        /\ members' = members \ {u}
        /\ tag' = [t \in TagIds |-> IF t \in own THEN NoTag ELSE tag[t]]
        /\ links' = left
        /\ astray' = astray \cup {t \in own : Adding(t) \/ \E l \in left : l[2] = t}
  BY DEF DeleteMember
<1> DEFINE own == {t \in TagIds : TagExists(t) /\ tag[t].scope = u}
           left == {l \in links : l[1] # u}
<1>2. doing' = doing /\ contested' = contested
  BY DEF DeleteMember
<1>3. /\ members' = members \ {u} /\ links' = left
      /\ tag' = [t \in TagIds |-> IF t \in own THEN NoTag ELSE tag[t]]
      /\ astray' = astray \cup {t \in own : Adding(t) \/ \E l \in left : l[2] = t}
  BY <1>1
<1>4. own \in SUBSET TagIds /\ left \subseteq links
  OBVIOUS
<1> HIDE DEF own, left
<1>5. NameInv' /\ LinkInv'
  <2>1. /\ \A t \in own : Adding(t) => t \in astray'
        /\ \A l \in links' : l[2] \in own => l[2] \in astray'
        /\ astray \subseteq astray' /\ links' \subseteq links
    BY <1>3, <1>4
  <2> QED BY <1>2, <1>3, <1>4, <2>1, RowsVanish
<1>6. TagTypes'
  <2>1. tag' \in [TagIds -> TagRow \cup {NoTag}]
    BY <1>3 DEF TagInv, TagTypes
  <2> QED BY <1>2, <1>3, <1>4, <2>1 DEF TagInv, TagTypes
<1> QED BY <1>5, <1>6 DEF TagInv

LEMMA TagStep == TagInv /\ [TagsNext]_tagVars => TagInv'
<1> SUFFICES ASSUME TagInv, [TagsNext]_tagVars PROVE TagInv'
  OBVIOUS
<1>1. ASSUME NEW h \in TagHandlers, CreateTag(h) PROVE TagInv'
  BY <1>1, CreateTagHolds
<1>2. ASSUME NEW h \in TagHandlers, InsertTag(h) PROVE TagInv'
  BY <1>2, InsertTagHolds
<1>3. ASSUME NEW h \in TagHandlers, RenameTag(h) PROVE TagInv'
  BY <1>3, RenameTagHolds
<1>4. ASSUME NEW h \in TagHandlers, CommitName(h) PROVE TagInv'
  BY <1>4, CommitNameHolds
<1>5. ASSUME NEW h \in TagHandlers, AssignTags(h) \/ UnlinkTag(h) PROVE TagInv'
  BY <1>5, AssignTagsHolds
<1>6. ASSUME NEW h \in TagHandlers, CommitLinks(h) PROVE TagInv'
  BY <1>6, CommitLinksHolds
<1>7. ASSUME NEW h \in TagHandlers, DeleteTag(h) PROVE TagInv'
  BY <1>7, DeleteTagHolds
<1>8. ASSUME NEW h \in TagHandlers, CommitDeleteTag(h) PROVE TagInv'
  BY <1>8, CommitDeleteTagHolds
<1>9. CASE DeleteMember
  BY <1>9, DeleteMemberHolds
<1>10. CASE UNCHANGED tagVars
  BY <1>10 DEF tagVars, TagInv, TagTypes, NameInv, LinkInv, RowsApart, RowsFree, TakersApart,
               LinksHaveTags, AddsExist, DeletionsSee, TagExists, Takes, Contested
<1> QED BY <1>1, <1>2, <1>3, <1>4, <1>5, <1>6, <1>7, <1>8, <1>9, <1>10 DEF TagsNext

-----------------------------------------------------------------------------
(* The theorems. *)

LEMMA TagInvHolds == TagsSpec => []TagInv
<1> QED BY InitHolds, TagStep, PTL DEF TagsSpec

\* Two tags of one scope have one name only if two requests raced for it
\* (create_tag and update_tag look a name up before they commit it).
THEOREM NamesStayDistinct == TagsSpec => []TagsAreDistinct
<1>1. TagInv => TagsAreDistinct
  BY DEF TagInv, NameInv, RowsApart, Contested, TagsAreDistinct
<1> QED BY <1>1, TagInvHolds, PTL

\* No job carries a tag that is gone, unless the tag went astray (delete_tag
\* removes the assignments it has read, delete_user those of the user's jobs).
THEOREM AssignmentsHaveTags == TagsSpec => []LinksHaveTags
<1>1. TagInv => LinksHaveTags
  BY DEF TagInv, LinkInv
<1> QED BY <1>1, TagInvHolds, PTL
=============================================================================
