---------------------------------- MODULE Tags ----------------------------------
(***************************************************************************)
(* Tags and their assignment to jobs: routes/tags.py, the second           *)
(* assignment route of routes/jobs.py and the part of routes/users.py that *)
(* removes the tags of a deleted user.  The tables have no constraint on   *)
(* names and their foreign keys are not enforced, so that names stay       *)
(* distinct and assignments stay attached only as the handlers see to it.  *)
(* Every user has one job, which stands for all of theirs.                 *)
(***************************************************************************)
EXTENDS Naturals, FiniteSetsExt

CONSTANTS
    TagUsers, TagAdmins,
    GlobalScope,      \* the owner of tags that have none
    MaxTags,          \* bound: ids of tags
    TagNames,
    TagHandlers,      \* concurrent requests
    NoTag,
    MaxTagCalls       \* bound: requests begun

ASSUME TagsConstants ==
    /\ TagAdmins \subseteq TagUsers /\ GlobalScope \notin TagUsers
    /\ NoTag \notin [scope : TagUsers \cup {GlobalScope}, name : TagNames]
    /\ MaxTags \in Nat /\ MaxTagCalls \in Nat

VARIABLES
    members,  \* the users there are
    tag,      \* the table tags: id -> row or NoTag
    links,    \* the table job_tags: <<owner of the job, id>>
    doing,    \* what each request has read and is about to write
    contested,    \* history: scoped names two requests were about to take at once
    astray,   \* history: ids deleted while assigned out of the deletion's sight
    tagCalls

tagVars == <<members, tag, links, doing, contested, astray, tagCalls>>

TagIds == 1..MaxTags
Scopes == TagUsers \cup {GlobalScope}
TagExists(t) == tag[t] # NoTag
Vacant == [pc |-> "idle"]
Named(scope, name) == {t \in TagIds : TagExists(t) /\ tag[t] = [scope |-> scope, name |-> name]}
LinksOf(t) == {l \in links : l[2] = t}

TagsInit ==
    /\ members = TagUsers
    /\ tag = [t \in TagIds |-> NoTag]
    /\ links = {}
    /\ doing = [h \in TagHandlers |-> Vacant]
    /\ contested = {} /\ astray = {}
    /\ tagCalls = 0

BeginTag(h, d) ==
    /\ doing[h] = Vacant
    /\ tagCalls < MaxTagCalls /\ tagCalls' = tagCalls + 1
    /\ doing' = [doing EXCEPT ![h] = d]
EndTag(h) == doing' = [doing EXCEPT ![h] = Vacant]

-----------------------------------------------------------------------------
(* Names: looked up in the scope, then taken. *)

Taking(scope, name) == {h \in TagHandlers : doing[h].pc \in {"insert", "rename"}
                                             /\ doing[h].row = [scope |-> scope, name |-> name]}
RaceFor(scope, name) == IF Taking(scope, name) = {} THEN contested ELSE contested \cup {<<scope, name>>}

\* Plain users have personal tags only.
CreateTag(h) ==
    /\ \E u \in members, name \in TagNames :
       \E scope \in {u} \cup (IF u \in TagAdmins THEN {GlobalScope} ELSE {}) :
         /\ Named(scope, name) = {}
         /\ BeginTag(h, [pc |-> "insert", row |-> [scope |-> scope, name |-> name]])
         /\ contested' = RaceFor(scope, name)
    /\ UNCHANGED <<members, tag, links, astray>>

\* The id after the highest, which may have been another tag's before.
InsertTag(h) ==
    LET t == 1 + Max({0} \cup {i \in TagIds : TagExists(i)}) IN
    /\ doing[h].pc = "insert" /\ t \in TagIds
    /\ tag' = [tag EXCEPT ![t] = doing[h].row]
    /\ EndTag(h)
    /\ UNCHANGED <<members, links, contested, astray, tagCalls>>

\* An owner renames in the scope of the tag, as does an administrator.
MayRename_Anywhere(t, name) == tag[t].name # name   \* mutated form
MayRename(t, name) == tag[t].name # name /\ Named(tag[t].scope, name) = {}

RenameTag(h) ==
    /\ \E t \in TagIds, name \in TagNames :
         /\ TagExists(t) /\ members \cap (TagAdmins \cup {tag[t].scope}) # {}
         /\ MayRename(t, name)
         /\ BeginTag(h, [pc |-> "rename", id |-> t, row |-> [tag[t] EXCEPT !.name = name]])
         /\ contested' = RaceFor(tag[t].scope, name)
    /\ UNCHANGED <<members, tag, links, astray>>

\* Only the name is written; an update of no row fails.
CommitName(h) ==
    LET d == doing[h] IN
    /\ d.pc = "rename"
    /\ tag' = IF TagExists(d.id) THEN [tag EXCEPT ![d.id].name = d.row.name] ELSE tag
    /\ contested' = IF TagExists(d.id) /\ tag[d.id].scope # d.row.scope
                THEN contested \cup {<<tag[d.id].scope, d.row.name>>} ELSE contested
    /\ EndTag(h)
    /\ UNCHANGED <<members, links, astray, tagCalls>>

-----------------------------------------------------------------------------
(* Assignments: the links of the job and the tags are read, the difference  *)
(* is written.                                                              *)

AssignTags(h) ==
    /\ \E u \in members, j \in members :
         /\ j = u \/ u \in TagAdmins
         /\ \E new \in SUBSET {t \in TagIds : TagExists(t) /\ tag[t].scope \in {u, GlobalScope}} :
              LET old == {t \in TagIds : <<j, t>> \in links} IN
              BeginTag(h, [pc |-> "assign", job |-> j, drop |-> old \ new, add |-> new \ old])
    /\ UNCHANGED <<members, tag, links, contested, astray>>

UnlinkTag(h) ==
    /\ \E l \in links :
         BeginTag(h, [pc |-> "assign", job |-> l[1], drop |-> {l[2]}, add |-> {}])
    /\ UNCHANGED <<members, tag, links, contested, astray>>

\* A link that is gone, or there already, fails the whole commit.
CommitLinks(h) ==
    LET d == doing[h]
        old == {d.job} \X d.drop
        new == {d.job} \X d.add IN
    /\ d.pc = "assign"
    /\ IF old \subseteq links /\ new \cap links = {}
       THEN /\ links' = (links \ old) \cup new
            /\ astray' = astray \cup {t \in d.add : \E g \in TagHandlers :
                                        doing[g].pc = "delete" /\ doing[g].id = t}
       ELSE UNCHANGED <<links, astray>>
    /\ EndTag(h)
    /\ UNCHANGED <<members, tag, contested, tagCalls>>

-----------------------------------------------------------------------------
(* Deletions.  The links a tag has are read and deleted with it. *)

Adding(t) == \E h \in TagHandlers : doing[h].pc = "assign" /\ t \in doing[h].add

DeleteTag(h) ==
    /\ \E t \in TagIds :
         /\ TagExists(t) /\ members \cap (TagAdmins \cup {tag[t].scope}) # {}
         /\ BeginTag(h, [pc |-> "delete", id |-> t, seen |-> LinksOf(t)])
    /\ UNCHANGED <<members, tag, links, contested, astray>>
CommitDeleteTag_RowOnly(h) ==   \* mutated form
    LET d == doing[h] IN
    /\ d.pc = "delete"
    /\ tag' = [tag EXCEPT ![d.id] = NoTag]
    /\ astray' = IF Adding(d.id) THEN astray \cup {d.id} ELSE astray
    /\ EndTag(h)
    /\ UNCHANGED <<members, links, contested, tagCalls>>
CommitDeleteTag(h) ==
    LET d == doing[h] IN
    /\ d.pc = "delete"
    /\ IF d.seen \subseteq links
       THEN /\ links' = links \ d.seen
            /\ tag' = [tag EXCEPT ![d.id] = NoTag]
            /\ astray' = IF Adding(d.id) THEN astray \cup {d.id} ELSE astray
       ELSE UNCHANGED <<links, tag, astray>>
    /\ EndTag(h)
    /\ UNCHANGED <<members, contested, tagCalls>>

\* A deleted user's job goes with its links, the personal tags without theirs.
DeleteMember ==
    /\ \E u \in members :
         LET own == {t \in TagIds : TagExists(t) /\ tag[t].scope = u}
             left == {l \in links : l[1] # u} IN
         /\ members' = members \ {u}
         /\ tag' = [t \in TagIds |-> IF t \in own THEN NoTag ELSE tag[t]]
         /\ links' = left
         /\ astray' = astray \cup {t \in own : Adding(t) \/ \E l \in left : l[2] = t}
    /\ UNCHANGED <<doing, contested, tagCalls>>

TagsNext ==
    \/ \E h \in TagHandlers :
         \/ CreateTag(h) \/ InsertTag(h) \/ RenameTag(h) \/ CommitName(h)
         \/ AssignTags(h) \/ UnlinkTag(h) \/ CommitLinks(h)
         \/ DeleteTag(h) \/ CommitDeleteTag(h)
    \/ DeleteMember

TagsSpec == TagsInit /\ [][TagsNext]_tagVars

-----------------------------------------------------------------------------
(* Properties. *)

\* Two tags of one scope have one name only if two requests looked the name up
\* before either took it.
TagsAreDistinct ==
    \A t, u \in TagIds : TagExists(t) /\ tag[t] = tag[u] /\ t # u =>
        <<tag[t].scope, tag[t].name>> \in contested

\* A job carries no tag that is gone, and so a new tag that takes the id of a
\* deleted one comes without jobs, unless the old tag was being assigned during
\* its deletion, or an administrator had put it on somebody else's job.
LinksHaveTags == \A l \in links : TagExists(l[2]) \/ l[2] \in astray
=============================================================================
