---------------------------- MODULE Mailbox_proofs ----------------------------
(***************************************************************************)
(* Messages are accounted for: for any number of messages, requests and    *)
(* restarts, and whatever the mail server answers.                         *)
(***************************************************************************)
EXTENDS Mailbox, TLAPS

Posts ==
    {AtRest}
    \cup [pc : {"edit"}, id : MailIds, text : Texts]
    \cup [pc : {"attach", "sending"}, id : MailIds, text : Texts, draft : BOOLEAN]
    \cup [pc : {"outcome"}, id : MailIds, text : Texts, draft : BOOLEAN, told : BOOLEAN]
    \cup [pc : {"bulk"}, ids : SUBSET MailIds, to : Moves, id : {0}]
    \cup [pc : {"purge"}, ids : SUBSET MailIds, id : {0}]

MailTypes ==
    /\ mail \in [MailIds -> MailRow \cup {NoMail}]
    /\ post \in [MailHandlers -> Posts]
    /\ delivered \in [MailIds -> SUBSET Texts]

Edits(h, m) == post[h].pc = "edit" /\ post[h].id = m
Sends(h, m) == post[h].pc \in Sending /\ post[h].id = m
IsTold(h, m) == post[h].pc = "outcome" /\ post[h].id = m /\ post[h].told

\* A message that was not edited while it was sent: what is sent is what the row
\* says, nobody edits it meanwhile, and a draft is not marked as sent.
SentAsIs(m) ==
    MailExists(m) /\ m \notin crossed =>
      /\ mail[m].status = "sent" => mail[m].text \in delivered[m] /\ mail[m].folder # "drafts"
      /\ \A h \in MailHandlers : Sends(h, m) =>
           /\ post[h].text = mail[m].text
           /\ ~post[h].draft => mail[m].folder # "drafts"
           /\ IsTold(h, m) => mail[m].text \in delivered[m]
           /\ \A g \in MailHandlers : ~Edits(g, m)
      /\ \A h \in MailHandlers : Edits(h, m) => mail[m].status # "sent"

\* A message whose senders know what the server did: it is marked or about to be,
\* and one that is no draft has no other sender.
MarkedOrTold(m) ==
    MailExists(m) /\ m \notin unsure =>
      /\ delivered[m] # {} => mail[m].status = "sent" \/ \E h \in MailHandlers : IsTold(h, m)
      /\ \A h \in MailHandlers : Sends(h, m) /\ ~post[h].draft =>
           /\ \A g \in MailHandlers : Sends(g, m) => g = h
           /\ mail[m].folder # "drafts"
           /\ delivered[m] # {} => IsTold(h, m)

Accounted(m) == SentAsIs(m) /\ MarkedOrTold(m)
MailInv == MailTypes /\ \A m \in MailIds : Accounted(m)

-----------------------------------------------------------------------------
(* The parts of a step. *)

LEMMA RowIsNoMark == NoMail \notin MailRow
  BY MailboxConstants

LEMMA RestingSendsNothing ==
  ASSUME NEW h \in MailHandlers, post[h] = AtRest
  PROVE  /\ post[h].pc = "idle"
         /\ \A m : ~Edits(h, m) /\ ~Sends(h, m) /\ ~IsTold(h, m)
  BY DEF AtRest, Edits, Sends, IsTold, Sending

\* A request that is answered, or that begins, changes its own state only.
LEMMA OthersStay ==
  ASSUME MailTypes, NEW h \in MailHandlers, NEW p \in Posts, post' = [post EXCEPT ![h] = p]
  PROVE  /\ post' \in [MailHandlers -> Posts] /\ post'[h] = p
         /\ \A g \in MailHandlers : g # h => post'[g] = post[g]
  BY DEF MailTypes

LEMMA RestIsPost == AtRest \in Posts
  BY DEF Posts

\* Nobody sends, nobody edits.
LEMMA NobodyOn ==
  ASSUME NEW m, NEW pcs, On(m, pcs) = {}
  PROVE  \A h \in MailHandlers : ~(post[h].pc \in pcs /\ post[h].id = m)
  BY DEF On

\* Where a handler ends or does something else than sending and editing, and the
\* row of the message is kept, moved out of the drafts, or gone.
LEMMA Bystander ==
  ASSUME NEW h \in MailHandlers, NEW m \in MailIds, Accounted(m),
         MailExists(m)' => /\ MailExists(m)
                           /\ mail'[m].text = mail[m].text /\ mail'[m].status = mail[m].status
                           /\ mail'[m].folder = "drafts" => mail[m].folder = "drafts",
         delivered'[m] = delivered[m],
         m \in crossed => m \in crossed', m \in unsure => m \in unsure',
         \A g \in MailHandlers : g # h => post'[g] = post[g],
         ~Sends(h, m)', ~Edits(h, m)',
         ~IsTold(h, m) \/ m \in unsure'
  PROVE  Accounted(m)'
<1>1. ~IsTold(h, m)'
  BY DEF IsTold, Sends, Sending
<1>2. SentAsIs(m)'
  <2> SUFFICES ASSUME MailExists(m)', m \notin crossed' PROVE SentAsIs(m)'
    BY DEF SentAsIs
  <2>1. /\ MailExists(m) /\ m \notin crossed /\ SentAsIs(m)
    BY DEF Accounted
  <2>2. mail'[m].status = "sent" => mail'[m].text \in delivered'[m] /\ mail'[m].folder # "drafts"
    BY <2>1 DEF SentAsIs
  <2>3. ASSUME NEW g \in MailHandlers, Sends(g, m)'
        PROVE  /\ post'[g].text = mail'[m].text
               /\ ~post'[g].draft => mail'[m].folder # "drafts"
               /\ IsTold(g, m)' => mail'[m].text \in delivered'[m]
               /\ \A k \in MailHandlers : ~Edits(k, m)'
    <3>1. g # h /\ post'[g] = post[g]
      BY <2>3
    <3>2. Sends(g, m) /\ (IsTold(g, m)' => IsTold(g, m))
      BY <2>3, <3>1 DEF Sends, IsTold
    <3>3. \A k \in MailHandlers : ~Edits(k, m)
      BY <2>1, <3>2 DEF SentAsIs
    <3>4. \A k \in MailHandlers : ~Edits(k, m)'
      BY <3>3 DEF Edits
    <3> QED BY <2>1, <3>1, <3>2, <3>4 DEF SentAsIs
  <2>4. ASSUME NEW g \in MailHandlers, Edits(g, m)' PROVE mail'[m].status # "sent"
    <3>1. Edits(g, m)
      BY <2>4 DEF Edits
    <3> QED BY <2>1, <3>1 DEF SentAsIs
  <2> QED BY <2>2, <2>3, <2>4 DEF SentAsIs
<1>3. MarkedOrTold(m)'
  <2> SUFFICES ASSUME MailExists(m)', m \notin unsure' PROVE MarkedOrTold(m)'
    BY DEF MarkedOrTold
  <2>1. /\ MailExists(m) /\ m \notin unsure /\ MarkedOrTold(m) /\ ~IsTold(h, m)
    BY DEF Accounted
  <2>2. delivered'[m] # {} => mail'[m].status = "sent" \/ \E g \in MailHandlers : IsTold(g, m)'
    <3>1. ASSUME NEW g \in MailHandlers, IsTold(g, m) PROVE IsTold(g, m)'
      BY <2>1, <3>1 DEF IsTold
    <3> QED BY <2>1, <3>1 DEF MarkedOrTold
  <2>3. ASSUME NEW g \in MailHandlers, Sends(g, m)', ~post'[g].draft
        PROVE  /\ \A k \in MailHandlers : Sends(k, m)' => k = g
               /\ mail'[m].folder # "drafts"
               /\ delivered'[m] # {} => IsTold(g, m)'
    <3>1. g # h /\ post'[g] = post[g]
      BY <2>3
    <3>2. Sends(g, m) /\ ~post[g].draft /\ (IsTold(g, m) => IsTold(g, m)')
      BY <2>3, <3>1 DEF Sends, IsTold
    <3>3. \A k \in MailHandlers : Sends(k, m) => k = g
      BY <2>1, <3>2 DEF MarkedOrTold
    <3>4. \A k \in MailHandlers : Sends(k, m)' => k = g
      BY <3>3 DEF Sends
    <3> QED BY <2>1, <3>1, <3>2, <3>4 DEF MarkedOrTold
  <2> QED BY <2>2, <2>3 DEF MarkedOrTold
<1> QED BY <1>2, <1>3 DEF Accounted

-----------------------------------------------------------------------------
(* Types. *)

\* What a request at each of its stages carries.
LEMMA PostShape ==
  ASSUME NEW p \in Posts
  PROVE  /\ p.pc = "edit" => p.id \in MailIds /\ p.text \in Texts
         /\ p.pc \in Sending => p.id \in MailIds /\ p.text \in Texts /\ p.draft \in BOOLEAN
         /\ p.pc \in {"attach", "sending"} => p \in [pc : {"attach", "sending"}, id : MailIds, text : Texts, draft : BOOLEAN]
         /\ p.pc = "outcome" => p.told \in BOOLEAN
         /\ p.pc = "bulk" => p \in [pc : {"bulk"}, ids : SUBSET MailIds, to : Moves, id : {0}]
         /\ p.pc = "purge" => p \in [pc : {"purge"}, ids : SUBSET MailIds, id : {0}]
<1>1. CASE p = AtRest
  BY <1>1 DEF AtRest, Sending
<1>2. CASE p \in [pc : {"edit"}, id : MailIds, text : Texts]
  BY <1>2 DEF Sending
<1>3. CASE p \in [pc : {"attach", "sending"}, id : MailIds, text : Texts, draft : BOOLEAN]
  BY <1>3 DEF Sending
<1>4. CASE p \in [pc : {"outcome"}, id : MailIds, text : Texts, draft : BOOLEAN, told : BOOLEAN]
  BY <1>4 DEF Sending
<1>5. CASE p \in [pc : {"bulk"}, ids : SUBSET MailIds, to : Moves, id : {0}]
  BY <1>5 DEF Sending
<1>6. CASE p \in [pc : {"purge"}, ids : SUBSET MailIds, id : {0}]
  BY <1>6 DEF Sending
<1> QED BY <1>1, <1>2, <1>3, <1>4, <1>5, <1>6 DEF Posts

\* Rows that differ in a column.
LEMMA TextEdit ==
  ASSUME NEW r \in MailRow, NEW t \in Texts, NEW e, e = [r EXCEPT !.text = t]
  PROVE  e \in MailRow /\ e.folder = r.folder /\ e.status = r.status /\ e.text = t
  BY DEF MailRow
LEMMA StatusEdit ==
  ASSUME NEW r \in MailRow, NEW st \in {"sent", "failed"}, NEW e, e = [r EXCEPT !.status = st]
  PROVE  e \in MailRow /\ e.folder = r.folder /\ e.status = st /\ e.text = r.text
  BY DEF MailRow
LEMMA SentEdit ==
  ASSUME NEW r \in MailRow, NEW e, e = [r EXCEPT !.folder = "sent", !.status = "sent"]
  PROVE  e \in MailRow /\ e.folder = "sent" /\ e.status = "sent" /\ e.text = r.text
  BY DEF MailRow
LEMMA FolderEdit ==
  ASSUME NEW r \in MailRow, NEW b \in BOOLEAN, NEW f \in {"inbox", "archived", "deleted"},
         NEW e, e = [r EXCEPT !.folder = f, !.trash = b]
  PROVE  e \in MailRow /\ e.folder = f /\ e.status = r.status /\ e.text = r.text
  BY DEF MailRow

\* Where one row is changed.
LEMMA OneRow ==
  ASSUME MailTypes, NEW m \in MailIds, NEW r \in MailRow \cup {NoMail}, mail' = [mail EXCEPT ![m] = r]
  PROVE  /\ mail' \in [MailIds -> MailRow \cup {NoMail}] /\ mail'[m] = r
         /\ \A k \in MailIds : k # m => mail'[k] = mail[k]
  BY DEF MailTypes

LEMMA Existing ==
  ASSUME MailTypes, NEW m \in MailIds, MailExists(m)
  PROVE  mail[m] \in MailRow
  BY DEF MailTypes, MailExists

\* What the steps that change a row of a message that exists make of it.
LEMMA EditedRow ==
  ASSUME MailTypes, NEW h \in MailHandlers, CommitEdit(h)
  PROVE  LET m == post[h].id IN
         /\ m \in MailIds /\ post[h].text \in Texts /\ post[h].pc = "edit"
         /\ MailExists(m) => /\ mail'[m] \in MailRow /\ mail'[m].text = post[h].text
                             /\ mail'[m].folder = mail[m].folder /\ mail'[m].status = mail[m].status
         /\ ~MailExists(m) => mail' = mail
         /\ \A k \in MailIds : k # m => mail'[k] = mail[k]
         /\ mail' \in [MailIds -> MailRow \cup {NoMail}]
<1> DEFINE m == post[h].id
           t == post[h].text
<1>1. m \in MailIds /\ t \in Texts /\ post[h].pc = "edit"
  BY PostShape DEF MailTypes, CommitEdit
<1>2. CASE ~MailExists(m)
  <2>1. mail' = mail
    BY <1>2 DEF CommitEdit
  <2> QED BY <1>1, <1>2, <2>1 DEF MailTypes
<1>3. CASE MailExists(m)
  <2> DEFINE r == [mail[m] EXCEPT !.text = t]
  <2>1. mail[m] \in MailRow
    BY <1>1, <1>3, Existing
  <2>2. r \in MailRow /\ r.text = t /\ r.folder = mail[m].folder /\ r.status = mail[m].status
    BY <1>1, <2>1, TextEdit
  <2>3. mail' = [mail EXCEPT ![m] = r]
    BY <1>3 DEF CommitEdit
  <2> HIDE DEF r, m, t
  <2>4. /\ mail' \in [MailIds -> MailRow \cup {NoMail}] /\ mail'[m] = r
        /\ \A k \in MailIds : k # m => mail'[k] = mail[k]
    BY <1>1, <2>2, <2>3, OneRow
  <2> QED BY <1>1, <1>3, <2>2, <2>4 DEF m, t
<1> QED BY <1>2, <1>3

LEMMA OutcomeRow ==
  ASSUME MailTypes, NEW h \in MailHandlers, CommitOutcome(h)
  PROVE  LET m == post[h].id IN
         /\ m \in MailIds /\ post[h].pc = "outcome" /\ post[h].draft \in BOOLEAN /\ post[h].told \in BOOLEAN
         /\ MailExists(m) /\ (post[h].draft => post[h].told) =>
              /\ mail'[m] \in MailRow /\ mail'[m].text = mail[m].text
              /\ mail'[m].status = (IF post[h].told THEN "sent" ELSE "failed")
              /\ mail'[m].folder = (IF post[h].draft THEN "sent" ELSE mail[m].folder)
         /\ ~MailExists(m) \/ (post[h].draft /\ ~post[h].told) => mail' = mail
         /\ \A k \in MailIds : k # m => mail'[k] = mail[k]
         /\ mail' \in [MailIds -> MailRow \cup {NoMail}]
<1> DEFINE m == post[h].id
           st == IF post[h].told THEN "sent" ELSE "failed"
<1>1. /\ m \in MailIds /\ post[h].pc = "outcome" /\ post[h].draft \in BOOLEAN /\ post[h].told \in BOOLEAN
      /\ st \in {"sent", "failed"}
  BY PostShape DEF MailTypes, CommitOutcome, Sending
<1>2. CASE ~MailExists(m) \/ (post[h].draft /\ ~post[h].told)
  <2>1. mail' = mail
    BY <1>2 DEF CommitOutcome
  <2> QED BY <1>1, <1>2, <2>1 DEF MailTypes
<1>3. CASE MailExists(m) /\ (post[h].draft => post[h].told)
  <2> DEFINE r == IF post[h].draft THEN [mail[m] EXCEPT !.folder = "sent", !.status = "sent"]
                  ELSE [mail[m] EXCEPT !.status = st]
  <2>1. mail[m] \in MailRow
    BY <1>1, <1>3, Existing
  <2>2. /\ r \in MailRow /\ r.text = mail[m].text /\ r.status = st
        /\ r.folder = (IF post[h].draft THEN "sent" ELSE mail[m].folder)
    <3>1. CASE post[h].draft
      BY <1>3, <2>1, <3>1, SentEdit
    <3>2. CASE ~post[h].draft
      BY <1>1, <2>1, <3>2, StatusEdit
    <3> QED BY <3>1, <3>2
  <2>3. mail' = [mail EXCEPT ![m] = r]
    BY <1>1, <1>3 DEF CommitOutcome
  <2> HIDE DEF r, m
  <2>4. /\ mail' \in [MailIds -> MailRow \cup {NoMail}] /\ mail'[m] = r
        /\ \A k \in MailIds : k # m => mail'[k] = mail[k]
    BY <1>1, <2>2, <2>3, OneRow
  <2> QED BY <1>1, <1>3, <2>2, <2>4 DEF m
<1> QED BY <1>1, <1>2, <1>3

LEMMA MovedRow ==
  ASSUME MailTypes, NEW h \in MailHandlers, NEW m \in MailIds, NextOf(h, "bulk", m),
         LET to == post[h].to IN
         mail' = IF ~MailExists(m) THEN mail
                 ELSE [mail EXCEPT ![m].folder = to.folder,
                                   ![m].trash = IF to.trash = {} THEN @ ELSE to.trash = {TRUE}]
  PROVE  /\ MailExists(m) => /\ mail'[m] \in MailRow /\ mail'[m].text = mail[m].text
                             /\ mail'[m].status = mail[m].status /\ mail'[m].folder # "drafts"
         /\ ~MailExists(m) => mail' = mail
         /\ \A k \in MailIds : k # m => mail'[k] = mail[k]
         /\ mail' \in [MailIds -> MailRow \cup {NoMail}]
<1> DEFINE to == post[h].to
<1>1. to \in Moves
  BY PostShape DEF MailTypes, NextOf
<1>2. to.folder \in {"inbox", "archived", "deleted"}
  <2>1. \/ to = [folder |-> "archived", trash |-> {}] \/ to = [folder |-> "deleted", trash |-> {TRUE}]
        \/ to = [folder |-> "inbox", trash |-> {FALSE}]
    BY <1>1, Zenon DEF Moves
  <2> QED BY <2>1
<1>3. CASE ~MailExists(m)
  BY <1>3 DEF MailTypes
<1>4. CASE MailExists(m)
  <2> DEFINE b == IF to.trash = {} THEN mail[m].trash ELSE to.trash = {TRUE}
             f == to.folder
             r == [mail[m] EXCEPT !.folder = f, !.trash = b]
  <2>1. mail[m] \in MailRow
    BY <1>4, Existing
  <2>2. mail[m].trash \in BOOLEAN
    BY <2>1 DEF MailRow
  <2>3. b \in BOOLEAN
    BY <2>2
  <2>4. mail' = [mail EXCEPT ![m] = r]
    BY <1>4
  <2>5. f \in {"inbox", "archived", "deleted"}
    BY <1>2
  <2> HIDE DEF b, f
  <2>6. r \in MailRow /\ r.text = mail[m].text /\ r.status = mail[m].status /\ r.folder # "drafts"
    <3>1. r \in MailRow /\ r.folder = f /\ r.status = mail[m].status /\ r.text = mail[m].text
      BY <2>1, <2>3, <2>5 DEF MailRow
    <3> QED BY <2>5, <3>1
  <2> HIDE DEF r
  <2>7. /\ mail' \in [MailIds -> MailRow \cup {NoMail}] /\ mail'[m] = r
        /\ \A k \in MailIds : k # m => mail'[k] = mail[k]
    BY <2>4, <2>6, OneRow
  <2> QED BY <1>4, <2>6, <2>7
<1> QED BY <1>3, <1>4

\* A new row, in place of whatever had its id.
LEMMA InsertedRow ==
  ASSUME MailTypes, NEW m \in MailIds, NEW r \in MailRow, Insert(m, r)
  PROVE  /\ mail' \in [MailIds -> MailRow \cup {NoMail}] /\ mail'[m] = r
         /\ \A k \in MailIds : k # m => mail'[k] = mail[k] /\ delivered'[k] = delivered[k]
         /\ delivered' \in [MailIds -> SUBSET Texts] /\ delivered'[m] = {}
         /\ \A k \in MailIds : k # m => /\ k \in crossed => k \in crossed'
                                        /\ k \in unsure => k \in unsure'
         /\ m \notin crossed' => On(m, {"edit"} \cup Sending) = {}
         /\ m \notin unsure' => On(m, Sending) = {}
<1>1. /\ mail' \in [MailIds -> MailRow \cup {NoMail}] /\ mail'[m] = r
      /\ \A k \in MailIds : k # m => mail'[k] = mail[k]
  BY OneRow DEF Insert
<1>2. /\ delivered' \in [MailIds -> SUBSET Texts] /\ delivered'[m] = {}
      /\ \A k \in MailIds : k # m => delivered'[k] = delivered[k]
  BY DEF Insert, MailTypes
<1>3. /\ \A k \in MailIds : k # m => /\ k \in crossed => k \in crossed'
                                     /\ k \in unsure => k \in unsure'
      /\ m \notin crossed' => On(m, {"edit"} \cup Sending) = {}
      /\ m \notin unsure' => On(m, Sending) = {}
  BY DEF Insert
<1> QED BY <1>1, <1>2, <1>3

LEMMA TypesStep ==
  ASSUME MailTypes, [MailboxNext]_mailVars
  PROVE  MailTypes'
<1>1. ASSUME NEW h \in MailHandlers, NEW p \in Posts, post' = [post EXCEPT ![h] = p]
      PROVE  post' \in [MailHandlers -> Posts]
  BY <1>1, OthersStay
<1>2. ASSUME NEW h \in MailHandlers, Answer(h) PROVE post' \in [MailHandlers -> Posts]
  BY <1>1, <1>2, RestIsPost DEF Answer
<1>3. ASSUME NEW h \in MailHandlers, CreateDraft(h) PROVE MailTypes'
  <2>1. PICK text \in Texts :
          /\ Insert(NewId, [folder |-> "drafts", status |-> "draft", text |-> text, trash |-> FALSE])
          /\ Ask(h, AtRest)
    BY <1>3 DEF CreateDraft
  <2>2. NewId \in MailIds
    BY <2>1 DEF Insert
  <2>3. [folder |-> "drafts", status |-> "draft", text |-> text, trash |-> FALSE] \in MailRow
    BY DEF MailRow
  <2>4. post' \in [MailHandlers -> Posts]
    BY <1>1, <2>1, RestIsPost DEF Ask
  <2> QED BY <2>1, <2>2, <2>3, <2>4, InsertedRow DEF MailTypes
<1>4. ASSUME NEW h \in MailHandlers, UpdateDraft(h) PROVE MailTypes'
  <2>1. PICK m \in MailIds, text \in Texts : Ask(h, [pc |-> "edit", id |-> m, text |-> text])
    BY <1>4 DEF UpdateDraft
  <2>2. [pc |-> "edit", id |-> m, text |-> text] \in Posts
    BY DEF Posts
  <2> QED BY <1>1, <1>4, <2>1, <2>2 DEF UpdateDraft, Ask, MailTypes
<1>5. ASSUME NEW h \in MailHandlers, CommitEdit(h) PROVE MailTypes'
  <2>1. mail' \in [MailIds -> MailRow \cup {NoMail}]
    BY <1>5, EditedRow
  <2> QED BY <1>2, <1>5, <2>1 DEF CommitEdit, MailTypes
<1>6. ASSUME NEW h \in MailHandlers, SendDraft(h) PROVE MailTypes'
  <2>1. PICK m \in MailIds : /\ MailExists(m)
                             /\ Ask(h, [pc |-> "sending", id |-> m, text |-> mail[m].text, draft |-> TRUE])
    BY <1>6 DEF SendDraft
  <2>2. mail[m].text \in Texts
    BY <2>1, Existing DEF MailRow
  <2>3. [pc |-> "sending", id |-> m, text |-> mail[m].text, draft |-> TRUE] \in Posts
    BY <2>2 DEF Posts
  <2> QED BY <1>1, <1>6, <2>1, <2>3 DEF SendDraft, Ask, MailTypes
<1>7. ASSUME NEW h \in MailHandlers, Send(h) PROVE MailTypes'
  <2>1. PICK folder \in {"sent", "inbox"}, text \in Texts :
          /\ Insert(NewId, [folder |-> folder, status |-> "pending", text |-> text, trash |-> FALSE])
          /\ Ask(h, [pc |-> "attach", id |-> NewId, text |-> text, draft |-> FALSE])
    BY <1>7 DEF Send
  <2>2. NewId \in MailIds
    BY <2>1 DEF Insert
  <2>3. [folder |-> folder, status |-> "pending", text |-> text, trash |-> FALSE] \in MailRow
    BY DEF MailRow
  <2>4. [pc |-> "attach", id |-> NewId, text |-> text, draft |-> FALSE] \in Posts
    BY <2>2 DEF Posts
  <2>5. post' \in [MailHandlers -> Posts]
    BY <1>1, <2>1, <2>4 DEF Ask
  <2> QED BY <2>1, <2>2, <2>3, <2>5, InsertedRow DEF MailTypes
<1>8. ASSUME NEW h \in MailHandlers, SaveAttachments(h) PROVE MailTypes'
  <2>1. CASE post' = [post EXCEPT ![h].pc = "sending"]
    <3> DEFINE p == [post[h] EXCEPT !.pc = "sending"]
    <3>1. post[h] \in [pc : {"attach", "sending"}, id : MailIds, text : Texts, draft : BOOLEAN]
      BY <1>8, PostShape DEF SaveAttachments, MailTypes
    <3>2. p \in [pc : {"attach", "sending"}, id : MailIds, text : Texts, draft : BOOLEAN]
      BY <3>1
    <3>3. p \in Posts
      BY <3>2 DEF Posts
    <3>4. post' = [post EXCEPT ![h] = p]
      BY <2>1
    <3> HIDE DEF p
    <3> QED BY <1>1, <1>8, <3>3, <3>4 DEF SaveAttachments, MailTypes
  <2>2. CASE Answer(h)
    BY <1>2, <1>8, <2>2 DEF SaveAttachments, MailTypes
  <2> QED BY <1>8, <2>1, <2>2 DEF SaveAttachments
<1>9. ASSUME NEW h \in MailHandlers, Deliver(h) PROVE MailTypes'
  <2> DEFINE p == post[h]
  <2>1. p.id \in MailIds /\ p.text \in Texts /\ p.draft \in BOOLEAN
    BY <1>9, PostShape DEF Deliver, MailTypes, Sending
  <2>2. PICK told \in BOOLEAN :
          /\ delivered' \in {delivered, [delivered EXCEPT ![p.id] = @ \cup {p.text}]}
          /\ post' = [post EXCEPT ![h] = [pc |-> "outcome", id |-> p.id, text |-> p.text,
                                          draft |-> p.draft, told |-> told]]
    BY <1>9 DEF Deliver
  <2>3. delivered' \in [MailIds -> SUBSET Texts]
    BY <2>1, <2>2 DEF MailTypes
  <2>4. [pc |-> "outcome", id |-> p.id, text |-> p.text, draft |-> p.draft, told |-> told] \in Posts
    BY <2>1 DEF Posts
  <2>5. post' \in [MailHandlers -> Posts]
    BY <1>1, <2>2, <2>4
  <2> QED BY <1>9, <2>3, <2>5 DEF Deliver, MailTypes
<1>10. ASSUME NEW h \in MailHandlers, CommitOutcome(h) PROVE MailTypes'
  <2>1. mail' \in [MailIds -> MailRow \cup {NoMail}]
    BY <1>10, OutcomeRow
  <2> QED BY <1>2, <1>10, <2>1 DEF CommitOutcome, MailTypes
<1>11. ASSUME NEW h \in MailHandlers, SetFolder(h) PROVE MailTypes'
  <2>1. PICK ids \in SUBSET MailIds, to \in Moves : Ask(h, [pc |-> "bulk", ids |-> ids, to |-> to, id |-> 0])
    BY <1>11 DEF SetFolder
  <2>2. [pc |-> "bulk", ids |-> ids, to |-> to, id |-> 0] \in Posts
    BY DEF Posts
  <2> QED BY <1>1, <1>11, <2>1, <2>2 DEF SetFolder, Ask, MailTypes
<1>12. ASSUME NEW h \in MailHandlers, PurgeMessage(h) PROVE MailTypes'
  <2>1. PICK ids \in SUBSET MailIds : Ask(h, [pc |-> "purge", ids |-> ids, id |-> 0])
    BY <1>12 DEF PurgeMessage
  <2>2. [pc |-> "purge", ids |-> ids, id |-> 0] \in Posts
    BY DEF Posts
  <2> QED BY <1>1, <1>12, <2>1, <2>2 DEF PurgeMessage, Ask, MailTypes
\* One message less on the list.
<1>13. ASSUME NEW h \in MailHandlers, NEW m \in MailIds, NEW pc \in {"bulk", "purge"},
              NextOf(h, pc, m), Onward(h, m)
       PROVE  post' \in [MailHandlers -> Posts]
  <2> DEFINE rest == [post[h] EXCEPT !.ids = post[h].ids \ {m}]
             p == IF ~MailExists(m) \/ post[h].ids \ {m} = {} THEN AtRest ELSE rest
  <2>1. post[h] \in Posts /\ post[h].pc = pc
    BY <1>13 DEF NextOf, MailTypes
  <2>2. pc = "bulk" => rest \in Posts
    <3> SUFFICES ASSUME pc = "bulk" PROVE rest \in Posts
      OBVIOUS
    <3>1. post[h] \in [pc : {"bulk"}, ids : SUBSET MailIds, to : Moves, id : {0}]
      BY <2>1, PostShape
    <3>2. rest \in [pc : {"bulk"}, ids : SUBSET MailIds, to : Moves, id : {0}]
      BY <3>1
    <3> QED BY <3>2 DEF Posts
  <2>3. pc = "purge" => rest \in Posts
    <3> SUFFICES ASSUME pc = "purge" PROVE rest \in Posts
      OBVIOUS
    <3>1. post[h] \in [pc : {"purge"}, ids : SUBSET MailIds, id : {0}]
      BY <2>1, PostShape
    <3>2. rest \in [pc : {"purge"}, ids : SUBSET MailIds, id : {0}]
      BY <3>1
    <3> QED BY <3>2 DEF Posts
  <2>4. rest \in Posts
    BY <2>2, <2>3
  <2>5. post' = [post EXCEPT ![h] = p]
    BY <1>13 DEF Onward
  <2> HIDE DEF rest
  <2>6. p \in Posts
    BY <2>4, RestIsPost
  <2> HIDE DEF p
  <2> QED BY <1>1, <2>5, <2>6
<1>14. ASSUME NEW h \in MailHandlers, MoveOne(h) PROVE MailTypes'
  <2>1. PICK m \in MailIds :
         /\ NextOf(h, "bulk", m)
         /\ LET to == post[h].to IN
            mail' = IF ~MailExists(m) THEN mail
                    ELSE [mail EXCEPT ![m].folder = to.folder,
                                      ![m].trash = IF to.trash = {} THEN @ ELSE to.trash = {TRUE}]
         /\ Onward(h, m)
    BY <1>14 DEF MoveOne
  <2>2. mail' \in [MailIds -> MailRow \cup {NoMail}]
    BY <2>1, MovedRow
  <2>3. post' \in [MailHandlers -> Posts]
    BY <1>13, <2>1
  <2> QED BY <1>14, <2>2, <2>3 DEF MoveOne, MailTypes
<1>15. ASSUME NEW h \in MailHandlers, PurgeOne(h) PROVE MailTypes'
  <2>1. PICK m \in MailIds : NextOf(h, "purge", m) /\ mail' = [mail EXCEPT ![m] = NoMail] /\ Onward(h, m)
    BY <1>15 DEF PurgeOne
  <2>2. post' \in [MailHandlers -> Posts]
    BY <1>13, <2>1
  <2>3. mail' \in [MailIds -> MailRow \cup {NoMail}]
    BY <2>1, OneRow
  <2> QED BY <1>15, <2>2, <2>3 DEF PurgeOne, MailTypes
<1>16. CASE DieMailing
  BY <1>16, RestIsPost DEF DieMailing, MailTypes
<1>17. CASE UNCHANGED mailVars
  BY <1>17 DEF mailVars, MailTypes
<1> QED BY <1>3, <1>4, <1>5, <1>6, <1>7, <1>8, <1>9, <1>10, <1>11, <1>12, <1>14, <1>15, <1>16, <1>17
        DEF MailboxNext

-----------------------------------------------------------------------------
(* Messages. *)

\* A new message: where another request was on its id before, it counts as crossed
\* and unsure.
LEMMA NewMessage ==
  ASSUME MailTypes, NEW h \in MailHandlers, NEW m \in MailIds, NEW r \in MailRow, Insert(m, r),
         r.status # "sent", post[h] = AtRest,
         \A g \in MailHandlers : g # h => post'[g] = post[g],
         ~Edits(h, m)', ~IsTold(h, m)',
         Sends(h, m)' => post'[h].text = r.text /\ r.folder # "drafts"
  PROVE  Accounted(m)'
<1>1. /\ mail'[m] = r /\ delivered'[m] = {}
      /\ m \notin crossed' => On(m, {"edit"} \cup Sending) = {}
      /\ m \notin unsure' => On(m, Sending) = {}
  BY InsertedRow
<1>2. m \notin crossed' => \A g \in MailHandlers : g # h => ~Sends(g, m)' /\ ~Edits(g, m)'
  BY <1>1, NobodyOn DEF Sends, Edits
<1>3. m \notin unsure' => \A g \in MailHandlers : g # h => ~Sends(g, m)'
  BY <1>1, NobodyOn DEF Sends
<1>4. SentAsIs(m)'
  BY <1>1, <1>2 DEF SentAsIs
<1>5. MarkedOrTold(m)'
  BY <1>1, <1>3 DEF MarkedOrTold
<1> QED BY <1>4, <1>5 DEF Accounted

\* A draft that somebody opens for an edit.
LEMMA EditBegins ==
  ASSUME MailTypes, NEW h \in MailHandlers, NEW m \in MailIds, Accounted(m), post[h] = AtRest,
         mail[m].folder = "drafts", UNCHANGED <<mail, delivered, unsure>>,
         crossed' = IF On(m, Sending) = {} THEN crossed ELSE crossed \cup {m},
         \A g \in MailHandlers : g # h => post'[g] = post[g],
         Edits(h, m)', ~Sends(h, m)', ~IsTold(h, m)'
  PROVE  Accounted(m)'
<1>1. ~Sends(h, m) /\ ~Edits(h, m) /\ ~IsTold(h, m)
  BY RestingSendsNothing
<1>2. SentAsIs(m)'
  <2> SUFFICES ASSUME MailExists(m)', m \notin crossed' PROVE SentAsIs(m)'
    BY DEF SentAsIs
  <2>1. MailExists(m) /\ m \notin crossed /\ SentAsIs(m) /\ On(m, Sending) = {}
    BY DEF MailExists, Accounted
  <2>2. mail[m].status # "sent"
    BY <2>1 DEF SentAsIs
  <2>3. \A g \in MailHandlers : ~Sends(g, m)'
    BY <2>1, NobodyOn DEF Sends
  <2> QED BY <2>2, <2>3 DEF SentAsIs
<1>3. MarkedOrTold(m)'
  <2> SUFFICES ASSUME MailExists(m)', m \notin unsure' PROVE MarkedOrTold(m)'
    BY DEF MarkedOrTold
  <2>1. MailExists(m) /\ m \notin unsure /\ MarkedOrTold(m)
    BY DEF MailExists, Accounted
  <2>2. \A g \in MailHandlers : (Sends(g, m)' <=> Sends(g, m)) /\ (IsTold(g, m)' <=> IsTold(g, m))
    BY <1>1 DEF Sends, IsTold
  <2>3. \A g \in MailHandlers : Sends(g, m)' /\ ~post'[g].draft => Sends(g, m) /\ ~post[g].draft
    BY <2>2
  <2> QED BY <2>1, <2>2, <2>3 DEF MarkedOrTold
<1> QED BY <1>2, <1>3 DEF Accounted

\* A draft that somebody sends.
LEMMA SendBegins ==
  ASSUME MailTypes, NEW h \in MailHandlers, NEW m \in MailIds, Accounted(m), post[h] = AtRest,
         mail[m].folder = "drafts", UNCHANGED <<mail, delivered, unsure>>,
         crossed' = IF On(m, {"edit"}) = {} THEN crossed ELSE crossed \cup {m},
         \A g \in MailHandlers : g # h => post'[g] = post[g],
         ~Edits(h, m)', ~IsTold(h, m)', post'[h].text = mail[m].text, post'[h].draft = TRUE
  PROVE  Accounted(m)'
<1>1. ~Sends(h, m) /\ ~Edits(h, m) /\ ~IsTold(h, m)
  BY RestingSendsNothing
<1>2. SentAsIs(m)'
  <2> SUFFICES ASSUME MailExists(m)', m \notin crossed' PROVE SentAsIs(m)'
    BY DEF SentAsIs
  <2>1. MailExists(m) /\ m \notin crossed /\ SentAsIs(m) /\ On(m, {"edit"}) = {}
    BY DEF MailExists, Accounted
  <2>2. \A g \in MailHandlers : ~Edits(g, m)'
    BY <2>1, NobodyOn DEF Edits
  <2>3. mail[m].status # "sent"
    BY <2>1 DEF SentAsIs
  <2>4. \A g \in MailHandlers : g # h /\ Sends(g, m)' =>
          /\ post'[g].text = mail'[m].text
          /\ ~post'[g].draft => mail'[m].folder # "drafts"
          /\ IsTold(g, m)' => mail'[m].text \in delivered'[m]
    BY <2>1 DEF SentAsIs, Sends, IsTold
  <2> QED BY <2>2, <2>3, <2>4 DEF SentAsIs
<1>3. MarkedOrTold(m)'
  <2> SUFFICES ASSUME MailExists(m)', m \notin unsure' PROVE MarkedOrTold(m)'
    BY DEF MarkedOrTold
  <2>1. MailExists(m) /\ m \notin unsure /\ MarkedOrTold(m)
    BY DEF MailExists, Accounted
  <2>2. delivered'[m] # {} => mail'[m].status = "sent" \/ \E g \in MailHandlers : IsTold(g, m)'
    <3>1. \A g \in MailHandlers : IsTold(g, m) => IsTold(g, m)'
      BY <1>1 DEF IsTold
    <3> QED BY <2>1, <3>1 DEF MarkedOrTold
  <2>3. \A g \in MailHandlers : Sends(g, m)' /\ ~post'[g].draft => Sends(g, m) /\ ~post[g].draft
    BY DEF Sends
  <2>4. \A g \in MailHandlers : ~(Sends(g, m)' /\ ~post'[g].draft)
    BY <2>1, <2>3 DEF MarkedOrTold
  <2> QED BY <2>2, <2>4 DEF MarkedOrTold
<1> QED BY <1>2, <1>3 DEF Accounted

\* A sender that goes on, with the answer of the server or without; in the first
\* case the server has taken what it was sent or not.
LEMMA SendGoesOn ==
  ASSUME MailTypes, NEW h \in MailHandlers, NEW m \in MailIds, Accounted(m), Sends(h, m), ~IsTold(h, m),
         mail' = mail, crossed' = crossed, m \in unsure => m \in unsure',
         \A g \in MailHandlers : g # h => post'[g] = post[g],
         Sends(h, m)', post'[h].text = post[h].text, post'[h].draft = post[h].draft, ~Edits(h, m)',
         \/ delivered'[m] = delivered[m] /\ ~IsTold(h, m)'
         \/ delivered'[m] = delivered[m] \cup {post[h].text} /\ (IsTold(h, m)' \/ m \in unsure')
  PROVE  Accounted(m)'
<1>1. SentAsIs(m)'
  <2> SUFFICES ASSUME MailExists(m)', m \notin crossed' PROVE SentAsIs(m)'
    BY DEF SentAsIs
  <2>1. MailExists(m) /\ m \notin crossed /\ SentAsIs(m)
    BY DEF MailExists, Accounted
  <2>2. post[h].text = mail[m].text /\ (~post[h].draft => mail[m].folder # "drafts")
        /\ \A g \in MailHandlers : ~Edits(g, m)
    BY <2>1 DEF SentAsIs
  <2>3. \A g \in MailHandlers : ~Edits(g, m)'
    BY <2>2 DEF Edits
  <2>4. \A g \in MailHandlers : g # h /\ Sends(g, m)' =>
          /\ post'[g].text = mail'[m].text
          /\ ~post'[g].draft => mail'[m].folder # "drafts"
          /\ IsTold(g, m)' => mail'[m].text \in delivered'[m]
    <3>1. \A g \in MailHandlers : g # h /\ Sends(g, m)' =>
            Sends(g, m) /\ post'[g] = post[g] /\ (IsTold(g, m)' => IsTold(g, m))
      BY DEF Sends, IsTold
    <3>2. delivered[m] \subseteq delivered'[m]
      OBVIOUS
    <3> QED BY <2>1, <3>1, <3>2 DEF SentAsIs
  <2>5. IsTold(h, m)' => mail[m].text \in delivered'[m]
    BY <2>2
  <2>6. mail[m].status = "sent" => mail[m].text \in delivered'[m] /\ mail[m].folder # "drafts"
    BY <2>1 DEF SentAsIs
  <2> QED BY <2>2, <2>3, <2>4, <2>5, <2>6 DEF SentAsIs
<1>2. MarkedOrTold(m)'
  <2> SUFFICES ASSUME MailExists(m)', m \notin unsure' PROVE MarkedOrTold(m)'
    BY DEF MarkedOrTold
  <2>1. MailExists(m) /\ m \notin unsure /\ MarkedOrTold(m)
    BY DEF MailExists, Accounted
  <2>2. \A g \in MailHandlers : IsTold(g, m) => IsTold(g, m)'
    BY DEF IsTold
  <2>3. delivered'[m] # {} => mail'[m].status = "sent" \/ \E g \in MailHandlers : IsTold(g, m)'
    <3>1. CASE IsTold(h, m)'
      BY <3>1
    <3>2. CASE delivered'[m] = delivered[m]
      BY <2>1, <2>2, <3>2 DEF MarkedOrTold
    <3> QED BY <3>1, <3>2
  <2>4. \A g \in MailHandlers : Sends(g, m)' /\ ~post'[g].draft => Sends(g, m) /\ ~post[g].draft
    BY DEF Sends
  <2>5. \A g \in MailHandlers : Sends(g, m)' => Sends(g, m)
    BY DEF Sends
  <2>6. ASSUME NEW g \in MailHandlers, Sends(g, m)', ~post'[g].draft
        PROVE  /\ \A k \in MailHandlers : Sends(k, m)' => k = g
               /\ mail'[m].folder # "drafts"
               /\ delivered'[m] # {} => IsTold(g, m)'
    <3>1. /\ \A k \in MailHandlers : Sends(k, m) => k = g
          /\ mail[m].folder # "drafts" /\ (delivered[m] # {} => IsTold(g, m))
      BY <2>1, <2>4, <2>6 DEF MarkedOrTold
    <3>2. g = h /\ delivered[m] = {}
      BY <3>1
    <3> QED BY <2>5, <3>1, <3>2
  <2> QED BY <2>3, <2>6 DEF MarkedOrTold
<1> QED BY <1>1, <1>2 DEF Accounted

\* The outcome is written on the row.
LEMMA OutcomeWritten ==
  ASSUME MailTypes, NEW h \in MailHandlers, NEW m \in MailIds, Accounted(m), CommitOutcome(h), post[h].id = m,
         \A g \in MailHandlers : g # h => post'[g] = post[g], post'[h] = AtRest
  PROVE  Accounted(m)'
<1>1. /\ post[h].pc = "outcome" /\ post[h].draft \in BOOLEAN /\ post[h].told \in BOOLEAN
      /\ UNCHANGED <<delivered, crossed, unsure>>
  BY OutcomeRow DEF CommitOutcome
<1>2. Sends(h, m) /\ (IsTold(h, m) <=> post[h].told)
  BY <1>1 DEF Sends, IsTold, Sending
<1>3. ~Sends(h, m)' /\ ~Edits(h, m)' /\ ~IsTold(h, m)'
  BY DEF AtRest, Sends, Edits, IsTold, Sending
<1>4. CASE ~MailExists(m)
  <2>1. ~MailExists(m)'
    BY <1>4, OutcomeRow DEF MailExists
  <2> QED BY <2>1 DEF Accounted, SentAsIs, MarkedOrTold
<1>5. CASE post[h].draft /\ ~post[h].told
  <2>1. mail' = mail
    BY <1>5, OutcomeRow
  <2> QED BY <1>1, <1>2, <1>3, <1>5, <2>1, Bystander DEF MailExists
<1>6. CASE MailExists(m) /\ (post[h].draft => post[h].told)
  <2>1. /\ mail'[m].text = mail[m].text
        /\ mail'[m].status = (IF post[h].told THEN "sent" ELSE "failed")
        /\ mail'[m].folder = (IF post[h].draft THEN "sent" ELSE mail[m].folder)
    BY <1>6, OutcomeRow
  <2>2. \A g \in MailHandlers : /\ Sends(g, m)' => g # h /\ Sends(g, m) /\ post'[g] = post[g]
                                /\ IsTold(g, m)' => IsTold(g, m)
                                /\ Edits(g, m)' => Edits(g, m)
    BY <1>3 DEF Sends, IsTold, Edits
  <2>3. SentAsIs(m)'
    <3> SUFFICES ASSUME MailExists(m)', m \notin crossed' PROVE SentAsIs(m)'
      BY DEF SentAsIs
    <3>1. SentAsIs(m) /\ m \notin crossed
      BY <1>1 DEF Accounted
    <3>2. /\ ~post[h].draft => mail[m].folder # "drafts"
          /\ post[h].told => mail[m].text \in delivered[m]
          /\ \A g \in MailHandlers : ~Edits(g, m)
      BY <1>2, <1>6, <3>1 DEF SentAsIs
    <3>3. \A g \in MailHandlers : ~Edits(g, m)'
      BY <2>2, <3>2
    <3>4. mail'[m].status = "sent" => mail'[m].text \in delivered'[m] /\ mail'[m].folder # "drafts"
      BY <1>1, <2>1, <3>2
    <3>5. \A g \in MailHandlers : Sends(g, m)' =>
            /\ post'[g].text = mail'[m].text
            /\ ~post'[g].draft => mail'[m].folder # "drafts"
            /\ IsTold(g, m)' => mail'[m].text \in delivered'[m]
      BY <1>1, <1>6, <2>1, <2>2, <3>1 DEF SentAsIs
    <3> QED BY <3>3, <3>4, <3>5 DEF SentAsIs
  <2>4. MarkedOrTold(m)'
    <3> SUFFICES ASSUME MailExists(m)', m \notin unsure' PROVE MarkedOrTold(m)'
      BY DEF MarkedOrTold
    <3>1. MarkedOrTold(m) /\ m \notin unsure
      BY <1>1 DEF Accounted
    <3>2. delivered'[m] # {} => mail'[m].status = "sent"
      <4>1. CASE post[h].told
        BY <2>1, <4>1
      <4>2. CASE ~post[h].told
        <5>1. ~post[h].draft /\ ~IsTold(h, m)
          BY <1>2, <1>6, <4>2
        <5>2. delivered[m] = {}
          BY <1>2, <1>6, <3>1, <5>1 DEF MarkedOrTold
        <5> QED BY <1>1, <5>2
      <4> QED BY <4>1, <4>2
    <3>3. \A g \in MailHandlers : ~(Sends(g, m)' /\ ~post'[g].draft)
      BY <1>2, <1>6, <2>2, <3>1 DEF MarkedOrTold
    <3> QED BY <3>2, <3>3 DEF MarkedOrTold
  <2> QED BY <2>3, <2>4 DEF Accounted
<1> QED BY <1>4, <1>5, <1>6

\* A requested text is written on a draft.
LEMMA EditWritten ==
  ASSUME MailTypes, NEW h \in MailHandlers, NEW m \in MailIds, Accounted(m), CommitEdit(h), post[h].id = m,
         \A g \in MailHandlers : g # h => post'[g] = post[g], post'[h] = AtRest
  PROVE  Accounted(m)'
<1>1. Edits(h, m) /\ ~IsTold(h, m) /\ ~Sends(h, m) /\ UNCHANGED <<delivered, crossed, unsure>>
  BY DEF CommitEdit, Edits, IsTold, Sends, Sending
<1>2. ~Sends(h, m)' /\ ~Edits(h, m)' /\ ~IsTold(h, m)'
  BY DEF AtRest, Sends, Edits, IsTold, Sending
<1>3. CASE ~MailExists(m)
  <2>1. ~MailExists(m)'
    BY <1>3, EditedRow DEF MailExists
  <2> QED BY <2>1 DEF Accounted, SentAsIs, MarkedOrTold
<1>4. CASE MailExists(m)
  <2>1. mail'[m].folder = mail[m].folder /\ mail'[m].status = mail[m].status
    BY <1>4, EditedRow
  <2>2. \A g \in MailHandlers : /\ Sends(g, m)' => Sends(g, m) /\ post'[g] = post[g]
                                /\ IsTold(g, m)' <=> IsTold(g, m)
                                /\ Edits(g, m)' => Edits(g, m)
    BY <1>1, <1>2 DEF Sends, IsTold, Edits
  <2>3. SentAsIs(m)'
    <3> SUFFICES ASSUME m \notin crossed' PROVE SentAsIs(m)'
      BY DEF SentAsIs
    <3>1. /\ mail[m].status # "sent"
          /\ \A g \in MailHandlers : ~Sends(g, m)
      BY <1>1, <1>4 DEF Accounted, SentAsIs
    <3> QED BY <2>1, <2>2, <3>1 DEF SentAsIs
  <2>4. MarkedOrTold(m)'
    BY <1>1, <1>4, <2>1, <2>2 DEF Accounted, MarkedOrTold
  <2> QED BY <2>3, <2>4 DEF Accounted
<1> QED BY <1>3, <1>4

LEMMA AccountedStep ==
  ASSUME MailTypes, NEW m \in MailIds, Accounted(m), [MailboxNext]_mailVars
  PROVE  Accounted(m)'
<1>0. ASSUME NEW h \in MailHandlers, NEW p \in Posts, Ask(h, p)
      PROVE  /\ post[h] = AtRest /\ post'[h] = p
             /\ \A g \in MailHandlers : g # h => post'[g] = post[g]
             /\ ~Sends(h, m) /\ ~IsTold(h, m) /\ ~Edits(h, m)
  BY <1>0, OthersStay, RestingSendsNothing DEF Ask
<1>a. ASSUME NEW h \in MailHandlers, Answer(h)
      PROVE  /\ post'[h] = AtRest /\ ~Sends(h, m)' /\ ~IsTold(h, m)' /\ ~Edits(h, m)'
             /\ \A g \in MailHandlers : g # h => post'[g] = post[g]
  <2>1. post'[h] = AtRest /\ \A g \in MailHandlers : g # h => post'[g] = post[g]
    BY <1>a, OthersStay, RestIsPost DEF Answer
  <2>2. ~Sends(h, m)' /\ ~IsTold(h, m)' /\ ~Edits(h, m)'
    BY <2>1 DEF AtRest, Sends, Edits, IsTold, Sending
  <2> QED BY <2>1, <2>2
<1>1. ASSUME NEW h \in MailHandlers, CreateDraft(h) PROVE Accounted(m)'
  <2>1. PICK text \in Texts :
          /\ Insert(NewId, [folder |-> "drafts", status |-> "draft", text |-> text, trash |-> FALSE])
          /\ Ask(h, AtRest)
    BY <1>1 DEF CreateDraft
  <2> DEFINE n == NewId
             r == [folder |-> "drafts", status |-> "draft", text |-> text, trash |-> FALSE]
  <2>2. n \in MailIds /\ Insert(n, r)
    BY <2>1 DEF Insert
  <2>3. r \in MailRow /\ r.status # "sent"
    BY DEF MailRow
  <2> HIDE DEF n, r
  <2>4. /\ post[h] = AtRest /\ post'[h] = AtRest /\ ~Sends(h, m) /\ ~IsTold(h, m)
        /\ \A g \in MailHandlers : g # h => post'[g] = post[g]
    BY <1>0, <2>1, RestIsPost
  <2>5. ~Sends(h, m)' /\ ~IsTold(h, m)' /\ ~Edits(h, m)'
    BY <2>4 DEF AtRest, Sends, Edits, IsTold, Sending
  <2>6. CASE m = n
    BY <2>2, <2>3, <2>4, <2>5, <2>6, NewMessage
  <2>7. CASE m # n
    <3>1. mail'[m] = mail[m] /\ delivered'[m] = delivered[m]
          /\ (m \in crossed => m \in crossed') /\ (m \in unsure => m \in unsure')
      BY <2>2, <2>3, <2>7, InsertedRow
    <3> QED BY <2>4, <2>5, <3>1, Bystander DEF MailExists
  <2> QED BY <2>6, <2>7
<1>2. ASSUME NEW h \in MailHandlers, UpdateDraft(h) PROVE Accounted(m)'
  <2>1. PICK n \in MailIds, text \in Texts :
         /\ MailExists(n) /\ mail[n].folder = "drafts"
         /\ Ask(h, [pc |-> "edit", id |-> n, text |-> text])
         /\ crossed' = IF On(n, Sending) = {} THEN crossed ELSE crossed \cup {n}
    BY <1>2 DEF UpdateDraft
  <2>2. [pc |-> "edit", id |-> n, text |-> text] \in Posts
    BY DEF Posts
  <2>3. /\ post[h] = AtRest /\ post'[h] = [pc |-> "edit", id |-> n, text |-> text]
        /\ ~IsTold(h, m) /\ \A g \in MailHandlers : g # h => post'[g] = post[g]
    BY <1>0, <2>1, <2>2
  <2>4. UNCHANGED <<mail, delivered, unsure>>
    BY <1>2 DEF UpdateDraft
  <2>5. ~Sends(h, m)' /\ ~IsTold(h, m)' /\ (Edits(h, m)' <=> m = n)
    BY <2>3 DEF Sends, Edits, IsTold, Sending
  <2>6. CASE m = n
    BY <2>1, <2>3, <2>4, <2>5, <2>6, EditBegins
  <2>7. CASE m # n
    BY <2>1, <2>3, <2>4, <2>5, <2>7, Bystander DEF MailExists
  <2> QED BY <2>6, <2>7
<1>3. ASSUME NEW h \in MailHandlers, CommitEdit(h) PROVE Accounted(m)'
  <2>1. Answer(h) /\ UNCHANGED <<delivered, crossed, unsure>>
    BY <1>3 DEF CommitEdit
  <2>2. CASE post[h].id = m
    BY <1>3, <1>a, <2>1, <2>2, EditWritten
  <2>3. CASE post[h].id # m
    <3>1. mail'[m] = mail[m] /\ ~IsTold(h, m)
      BY <1>3, <2>3, EditedRow DEF IsTold
    <3> QED BY <1>a, <2>1, <3>1, Bystander DEF MailExists
  <2> QED BY <2>2, <2>3
<1>4. ASSUME NEW h \in MailHandlers, SendDraft(h) PROVE Accounted(m)'
  <2>1. PICK n \in MailIds :
         /\ MailExists(n) /\ mail[n].folder = "drafts"
         /\ Ask(h, [pc |-> "sending", id |-> n, text |-> mail[n].text, draft |-> TRUE])
         /\ crossed' = IF On(n, {"edit"}) = {} THEN crossed ELSE crossed \cup {n}
    BY <1>4 DEF SendDraft
  <2>2. [pc |-> "sending", id |-> n, text |-> mail[n].text, draft |-> TRUE] \in Posts
    <3>1. mail[n].text \in Texts
      BY <2>1, Existing DEF MailRow
    <3> QED BY <3>1 DEF Posts
  <2>3. /\ post[h] = AtRest /\ post'[h] = [pc |-> "sending", id |-> n, text |-> mail[n].text, draft |-> TRUE]
        /\ ~IsTold(h, m) /\ \A g \in MailHandlers : g # h => post'[g] = post[g]
    BY <1>0, <2>1, <2>2
  <2>4. UNCHANGED <<mail, delivered, unsure>>
    BY <1>4 DEF SendDraft
  <2>5. ~Edits(h, m)' /\ ~IsTold(h, m)' /\ (Sends(h, m)' => m = n)
    BY <2>3 DEF Sends, Edits, IsTold, Sending
  <2>6. CASE m = n
    <3>1. post'[h].text = mail[m].text /\ post'[h].draft = TRUE
      BY <2>3, <2>6
    <3> QED BY <2>1, <2>3, <2>4, <2>5, <2>6, <3>1, SendBegins
  <2>7. CASE m # n
    BY <2>1, <2>3, <2>4, <2>5, <2>7, Bystander DEF MailExists
  <2> QED BY <2>6, <2>7
<1>5. ASSUME NEW h \in MailHandlers, Send(h) PROVE Accounted(m)'
  <2>1. PICK folder \in {"sent", "inbox"}, text \in Texts :
          /\ Insert(NewId, [folder |-> folder, status |-> "pending", text |-> text, trash |-> FALSE])
          /\ Ask(h, [pc |-> "attach", id |-> NewId, text |-> text, draft |-> FALSE])
    BY <1>5 DEF Send
  <2> DEFINE n == NewId
             r == [folder |-> folder, status |-> "pending", text |-> text, trash |-> FALSE]
  <2>2. n \in MailIds /\ Insert(n, r) /\ Ask(h, [pc |-> "attach", id |-> n, text |-> text, draft |-> FALSE])
    BY <2>1 DEF Insert
  <2>3. r \in MailRow /\ r.status # "sent" /\ r.text = text /\ r.folder # "drafts"
    BY DEF MailRow
  <2> HIDE DEF n, r
  <2>4. [pc |-> "attach", id |-> n, text |-> text, draft |-> FALSE] \in Posts
    BY <2>2 DEF Posts
  <2>5. /\ post[h] = AtRest /\ post'[h] = [pc |-> "attach", id |-> n, text |-> text, draft |-> FALSE]
        /\ ~IsTold(h, m) /\ \A g \in MailHandlers : g # h => post'[g] = post[g]
    BY <1>0, <2>2, <2>4
  <2>6. ~Edits(h, m)' /\ ~IsTold(h, m)' /\ (Sends(h, m)' => m = n) /\ post'[h].text = text
    BY <2>5 DEF Sends, Edits, IsTold, Sending
  <2>7. CASE m = n
    BY <2>2, <2>3, <2>5, <2>6, <2>7, NewMessage
  <2>8. CASE m # n
    <3>1. mail'[m] = mail[m] /\ delivered'[m] = delivered[m]
          /\ (m \in crossed => m \in crossed') /\ (m \in unsure => m \in unsure')
      BY <2>2, <2>3, <2>8, InsertedRow
    <3> QED BY <2>5, <2>6, <2>8, <3>1, Bystander DEF MailExists
  <2> QED BY <2>7, <2>8
<1>6. ASSUME NEW h \in MailHandlers, SaveAttachments(h) PROVE Accounted(m)'
  <2>1. post[h].pc = "attach" /\ UNCHANGED <<mail, delivered, crossed, unsure>>
    BY <1>6 DEF SaveAttachments
  <2>2. ~IsTold(h, m) /\ ~Edits(h, m)
    BY <2>1 DEF IsTold, Edits
  <2>3. CASE Answer(h)
    BY <1>a, <2>1, <2>2, <2>3, Bystander DEF MailExists
  <2>4. CASE post' = [post EXCEPT ![h].pc = "sending"]
    <3> DEFINE p == [post[h] EXCEPT !.pc = "sending"]
    <3>1. post[h] \in [pc : {"attach", "sending"}, id : MailIds, text : Texts, draft : BOOLEAN]
      BY <2>1, PostShape DEF MailTypes
    <3>2. /\ p \in [pc : {"attach", "sending"}, id : MailIds, text : Texts, draft : BOOLEAN]
          /\ p.pc = "sending" /\ p.id = post[h].id /\ p.text = post[h].text /\ p.draft = post[h].draft
      BY <3>1
    <3>3. p \in Posts
      BY <3>2 DEF Posts
    <3>4. post' = [post EXCEPT ![h] = p]
      BY <2>4
    <3> HIDE DEF p
    <3>5. post'[h] = p /\ \A g \in MailHandlers : g # h => post'[g] = post[g]
      BY <3>3, <3>4, OthersStay
    <3>6. ~IsTold(h, m)' /\ ~Edits(h, m)' /\ (Sends(h, m)' <=> Sends(h, m))
      BY <2>1, <3>2, <3>5 DEF IsTold, Edits, Sends, Sending
    <3>7. CASE Sends(h, m)
      BY <2>1, <2>2, <3>2, <3>5, <3>6, <3>7, SendGoesOn
    <3>8. CASE ~Sends(h, m)
      BY <2>1, <2>2, <3>5, <3>6, <3>8, Bystander DEF MailExists
    <3> QED BY <3>7, <3>8
  <2> QED BY <1>6, <2>3, <2>4 DEF SaveAttachments
<1>7. ASSUME NEW h \in MailHandlers, Deliver(h) PROVE Accounted(m)'
  <2> DEFINE p == post[h]
  <2>1. /\ p.pc = "sending" /\ p.id \in MailIds /\ p.text \in Texts /\ p.draft \in BOOLEAN
        /\ UNCHANGED <<mail, crossed>>
    BY <1>7, PostShape DEF Deliver, MailTypes, Sending
  <2>2. PICK taken \in BOOLEAN, told \in BOOLEAN :
         /\ told => taken
         /\ delivered' = IF taken THEN [delivered EXCEPT ![p.id] = @ \cup {p.text}] ELSE delivered
         /\ unsure' = IF taken /\ ~told THEN unsure \cup {p.id} ELSE unsure
         /\ post' = [post EXCEPT ![h] = [pc |-> "outcome", id |-> p.id, text |-> p.text,
                                         draft |-> p.draft, told |-> told]]
    BY <1>7 DEF Deliver
  <2> DEFINE q == [pc |-> "outcome", id |-> p.id, text |-> p.text, draft |-> p.draft, told |-> told]
  <2>3. q \in Posts /\ q.pc = "outcome" /\ q.id = p.id /\ q.text = p.text /\ q.draft = p.draft /\ q.told = told
    BY <2>1 DEF Posts
  <2>4. post' = [post EXCEPT ![h] = q]
    BY <2>2
  <2> HIDE DEF q
  <2>5. post'[h] = q /\ \A g \in MailHandlers : g # h => post'[g] = post[g]
    BY <2>3, <2>4, OthersStay
  <2>6. /\ ~IsTold(h, m) /\ ~Edits(h, m)' /\ (Sends(h, m) <=> p.id = m) /\ (Sends(h, m)' <=> p.id = m)
        /\ IsTold(h, m)' <=> p.id = m /\ told
    BY <2>1, <2>3, <2>5 DEF IsTold, Edits, Sends, Sending
  <2>7. CASE p.id = m
    <3>1. delivered'[m] = IF taken THEN delivered[m] \cup {p.text} ELSE delivered[m]
      BY <2>1, <2>2, <2>7 DEF MailTypes
    <3>2. \/ delivered'[m] = delivered[m] /\ ~IsTold(h, m)'
          \/ delivered'[m] = delivered[m] \cup {p.text} /\ (IsTold(h, m)' \/ m \in unsure')
      BY <2>2, <2>6, <2>7, <3>1
    <3>3. m \in unsure => m \in unsure'
      BY <2>2
    <3> QED BY <2>1, <2>3, <2>5, <2>6, <2>7, <3>2, <3>3, SendGoesOn
  <2>8. CASE p.id # m
    <3>1. delivered'[m] = delivered[m] /\ (m \in unsure => m \in unsure')
      BY <2>1, <2>2, <2>8 DEF MailTypes
    <3> QED BY <2>1, <2>5, <2>6, <2>8, <3>1, Bystander DEF MailExists
  <2> QED BY <2>7, <2>8
<1>8. ASSUME NEW h \in MailHandlers, CommitOutcome(h) PROVE Accounted(m)'
  <2>1. Answer(h) /\ UNCHANGED <<delivered, crossed, unsure>>
    BY <1>8 DEF CommitOutcome
  <2>2. CASE post[h].id = m
    BY <1>8, <1>a, <2>1, <2>2, OutcomeWritten
  <2>3. CASE post[h].id # m
    <3>1. mail'[m] = mail[m] /\ ~IsTold(h, m)
      BY <1>8, <2>3, OutcomeRow DEF IsTold
    <3> QED BY <1>a, <2>1, <3>1, Bystander DEF MailExists
  <2> QED BY <2>2, <2>3
\* Requests on several messages only move or purge them.
<1>9. ASSUME NEW h \in MailHandlers, SetFolder(h) \/ PurgeMessage(h) PROVE Accounted(m)'
  <2>1. PICK p \in Posts : Ask(h, p) /\ p.pc \in {"bulk", "purge"}
    <3>1. CASE SetFolder(h)
      <4>1. PICK ids \in SUBSET MailIds, to \in Moves : Ask(h, [pc |-> "bulk", ids |-> ids, to |-> to, id |-> 0])
        BY <3>1 DEF SetFolder
      <4>2. [pc |-> "bulk", ids |-> ids, to |-> to, id |-> 0] \in Posts
        BY DEF Posts
      <4> QED BY <4>1, <4>2
    <3>2. CASE PurgeMessage(h)
      <4>1. PICK ids \in SUBSET MailIds : Ask(h, [pc |-> "purge", ids |-> ids, id |-> 0])
        BY <3>2 DEF PurgeMessage
      <4>2. [pc |-> "purge", ids |-> ids, id |-> 0] \in Posts
        BY DEF Posts
      <4> QED BY <4>1, <4>2
    <3> QED BY <1>9, <3>1, <3>2
  <2>2. post'[h] = p /\ ~IsTold(h, m) /\ \A g \in MailHandlers : g # h => post'[g] = post[g]
    BY <1>0, <2>1
  <2>3. ~Sends(h, m)' /\ ~Edits(h, m)'
    BY <2>1, <2>2 DEF Sends, Edits, Sending
  <2>4. UNCHANGED <<mail, delivered, crossed, unsure>>
    BY <1>9 DEF SetFolder, PurgeMessage
  <2> QED BY <2>2, <2>3, <2>4, Bystander DEF MailExists
<1>10. ASSUME NEW h \in MailHandlers, NEW n \in MailIds, NEW pc \in {"bulk", "purge"},
              NextOf(h, pc, n), Onward(h, n)
       PROVE  /\ ~Sends(h, m)' /\ ~Edits(h, m)' /\ ~IsTold(h, m)
              /\ \A g \in MailHandlers : g # h => post'[g] = post[g]
  <2> DEFINE rest == post[h].ids \ {n}
             q == [post[h] EXCEPT !.ids = rest]
             p == IF ~MailExists(n) \/ rest = {} THEN AtRest ELSE q
  <2>1. post' = [post EXCEPT ![h] = p] /\ post[h].pc = pc /\ post[h] \in Posts
    BY <1>10 DEF Onward, NextOf, MailTypes
  <2>2. q.pc = pc
    <3>1. post[h] \in [pc : {"bulk"}, ids : SUBSET MailIds, to : Moves, id : {0}]
          \/ post[h] \in [pc : {"purge"}, ids : SUBSET MailIds, id : {0}]
      BY <2>1, PostShape
    <3> QED BY <2>1, <3>1
  <2> HIDE DEF q
  <2>3. p.pc \notin {"edit"} \cup Sending
    BY <2>2 DEF AtRest, Sending
  <2> HIDE DEF p
  <2>4. post'[h] = p /\ \A g \in MailHandlers : g # h => post'[g] = post[g]
    BY <2>1 DEF MailTypes
  <2> QED BY <2>1, <2>3, <2>4 DEF Sends, Edits, IsTold
<1>11. ASSUME NEW h \in MailHandlers, MoveOne(h) PROVE Accounted(m)'
  <2>1. PICK n \in MailIds :
         /\ NextOf(h, "bulk", n)
         /\ LET to == post[h].to IN
            mail' = IF ~MailExists(n) THEN mail
                    ELSE [mail EXCEPT ![n].folder = to.folder,
                                      ![n].trash = IF to.trash = {} THEN @ ELSE to.trash = {TRUE}]
         /\ Onward(h, n)
    BY <1>11 DEF MoveOne
  <2>2. /\ MailExists(n) => /\ mail'[n].text = mail[n].text
                            /\ mail'[n].status = mail[n].status /\ mail'[n].folder # "drafts"
        /\ ~MailExists(n) => mail' = mail
        /\ \A k \in MailIds : k # n => mail'[k] = mail[k]
    BY <2>1, MovedRow
  <2>3. MailExists(m)' => /\ MailExists(m)
                          /\ mail'[m].text = mail[m].text /\ mail'[m].status = mail[m].status
                          /\ mail'[m].folder = "drafts" => mail[m].folder = "drafts"
    BY <2>2 DEF MailExists
  <2>4. /\ ~Sends(h, m)' /\ ~Edits(h, m)' /\ ~IsTold(h, m)
        /\ \A g \in MailHandlers : g # h => post'[g] = post[g]
    BY <1>10, <2>1
  <2> QED BY <1>11, <2>3, <2>4, Bystander DEF MoveOne
<1>12. ASSUME NEW h \in MailHandlers, PurgeOne(h) PROVE Accounted(m)'
  <2>1. PICK n \in MailIds : NextOf(h, "purge", n) /\ mail' = [mail EXCEPT ![n] = NoMail] /\ Onward(h, n)
    BY <1>12 DEF PurgeOne
  <2>2. MailExists(m)' => MailExists(m) /\ mail'[m] = mail[m]
    BY <2>1 DEF MailTypes, MailExists
  <2>3. /\ ~Sends(h, m)' /\ ~Edits(h, m)' /\ ~IsTold(h, m)
        /\ \A g \in MailHandlers : g # h => post'[g] = post[g]
    BY <1>10, <2>1
  <2> QED BY <1>12, <2>2, <2>3, Bystander DEF PurgeOne
<1>13. CASE DieMailing
  <2>1. /\ UNCHANGED <<mail, delivered, crossed>>
        /\ \A h \in MailHandlers : post'[h] = AtRest
        /\ unsure' = unsure \cup {k \in MailIds : On(k, {"sending", "outcome"}) # {}}
    BY <1>13 DEF DieMailing
  <2>2. \A h \in MailHandlers : ~Sends(h, m)' /\ ~Edits(h, m)' /\ ~IsTold(h, m)'
    BY <2>1 DEF AtRest, Sends, Edits, IsTold, Sending
  <2>3. SentAsIs(m)'
    BY <2>1, <2>2 DEF Accounted, SentAsIs, MailExists
  <2>4. m \notin unsure' => m \notin unsure /\ \A h \in MailHandlers : ~IsTold(h, m)
    <3>1. m \notin unsure' => m \notin unsure /\ On(m, {"sending", "outcome"}) = {}
      BY <2>1
    <3> QED BY <3>1, NobodyOn DEF IsTold
  <2>5. MarkedOrTold(m)'
    BY <2>1, <2>2, <2>4 DEF Accounted, MarkedOrTold, MailExists
  <2> QED BY <2>3, <2>5 DEF Accounted
<1>14. CASE UNCHANGED mailVars
  BY <1>14 DEF mailVars, Accounted, SentAsIs, MarkedOrTold, MailExists, Sends, Edits, IsTold
<1> QED BY <1>1, <1>2, <1>3, <1>4, <1>5, <1>6, <1>7, <1>8, <1>9, <1>11, <1>12, <1>13, <1>14 DEF MailboxNext

\* A message marked as sent was taken by the mail server as it is, and one taken is
\* marked, but for those edited, interrupted or never answered, whatever requests run
\* side by side and whatever ids are taken again.
THEOREM MailStaysAccounted == MailboxSpec => []MailIsAccounted
<1>1. MailboxInit => MailInv
  <2> SUFFICES ASSUME MailboxInit PROVE MailInv
    OBVIOUS
  <2>1. MailTypes /\ \A m \in MailIds : ~MailExists(m)
    BY RestIsPost DEF MailboxInit, MailTypes, MailExists
  <2> QED BY <2>1 DEF MailInv, Accounted, SentAsIs, MarkedOrTold
<1>2. MailInv /\ [MailboxNext]_mailVars => MailInv'
  <2> SUFFICES ASSUME MailInv, [MailboxNext]_mailVars PROVE MailInv'
    OBVIOUS
  <2>1. \A m \in MailIds : Accounted(m)'
    BY AccountedStep DEF MailInv
  <2> QED BY <2>1, TypesStep DEF MailInv
<1>3. MailInv => MailIsAccounted
  <2> SUFFICES ASSUME MailInv, NEW m \in MailIds, MailExists(m)
               PROVE  /\ mail[m].status = "sent" /\ m \notin crossed => mail[m].text \in delivered[m]
                      /\ delivered[m] # {} /\ m \notin unsure =>
                           mail[m].status = "sent" \/ \E h \in On(m, {"outcome"}) : post[h].told
    BY DEF MailIsAccounted
  <2>1. SentAsIs(m) /\ MarkedOrTold(m)
    BY DEF MailInv, Accounted
  <2> QED BY <2>1 DEF SentAsIs, MarkedOrTold, IsTold, On
<1> QED BY <1>1, <1>2, <1>3, PTL DEF MailboxSpec
=============================================================================
