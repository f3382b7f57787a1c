-------------------------------- MODULE Mailbox --------------------------------
(***************************************************************************)
(* Messages of the administrators and feedback of the users, which share   *)
(* one table: routes/messages.py, routes/feedback.py and the delivery of   *)
(* services/feedback.py.  A handler reads a row, hands the mail to the SMTP *)
(* server in a thread, and commits the outcome: an unlocked window as long *)
(* as the mail server likes.                                               *)
(*                                                                         *)
(* A text stands for all that is sent; marks of having been read,          *)
(* attachments on the disk and the webhook are left out.                   *)
(***************************************************************************)
EXTENDS Naturals, FiniteSetsExt

CONSTANTS
    MaxMails,        \* bound: ids of messages
    Texts,
    MailHandlers,    \* concurrent requests
    NoMail,
    MaxMailCalls,    \* bound: requests begun
    MaxMailDeaths    \* bound: restarts of the process

MailRow == [folder : {"drafts", "sent", "inbox", "archived", "deleted"},
            status : {"draft", "pending", "sent", "failed"}, text : Texts, trash : BOOLEAN]

ASSUME MailboxConstants ==
    /\ MaxMails \in Nat /\ MaxMailCalls \in Nat /\ MaxMailDeaths \in Nat
    /\ {NoMail} \cap MailRow = {}

VARIABLES
    mail,       \* the table feedback_submissions: id -> row or NoMail
    post,       \* what each request has read and is about to do
    delivered,  \* history: texts the mail server has taken, by message
    crossed,    \* history: messages edited while being sent
    unsure,     \* history: messages taken by the server without the sender learning it
    mailCalls, mailDeaths

mailVars == <<mail, post, delivered, crossed, unsure, mailCalls, mailDeaths>>

MailIds == 1..MaxMails
MailExists(m) == mail[m] # NoMail
AtRest == [pc |-> "idle"]
NewId == 1 + Max({0} \cup {m \in MailIds : MailExists(m)})
Sending == {"attach", "sending", "outcome"}
On(m, pcs) == {h \in MailHandlers : post[h].pc \in pcs /\ post[h].id = m}

MailboxInit ==
    /\ mail = [m \in MailIds |-> NoMail]
    /\ post = [h \in MailHandlers |-> AtRest]
    /\ delivered = [m \in MailIds |-> {}]
    /\ crossed = {} /\ unsure = {}
    /\ mailCalls = 0 /\ mailDeaths = 0

Ask(h, p) ==
    /\ post[h] = AtRest
    /\ mailCalls < MaxMailCalls /\ mailCalls' = mailCalls + 1
    /\ post' = [post EXCEPT ![h] = p]
Answer(h) == post' = [post EXCEPT ![h] = AtRest]

\* A new row takes the id after the highest, which a purged one may have had.
Insert(m, row) ==
    /\ m \in MailIds
    /\ mail' = [mail EXCEPT ![m] = row]
    /\ delivered' = [delivered EXCEPT ![m] = {}]
    /\ crossed' = IF On(m, {"edit"} \cup Sending) = {} THEN crossed \ {m} ELSE crossed \cup {m}
    /\ unsure' = IF On(m, Sending) = {} THEN unsure \ {m} ELSE unsure \cup {m}

-----------------------------------------------------------------------------
(* Drafts. *)

CreateDraft(h) ==
    \E text \in Texts :
      /\ Insert(NewId, [folder |-> "drafts", status |-> "draft", text |-> text, trash |-> FALSE])
      /\ Ask(h, AtRest)
      /\ UNCHANGED mailDeaths

UpdateDraft(h) ==
    /\ \E m \in MailIds, text \in Texts :
         /\ MailExists(m) /\ mail[m].folder = "drafts"
         /\ Ask(h, [pc |-> "edit", id |-> m, text |-> text])
         /\ crossed' = IF On(m, Sending) = {} THEN crossed ELSE crossed \cup {m}
    /\ UNCHANGED <<mail, delivered, unsure, mailDeaths>>
CommitEdit(h) ==
    /\ post[h].pc = "edit"
    /\ mail' = IF MailExists(post[h].id) THEN [mail EXCEPT ![post[h].id].text = post[h].text] ELSE mail
    /\ Answer(h)
    /\ UNCHANGED <<delivered, crossed, unsure, mailCalls, mailDeaths>>

\* A draft is sent once it has a recipient; the row is written afterwards.
SendDraft(h) ==
    /\ \E m \in MailIds :
         /\ MailExists(m) /\ mail[m].folder = "drafts"
         /\ Ask(h, [pc |-> "sending", id |-> m, text |-> mail[m].text, draft |-> TRUE])
         /\ crossed' = IF On(m, {"edit"}) = {} THEN crossed ELSE crossed \cup {m}
    /\ UNCHANGED <<mail, delivered, unsure, mailDeaths>>

-----------------------------------------------------------------------------
(* Messages, replies and feedback: the row first, as pending; attachments   *)
(* that are refused end the request there; then the mail.                   *)

Send(h) ==
    \E folder \in {"sent", "inbox"}, text \in Texts :
      /\ Insert(NewId, [folder |-> folder, status |-> "pending", text |-> text, trash |-> FALSE])
      /\ Ask(h, [pc |-> "attach", id |-> NewId, text |-> text, draft |-> FALSE])
      /\ UNCHANGED mailDeaths

SaveAttachments(h) ==
    /\ post[h].pc = "attach"
    /\ \/ post' = [post EXCEPT ![h].pc = "sending"]
       \/ Answer(h)
    /\ UNCHANGED <<mail, delivered, crossed, unsure, mailCalls, mailDeaths>>

\* The server takes the mail, or not, or takes it and fails afterwards.
Deliver(h) ==
    LET p == post[h] IN
    /\ p.pc = "sending"
    /\ \E taken, told \in BOOLEAN :
         /\ told => taken
         /\ delivered' = IF taken THEN [delivered EXCEPT ![p.id] = @ \cup {p.text}] ELSE delivered
         /\ unsure' = IF taken /\ ~told THEN unsure \cup {p.id} ELSE unsure
         /\ post' = [post EXCEPT ![h] = [pc |-> "outcome", id |-> p.id, text |-> p.text,
                                         draft |-> p.draft, told |-> told]]
    /\ UNCHANGED <<mail, crossed, mailCalls, mailDeaths>>

\* A draft that was not sent stays one; a row that is gone fails the commit.
\* Failed stands for skipped as well, where feedback is not mailed at all.
CommitOutcome_Regardless(h) ==   \* mutated form
    LET p == post[h] IN
    /\ p.pc = "outcome"
    /\ mail' = IF ~MailExists(p.id) THEN mail
               ELSE IF p.draft THEN [mail EXCEPT ![p.id].folder = "sent", ![p.id].status = "sent"]
               ELSE [mail EXCEPT ![p.id].status = IF p.told THEN "sent" ELSE "failed"]
    /\ Answer(h)
    /\ UNCHANGED <<delivered, crossed, unsure, mailCalls, mailDeaths>>
CommitOutcome(h) ==
    LET p == post[h] IN
    /\ p.pc = "outcome"
    /\ mail' = IF ~MailExists(p.id) \/ (p.draft /\ ~p.told) THEN mail
               ELSE IF p.draft THEN [mail EXCEPT ![p.id].folder = "sent", ![p.id].status = "sent"]
               ELSE [mail EXCEPT ![p.id].status = IF p.told THEN "sent" ELSE "failed"]
    /\ Answer(h)
    /\ UNCHANGED <<delivered, crossed, unsure, mailCalls, mailDeaths>>

-----------------------------------------------------------------------------
(* Folders, one message or several one after the other, and the end.        *)

\* Archiving leaves the mark of a deletion, restoring clears it.
Moves == {[folder |-> "archived", trash |-> {}], [folder |-> "deleted", trash |-> {TRUE}],
          [folder |-> "inbox", trash |-> {FALSE}]}

SetFolder(h) ==
    /\ \E ids \in SUBSET MailIds, to \in Moves :
         ids # {} /\ Ask(h, [pc |-> "bulk", ids |-> ids, to |-> to, id |-> 0])
    /\ UNCHANGED <<mail, delivered, crossed, unsure, mailDeaths>>
PurgeMessage(h) ==
    /\ \E ids \in SUBSET MailIds : ids # {} /\ Ask(h, [pc |-> "purge", ids |-> ids, id |-> 0])
    /\ UNCHANGED <<mail, delivered, crossed, unsure, mailDeaths>>

\* In the order of the list; the first that does not exist ends the request, and
\* those before it stay as they were made.
NextOf(h, pc, m) == post[h].pc = pc /\ m \in post[h].ids
Onward(h, m) ==
    LET rest == post[h].ids \ {m} IN
    post' = [post EXCEPT ![h] = IF ~MailExists(m) \/ rest = {} THEN AtRest ELSE [post[h] EXCEPT !.ids = rest]]

MoveOne(h) ==
    /\ \E m \in MailIds :
         /\ NextOf(h, "bulk", m)
         /\ LET to == post[h].to IN
            mail' = IF ~MailExists(m) THEN mail
                    ELSE [mail EXCEPT ![m].folder = to.folder,
                                      ![m].trash = IF to.trash = {} THEN @ ELSE to.trash = {TRUE}]
         /\ Onward(h, m)
    /\ UNCHANGED <<delivered, crossed, unsure, mailCalls, mailDeaths>>
PurgeOne(h) ==
    /\ \E m \in MailIds :
         /\ NextOf(h, "purge", m)
         /\ mail' = [mail EXCEPT ![m] = NoMail]
         /\ Onward(h, m)
    /\ UNCHANGED <<delivered, crossed, unsure, mailCalls, mailDeaths>>

\* Requests end with the process; a mail that is on its way may still arrive.
DieMailing ==
    /\ mailDeaths < MaxMailDeaths /\ mailDeaths' = mailDeaths + 1
    /\ unsure' = unsure \cup {m \in MailIds : On(m, {"sending", "outcome"}) # {}}
    /\ post' = [h \in MailHandlers |-> AtRest]
    /\ UNCHANGED <<mail, delivered, crossed, mailCalls>>

MailboxNext ==
    \/ \E h \in MailHandlers :
         \/ CreateDraft(h) \/ UpdateDraft(h) \/ CommitEdit(h) \/ SendDraft(h)
         \/ Send(h) \/ SaveAttachments(h) \/ Deliver(h) \/ CommitOutcome(h)
         \/ SetFolder(h) \/ PurgeMessage(h) \/ MoveOne(h) \/ PurgeOne(h)
    \/ DieMailing

MailboxSpec == MailboxInit /\ [][MailboxNext]_mailVars

-----------------------------------------------------------------------------
(* Properties. *)

\* A message marked as sent is what the mail server took, unless it was edited
\* while it was sent; one that is not marked was not taken, unless its sender is
\* still about to mark it, never learned of it, or was stopped.
MailIsAccounted ==
    \A m \in MailIds : MailExists(m) =>
      /\ mail[m].status = "sent" /\ m \notin crossed => mail[m].text \in delivered[m]
      /\ delivered[m] # {} /\ m \notin unsure =>
           mail[m].status = "sent" \/ \E h \in On(m, {"outcome"}) : post[h].told
=============================================================================
