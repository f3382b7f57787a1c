-------------------------- MODULE MCAdministration --------------------------
(* Small instances of what surrounds the jobs: the model registry, settings, *)
(* accounts, tags, messages and the rate limiter.  They share no state: a     *)
(* behaviour moves one of them, the part it starts with, and the others rest. *)
EXTENDS Catalog, Preferences, Accounts, Tags, Mailbox, RateLimit, TLC

VARIABLE part

MCInit ==
    /\ part \in {"catalog", "preferences", "accounts", "tags", "mailbox", "rate"}
    /\ CatalogInit /\ PrefInit /\ AccountsInit /\ TagsInit /\ MailboxInit /\ RateInit
    /\ part = "catalog" => onDisk \in {{}, Weights}
    /\ part # "catalog" => entry = [i \in ItemIds |-> Absent]
    /\ part # "preferences" => staff = {Root}
    /\ part # "accounts" => \A u \in AccountIds \ {RootAccount} : ~AccountExists(u)

MCNext ==
    \/ /\ part = "catalog" /\ CatalogNext
       /\ UNCHANGED <<prefVars, accountVars, tagVars, mailVars, rateVars, part>>
    \/ /\ part = "preferences" /\ PrefNext
       /\ UNCHANGED <<catalogVars, accountVars, tagVars, mailVars, rateVars, part>>
    \/ /\ part = "accounts" /\ AccountsNext
       /\ UNCHANGED <<catalogVars, prefVars, tagVars, mailVars, rateVars, part>>
    \/ /\ part = "tags" /\ TagsNext
       /\ UNCHANGED <<catalogVars, prefVars, accountVars, mailVars, rateVars, part>>
    \/ /\ part = "mailbox" /\ MailboxNext
       /\ UNCHANGED <<catalogVars, prefVars, accountVars, tagVars, rateVars, part>>
    \/ /\ part = "rate" /\ RateNext
       /\ UNCHANGED <<catalogVars, prefVars, accountVars, tagVars, mailVars, part>>

MCSpec == MCInit /\ [][MCNext]_<<catalogVars, prefVars, accountVars, tagVars, mailVars, rateVars, part>>

\* Requests are interchangeable, and so are texts.  The configurations give the
\* parts the same values for their requests, and texts as the names of tags.
Symmetry == Permutations(CatalogHandlers) \cup Permutations(Texts)
=============================================================================
