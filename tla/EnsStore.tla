------------------------------ MODULE EnsStore ------------------------------
(***************************************************************************)
(* The database of the emergency notification service                      *)
(* (postgresql/schemas/db_1.sql) and the SQL statements the managers run   *)
(* against it.  A table is a function from the primary keys present to     *)
(* their rows; a store is a record with one field per table.  Every        *)
(* operator below maps a store to the store one statement leaves, foreign  *)
(* key actions (ON DELETE CASCADE / SET NULL) included.  The guards        *)
(* (RowsAffected, unique and foreign key violations) are left to the       *)
(* actions that use them.                                                  *)
(*                                                                         *)
(* Names, e-mails and phone numbers of templates, recipients and groups    *)
(* are left out: no statement compares them.                               *)
(***************************************************************************)
EXTENDS Functions

CONSTANTS
    User,           \* user.user_id
    Name,           \* user.name, UNIQUE
    Password,       \* stands for the pair (password_hash, password_salt)
    Template,       \* notification_template.notification_template_id
    Recipient,      \* recipient.recipient_id
    Group,          \* recipient_group.recipient_group_id
    Draft,          \* the keys of the three draft tables
    Batch,          \* notifications_batch.batch_id
    Notification,   \* notification.notification_id
    Chat,           \* telegram ids
    Text,           \* notification_template.message_text
    NULL            \* the SQL NULL

\* NULL is not a key, a telegram id or a text.
ASSUME NullIsNoValue ==
    NULL \notin User \cup Template \cup Batch \cup Notification \cup Chat \cup Text

-----------------------------------------------------------------------------
(* Rows and tables.                                                        *)

UserRow == [name : Name, password : Password]
TemplateRow == [master : User, text : Text \cup {NULL}]
RecipientRow == [master : User, chat : Chat \cup {NULL}]
GroupRow == [master : User, active : BOOLEAN, template : Template \cup {NULL}]
BatchRow == [master : User, sent : BOOLEAN]
NotificationRow == [batch : Batch \cup {NULL}, recipient : Recipient,
                    group : Group, completed : BOOLEAN]
ContactRow == [active : BOOLEAN]

\* t has keys in Key and rows in Row.
IsTable(t, Key, Row) ==
    /\ t = [k \in DOMAIN t |-> t[k]]
    /\ DOMAIN t \subseteq Key
    /\ \A k \in DOMAIN t : t[k] \in Row

\* d is a record with exactly the tables of the schema.
IsStore(d) ==
    /\ d = [user |-> d.user, template |-> d.template, recipient |-> d.recipient,
            group |-> d.group, member |-> d.member, batch |-> d.batch,
            notification |-> d.notification, contact |-> d.contact,
            templateDraft |-> d.templateDraft,
            recipientDraft |-> d.recipientDraft, groupDraft |-> d.groupDraft]
    /\ IsTable(d.user, User, UserRow)
    /\ IsTable(d.template, Template, TemplateRow)
    /\ IsTable(d.recipient, Recipient, RecipientRow)
    /\ IsTable(d.group, Group, GroupRow)
    /\ d.member \subseteq Recipient \X Group
    /\ IsTable(d.batch, Batch, BatchRow)
    /\ IsTable(d.notification, Notification, NotificationRow)
    /\ IsTable(d.contact, Chat, ContactRow)
    /\ IsTable(d.templateDraft, Draft, TemplateRow)
    /\ IsTable(d.recipientDraft, Draft, RecipientRow)
    /\ IsTable(d.groupDraft, Draft, GroupRow)

\* Every key present in some table: the generator of ids (UUIDv7) never
\* returns one of them, nor one it has returned before.
Keys(d) ==
    DOMAIN d.user \cup DOMAIN d.template \cup DOMAIN d.recipient \cup DOMAIN d.group
      \cup DOMAIN d.batch \cup DOMAIN d.notification
      \cup DOMAIN d.templateDraft \cup DOMAIN d.recipientDraft \cup DOMAIN d.groupDraft

-----------------------------------------------------------------------------
(* Row selection.                                                          *)

\* The keys of the rows WHERE master_id = u.
Owned(t, u) == {k \in DOMAIN t : t[k].master = u}

\* The table without the rows whose keys are in S.
Without(t, S) == Restrict(t, DOMAIN t \ S)

\* The table with row r under key k, new or replaced.
With(t, k, r) == [x \in DOMAIN t \cup {k} |-> IF x = k THEN r ELSE t[x]]

\* ON DELETE SET NULL of template_id, when the templates in S go.
UnsetTemplates(t, S) ==
    [g \in DOMAIN t |-> [t[g] EXCEPT !.template = IF @ \in S THEN NULL ELSE @]]

\* ON DELETE CASCADE of recipient_recipient_group.
WithoutMembers(m, R, G) == {p \in m : p[1] \notin R /\ p[2] \notin G}

\* What the foreign keys of notification do when the batches in B, the
\* recipients in R and the groups in G go: SET NULL for a batch, CASCADE for
\* a recipient or a group.
WithoutReferences(t, B, R, G) ==
    LET kept == {n \in DOMAIN t : t[n].recipient \notin R /\ t[n].group \notin G}
    IN  [n \in kept |-> [t[n] EXCEPT !.batch = IF @ \in B THEN NULL ELSE @]]

-----------------------------------------------------------------------------
(* Statements on user.                                                     *)

NameTaken(d, name) == \E u \in DOMAIN d.user : d.user[u].name = name

InsertUser(d, u, name, password) ==
    [d EXCEPT !.user = With(d.user, u, [name |-> name, password |-> password])]

UpdateUser(d, u, name, password) ==
    [d EXCEPT !.user = With(d.user, u, [name |-> name, password |-> password])]

\* Every table references user with ON DELETE CASCADE; the rows that go take
\* with them (or unset) what references them.
DeleteUser(d, u) ==
    LET R == Owned(d.recipient, u)
        G == Owned(d.group, u)
        T == Owned(d.template, u)
        B == Owned(d.batch, u)
    IN  [d EXCEPT
            !.user = Without(d.user, {u}),
            !.template = Without(d.template, T),
            !.recipient = Without(d.recipient, R),
            !.group = UnsetTemplates(Without(d.group, G), T),
            !.member = WithoutMembers(d.member, R, G),
            !.batch = Without(d.batch, B),
            !.notification = WithoutReferences(d.notification, B, R, G),
            !.templateDraft = Without(d.templateDraft, Owned(d.templateDraft, u)),
            !.recipientDraft = Without(d.recipientDraft, Owned(d.recipientDraft, u)),
            !.groupDraft = UnsetTemplates(
                               Without(d.groupDraft, Owned(d.groupDraft, u)), T)]

-----------------------------------------------------------------------------
(* Statements on notification_template, recipient and recipient_group.     *)

InsertTemplate(d, t, u, text) ==
    [d EXCEPT !.template = With(d.template, t, [master |-> u, text |-> text])]

UpdateTemplate(d, t, text) ==
    [d EXCEPT !.template = With(d.template, t, [d.template[t] EXCEPT !.text = text])]

DeleteTemplate(d, t) ==
    [d EXCEPT !.template = Without(d.template, {t}),
              !.group = UnsetTemplates(d.group, {t}),
              !.groupDraft = UnsetTemplates(d.groupDraft, {t})]

InsertRecipient(d, r, u, chat) ==
    [d EXCEPT !.recipient = With(d.recipient, r, [master |-> u, chat |-> chat])]

UpdateRecipient(d, r, chat) ==
    [d EXCEPT !.recipient = With(d.recipient, r, [d.recipient[r] EXCEPT !.chat = chat])]

DeleteRecipient(d, r) ==
    [d EXCEPT !.recipient = Without(d.recipient, {r}),
              !.member = WithoutMembers(d.member, {r}, {}),
              !.notification = WithoutReferences(d.notification, {}, {r}, {})]

InsertGroup(d, g, u, active, template) ==
    [d EXCEPT !.group = With(d.group, g, [master |-> u, active |-> active,
                                          template |-> template])]

UpdateGroup(d, g, active, template) ==
    [d EXCEPT !.group = With(d.group, g, [d.group[g] EXCEPT !.active = active,
                                                            !.template = template])]

DeleteGroup(d, g) ==
    [d EXCEPT !.group = Without(d.group, {g}),
              !.member = WithoutMembers(d.member, {}, {g}),
              !.notification = WithoutReferences(d.notification, {}, {}, {g})]

InsertTemplateDraft(d, k, u, text) ==
    [d EXCEPT !.templateDraft = With(d.templateDraft, k, [master |-> u, text |-> text])]

InsertRecipientDraft(d, k, u, chat) ==
    [d EXCEPT !.recipientDraft = With(d.recipientDraft, k, [master |-> u, chat |-> chat])]

InsertGroupDraft(d, k, u, active, template) ==
    [d EXCEPT !.groupDraft = With(d.groupDraft, k, [master |-> u, active |-> active,
                                                    template |-> template])]

\* DELETE ... WHERE master_id = u AND <draft id> = k.
DeleteTemplateDraft(d, u, k) ==
    [d EXCEPT !.templateDraft = Without(d.templateDraft, {k} \cap Owned(d.templateDraft, u))]

DeleteRecipientDraft(d, u, k) ==
    [d EXCEPT !.recipientDraft = Without(d.recipientDraft, {k} \cap Owned(d.recipientDraft, u))]

InsertMember(d, r, g) == [d EXCEPT !.member = @ \cup {<<r, g>>}]

DeleteMember(d, r, g) == [d EXCEPT !.member = @ \ {<<r, g>>}]

-----------------------------------------------------------------------------
(* Statements on notifications_batch, notification and telegram_contact.   *)

InsertBatch(d, b, u) ==
    [d EXCEPT !.batch = With(d.batch, b, [master |-> u, sent |-> FALSE])]

\* UPDATE ... SET sent = true WHERE master_id = u AND batch_id = b; it changes
\* nothing when there is no such row.
SetBatchSent(d, u, b) ==
    IF b \in Owned(d.batch, u)
    THEN [d EXCEPT !.batch = With(d.batch, b, [d.batch[b] EXCEPT !.sent = TRUE])]
    ELSE d

\* A fault: the schema declares no foreign key for the group.
NotificationKeysButGroup(d, b, r, g) ==
    /\ b \in DOMAIN d.batch
    /\ r \in DOMAIN d.recipient

\* The INSERT raises a foreign key violation unless all three rows exist.
NotificationKeysExist(d, b, r, g) ==
    /\ b \in DOMAIN d.batch
    /\ r \in DOMAIN d.recipient
    /\ g \in DOMAIN d.group

InsertNotification(d, n, b, r, g) ==
    [d EXCEPT !.notification =
        With(d.notification, n, [batch |-> b, recipient |-> r, group |-> g,
                                 completed |-> FALSE])]

DeleteNotification(d, n) ==
    [d EXCEPT !.notification = Without(d.notification, {n})]

\* notification INNER JOIN notifications_batch WHERE master_id = u.
NotificationsOf(d, u) ==
    {n \in DOMAIN d.notification : d.notification[n].batch \in Owned(d.batch, u)}

Subscribed(d, chat) == chat \in DOMAIN d.contact /\ d.contact[chat].active

SetContact(d, chat, active) ==
    [d EXCEPT !.contact = With(d.contact, chat, [active |-> active])]

-----------------------------------------------------------------------------
(* What the database keeps between any two statements.                     *)

\* The foreign keys that the schema declares.
References(d) ==
    /\ \A t \in DOMAIN d.template : d.template[t].master \in DOMAIN d.user
    /\ \A r \in DOMAIN d.recipient : d.recipient[r].master \in DOMAIN d.user
    /\ \A b \in DOMAIN d.batch : d.batch[b].master \in DOMAIN d.user
    /\ \A g \in DOMAIN d.group :
        /\ d.group[g].master \in DOMAIN d.user
        /\ d.group[g].template \in DOMAIN d.template \cup {NULL}
    /\ \A p \in d.member : p[1] \in DOMAIN d.recipient /\ p[2] \in DOMAIN d.group
    /\ \A n \in DOMAIN d.notification :
        /\ d.notification[n].batch \in DOMAIN d.batch \cup {NULL}
        /\ d.notification[n].recipient \in DOMAIN d.recipient
        /\ d.notification[n].group \in DOMAIN d.group

\* The foreign keys of the draft tables.
DraftReferences(d) ==
    /\ \A k \in DOMAIN d.templateDraft : d.templateDraft[k].master \in DOMAIN d.user
    /\ \A k \in DOMAIN d.recipientDraft : d.recipientDraft[k].master \in DOMAIN d.user
    /\ \A k \in DOMAIN d.groupDraft :
        /\ d.groupDraft[k].master \in DOMAIN d.user
        /\ d.groupDraft[k].template \in DOMAIN d.template \cup {NULL}

\* A group only has members of its own user.  The schema does not say so.
MembersShareMaster(d) ==
    \A p \in d.member : d.recipient[p[1]].master = d.group[p[2]].master

\* A notification joins a batch, a recipient and a group of one user, and
\* its batch is never unset: the SET NULL of batch_id is never seen, because
\* whatever deletes the batch deletes the notification.
NotificationsShareMaster(d) ==
    \A n \in DOMAIN d.notification :
        LET row == d.notification[n]
        IN  /\ row.batch \in DOMAIN d.batch
            /\ d.recipient[row.recipient].master = d.batch[row.batch].master
            /\ d.group[row.group].master = d.batch[row.batch].master

\* No notification exists for a batch that is not marked sent.
NotifiedBatchesAreSent(d) ==
    \A n \in DOMAIN d.notification :
        d.notification[n].batch \in DOMAIN d.batch
            => d.batch[d.notification[n].batch].sent

\* All of the above.
StoreInvariant(d) ==
    /\ IsStore(d)
    /\ References(d)
    /\ MembersShareMaster(d)
    /\ NotificationsShareMaster(d)
    /\ NotifiedBatchesAreSent(d)

UniqueNames(d) ==
    \A u, v \in DOMAIN d.user : d.user[u].name = d.user[v].name => u = v
=============================================================================
