--------------------------- MODULE EnsStoreProofs ---------------------------
(***************************************************************************)
(* What each SQL statement of EnsStore preserves, for every store.         *)
(***************************************************************************)
EXTENDS EnsStore, TLAPS

\* The tables with keys in Key and rows in Row, and the stores, as sets: the
\* form in which the provers know what EXCEPT does to a record.
Table(Key, Row) == UNION {[K -> Row] : K \in SUBSET Key}

Store ==
    [user : Table(User, UserRow),
     template : Table(Template, TemplateRow),
     recipient : Table(Recipient, RecipientRow),
     group : Table(Group, GroupRow),
     member : SUBSET (Recipient \X Group),
     batch : Table(Batch, BatchRow),
     notification : Table(Notification, NotificationRow),
     contact : Table(Chat, ContactRow),
     templateDraft : Table(Draft, TemplateRow),
     recipientDraft : Table(Draft, RecipientRow),
     groupDraft : Table(Draft, GroupRow)]

LEMMA IsTableDef ==
    ASSUME NEW Key, NEW Row, NEW t
    PROVE  IsTable(t, Key, Row) <=> t \in Table(Key, Row)
<1>1. IsTable(t, Key, Row) => t \in Table(Key, Row)
  BY DEF IsTable, Table
<1>2. t \in Table(Key, Row) => IsTable(t, Key, Row)
  BY DEF IsTable, Table
<1>. QED  BY <1>1, <1>2

LEMMA IsStoreDef ==
    ASSUME NEW d
    PROVE  IsStore(d) <=> d \in Store
<1>1. IsStore(d) => d \in Store
  BY IsTableDef DEF IsStore, Store
<1>2. d \in Store => IsStore(d)
  BY IsTableDef DEF IsStore, Store
<1>. QED  BY <1>1, <1>2

LEMMA TableDef ==
    ASSUME NEW Key, NEW Row, NEW t
    PROVE  t \in Table(Key, Row) <=> DOMAIN t \subseteq Key /\ t \in [DOMAIN t -> Row]
  BY DEF Table

LEMMA WithTable ==
    ASSUME NEW Key, NEW Row, NEW t \in Table(Key, Row), NEW k \in Key, NEW r \in Row
    PROVE  With(t, k, r) \in Table(Key, Row)
  BY TableDef DEF With

LEMMA WithoutTable ==
    ASSUME NEW Key, NEW Row, NEW t \in Table(Key, Row), NEW S
    PROVE  Without(t, S) \in Table(Key, Row)
  BY TableDef DEF Without, Restrict

LEMMA UnsetTemplatesTable ==
    ASSUME NEW Key, NEW t \in Table(Key, GroupRow), NEW S
    PROVE  UnsetTemplates(t, S) \in Table(Key, GroupRow)
<1> DEFINE w == UnsetTemplates(t, S)
<1>1. DOMAIN t \subseteq Key /\ \A g \in DOMAIN t : t[g] \in GroupRow
  BY TableDef
<1>2. w = [g \in DOMAIN t |-> w[g]] /\ \A g \in DOMAIN t : w[g] \in GroupRow
  <2>1. w = [g \in DOMAIN t |-> w[g]]
    BY DEF UnsetTemplates
  <2>2. \A g \in DOMAIN t : w[g] = [t[g] EXCEPT !.template = IF @ \in S THEN NULL ELSE @]
    BY DEF UnsetTemplates
  <2> HIDE DEF w
  <2>. QED  BY <1>1, <2>1, <2>2 DEF GroupRow
<1> HIDE DEF w
<1>. QED  BY <1>1, <1>2, TableDef DEF w

LEMMA WithoutReferencesTable ==
    ASSUME NEW t \in Table(Notification, NotificationRow), NEW B, NEW R, NEW G
    PROVE  WithoutReferences(t, B, R, G) \in Table(Notification, NotificationRow)
<1> DEFINE w == WithoutReferences(t, B, R, G)
<1>1. DOMAIN t \subseteq Notification /\ \A n \in DOMAIN t : t[n] \in NotificationRow
  BY TableDef
<1>2. /\ w = [n \in DOMAIN w |-> w[n]]
      /\ DOMAIN w \subseteq DOMAIN t
      /\ \A n \in DOMAIN w : w[n] \in NotificationRow
  <2>1. DOMAIN w = {n \in DOMAIN t : t[n].recipient \notin R /\ t[n].group \notin G}
    BY DEF WithoutReferences
  <2>2. \A n \in DOMAIN w : w[n] = [t[n] EXCEPT !.batch = IF @ \in B THEN NULL ELSE @]
    BY DEF WithoutReferences
  <2>3. w = [n \in DOMAIN w |-> w[n]]
    BY DEF WithoutReferences
  <2>4. DOMAIN w \subseteq DOMAIN t
    BY <2>1
  <2> HIDE DEF w
  <2>5. \A n \in DOMAIN w : w[n] \in NotificationRow
    BY <1>1, <2>2, <2>4 DEF NotificationRow
  <2>. QED  BY <2>3, <2>4, <2>5
<1> HIDE DEF w
<1>. QED  BY <1>1, <1>2, TableDef DEF w

\* The tables of a store.
LEMMA StoreTables ==
    ASSUME NEW d \in Store
    PROVE  /\ d.user \in Table(User, UserRow)
           /\ d.template \in Table(Template, TemplateRow)
           /\ d.recipient \in Table(Recipient, RecipientRow)
           /\ d.group \in Table(Group, GroupRow)
           /\ d.member \subseteq Recipient \X Group
           /\ d.batch \in Table(Batch, BatchRow)
           /\ d.notification \in Table(Notification, NotificationRow)
           /\ d.contact \in Table(Chat, ContactRow)
           /\ d.templateDraft \in Table(Draft, TemplateRow)
           /\ d.recipientDraft \in Table(Draft, RecipientRow)
           /\ d.groupDraft \in Table(Draft, GroupRow)
  BY DEF Store

LEMMA StoreRows ==
    ASSUME NEW d \in Store
    PROVE  /\ \A t \in DOMAIN d.template : d.template[t] \in TemplateRow
           /\ \A r \in DOMAIN d.recipient : d.recipient[r] \in RecipientRow
           /\ \A g \in DOMAIN d.group : d.group[g] \in GroupRow
           /\ \A b \in DOMAIN d.batch : d.batch[b] \in BatchRow
           /\ \A n \in DOMAIN d.notification : d.notification[n] \in NotificationRow
           /\ \A g \in DOMAIN d.groupDraft : d.groupDraft[g] \in GroupRow
           /\ DOMAIN d.user \subseteq User
           /\ DOMAIN d.template \subseteq Template
           /\ DOMAIN d.recipient \subseteq Recipient
           /\ DOMAIN d.group \subseteq Group
           /\ DOMAIN d.batch \subseteq Batch
  BY StoreTables, TableDef

LEMMA DeleteUserFields ==
    ASSUME NEW d \in Store, NEW u
    PROVE  LET R == Owned(d.recipient, u)
               G == Owned(d.group, u)
               T == Owned(d.template, u)
               B == Owned(d.batch, u)
               e == DeleteUser(d, u)
           IN  /\ e \in Store
               /\ e.user = Without(d.user, {u})
               /\ e.template = Without(d.template, T)
               /\ e.recipient = Without(d.recipient, R)
               /\ e.group = UnsetTemplates(Without(d.group, G), T)
               /\ e.member = WithoutMembers(d.member, R, G)
               /\ e.batch = Without(d.batch, B)
               /\ e.notification = WithoutReferences(d.notification, B, R, G)
               /\ e.contact = d.contact
               /\ e.templateDraft = Without(d.templateDraft, Owned(d.templateDraft, u))
               /\ e.recipientDraft = Without(d.recipientDraft, Owned(d.recipientDraft, u))
               /\ e.groupDraft = UnsetTemplates(
                                   Without(d.groupDraft, Owned(d.groupDraft, u)), T)
<1> DEFINE R == Owned(d.recipient, u)
           G == Owned(d.group, u)
           T == Owned(d.template, u)
           B == Owned(d.batch, u)
<1>1. /\ Without(d.user, {u}) \in Table(User, UserRow)
      /\ Without(d.template, T) \in Table(Template, TemplateRow)
      /\ Without(d.recipient, R) \in Table(Recipient, RecipientRow)
      /\ Without(d.batch, B) \in Table(Batch, BatchRow)
      /\ Without(d.templateDraft, Owned(d.templateDraft, u)) \in Table(Draft, TemplateRow)
      /\ Without(d.recipientDraft, Owned(d.recipientDraft, u)) \in Table(Draft, RecipientRow)
  BY WithoutTable DEF Store
<1>2. /\ UnsetTemplates(Without(d.group, G), T) \in Table(Group, GroupRow)
      /\ UnsetTemplates(Without(d.groupDraft, Owned(d.groupDraft, u)), T)
            \in Table(Draft, GroupRow)
  BY WithoutTable, UnsetTemplatesTable DEF Store
<1>3. WithoutMembers(d.member, R, G) \in SUBSET (Recipient \X Group)
  BY DEF Store, WithoutMembers
<1>4. WithoutReferences(d.notification, B, R, G) \in Table(Notification, NotificationRow)
  BY WithoutReferencesTable DEF Store
<1>. QED  BY <1>1, <1>2, <1>3, <1>4 DEF Store, DeleteUser

-----------------------------------------------------------------------------
(* What a statement may do to the rows whose ids other handlers still hold. *)

\* Rows with an id from old are at most deleted: none comes back, changes
\* hands, or (a batch) is no longer marked.
Evolves(d, e, old) ==
    /\ \A r \in old \cap DOMAIN e.recipient :
        r \in DOMAIN d.recipient /\ e.recipient[r].master = d.recipient[r].master
    /\ \A g \in old \cap DOMAIN e.group :
        g \in DOMAIN d.group /\ e.group[g].master = d.group[g].master
    /\ \A b \in old \cap DOMAIN e.batch :
        /\ b \in DOMAIN d.batch
        /\ e.batch[b].master = d.batch[b].master
        /\ d.batch[b].sent => e.batch[b].sent

LEMMA DeleteUserPreserves ==
    ASSUME NEW d, StoreInvariant(d), NEW u, NEW old, Keys(d) \subseteq old
    PROVE  LET e == DeleteUser(d, u)
           IN  StoreInvariant(e) /\ Evolves(d, e, old) /\ Keys(e) \subseteq old
<1> DEFINE R == Owned(d.recipient, u)
           G == Owned(d.group, u)
           T == Owned(d.template, u)
           B == Owned(d.batch, u)
           e == DeleteUser(d, u)
<1>0. d \in Store
  BY IsStoreDef DEF StoreInvariant
<1>1. e \in Store
  BY <1>0, DeleteUserFields
<1>b. /\ e.user = Without(d.user, {u})
      /\ e.template = Without(d.template, T)
      /\ e.recipient = Without(d.recipient, R)
      /\ e.group = UnsetTemplates(Without(d.group, G), T)
      /\ e.batch = Without(d.batch, B)
      /\ e.notification = WithoutReferences(d.notification, B, R, G)
      /\ e.templateDraft = Without(d.templateDraft, Owned(d.templateDraft, u))
      /\ e.recipientDraft = Without(d.recipientDraft, Owned(d.recipientDraft, u))
      /\ e.groupDraft = UnsetTemplates(
                           Without(d.groupDraft, Owned(d.groupDraft, u)), T)
  BY <1>0, DeleteUserFields
<1> HIDE DEF e, R, G, T, B
<1>2. /\ DOMAIN e.user = DOMAIN d.user \ {u}
      /\ DOMAIN e.template = DOMAIN d.template \ T
      /\ \A t \in DOMAIN e.template : e.template[t] = d.template[t]
      /\ DOMAIN e.recipient = DOMAIN d.recipient \ R
      /\ \A r \in DOMAIN e.recipient : e.recipient[r] = d.recipient[r]
      /\ DOMAIN e.batch = DOMAIN d.batch \ B
      /\ \A b \in DOMAIN e.batch : e.batch[b] = d.batch[b]
      /\ DOMAIN e.templateDraft \subseteq DOMAIN d.templateDraft
      /\ DOMAIN e.recipientDraft \subseteq DOMAIN d.recipientDraft
  BY <1>b DEF Without, Restrict
<1>3. /\ DOMAIN e.group = DOMAIN d.group \ G
      /\ \A g \in DOMAIN e.group :
            /\ e.group[g].master = d.group[g].master
            /\ e.group[g].template = IF d.group[g].template \in T THEN NULL
                                     ELSE d.group[g].template
      /\ DOMAIN e.groupDraft \subseteq DOMAIN d.groupDraft
  <2>1. /\ DOMAIN e.group = DOMAIN d.group \ G
        /\ DOMAIN e.groupDraft \subseteq DOMAIN d.groupDraft
    BY <1>b DEF UnsetTemplates, Without, Restrict
  <2>2. \A g \in DOMAIN e.group :
            e.group[g] = [d.group[g] EXCEPT !.template = IF @ \in T THEN NULL ELSE @]
    BY <1>b DEF UnsetTemplates, Without, Restrict
  <2>3. \A g \in DOMAIN d.group : d.group[g] \in GroupRow
    BY <1>0, StoreRows
  <2>. QED  BY <2>1, <2>2, <2>3 DEF GroupRow
<1>4. /\ DOMAIN e.notification
           = {n \in DOMAIN d.notification : d.notification[n].recipient \notin R
                                          /\ d.notification[n].group \notin G}
      /\ \A n \in DOMAIN e.notification :
            /\ e.notification[n].recipient = d.notification[n].recipient
            /\ e.notification[n].group = d.notification[n].group
            /\ e.notification[n].batch = IF d.notification[n].batch \in B THEN NULL
                                         ELSE d.notification[n].batch
  <2>1. DOMAIN e.notification
           = {n \in DOMAIN d.notification : d.notification[n].recipient \notin R
                                          /\ d.notification[n].group \notin G}
    BY <1>b DEF WithoutReferences
  <2>2. \A n \in DOMAIN e.notification :
            e.notification[n] = [d.notification[n] EXCEPT
                                    !.batch = IF @ \in B THEN NULL ELSE @]
    BY <1>b DEF WithoutReferences
  <2>3. \A n \in DOMAIN d.notification : d.notification[n] \in NotificationRow
    BY <1>0, StoreRows
  <2>. QED  BY <2>1, <2>2, <2>3 DEF NotificationRow
<1>5. e.member = {p \in d.member : p[1] \notin R /\ p[2] \notin G}
  BY <1>0, DeleteUserFields DEF WithoutMembers, e, R, G
\* The notifications that stay are those whose recipient is another user's;
\* then so is their batch, which stays too.
<1>6. \A n \in DOMAIN e.notification :
        /\ e.notification[n].batch = d.notification[n].batch
        /\ e.notification[n].batch \in DOMAIN e.batch
  BY <1>2, <1>4 DEF StoreInvariant, References, NotificationsShareMaster, Owned, R, B
<1>7. References(e)
  BY <1>2, <1>3, <1>4, <1>5, <1>6 DEF StoreInvariant, References, Owned, R, G, T, B
<1>8. MembersShareMaster(e)
  BY <1>2, <1>3, <1>5 DEF StoreInvariant, References, MembersShareMaster
<1>9. NotificationsShareMaster(e)
  <2> SUFFICES ASSUME NEW n \in DOMAIN e.notification
               PROVE  LET row == e.notification[n]
                      IN  /\ row.batch \in DOMAIN e.batch
                          /\ e.recipient[row.recipient].master = e.batch[row.batch].master
                          /\ e.group[row.group].master = e.batch[row.batch].master
    BY DEF NotificationsShareMaster
  <2> DEFINE old_row == d.notification[n]
  <2>1. /\ n \in DOMAIN d.notification
        /\ old_row.batch \in DOMAIN d.batch
        /\ d.recipient[old_row.recipient].master = d.batch[old_row.batch].master
        /\ d.group[old_row.group].master = d.batch[old_row.batch].master
    BY <1>4 DEF StoreInvariant, NotificationsShareMaster
  <2>2. /\ e.notification[n].recipient \in DOMAIN e.recipient
        /\ e.notification[n].group \in DOMAIN e.group
    BY <1>7 DEF References
  <2>3. /\ e.notification[n].batch = old_row.batch
        /\ e.notification[n].batch \in DOMAIN e.batch
    BY <1>6
  <2>4. /\ e.notification[n].recipient = old_row.recipient
        /\ e.notification[n].group = old_row.group
    BY <1>4
  <2>. HIDE DEF old_row
  <2>5. e.batch[old_row.batch] = d.batch[old_row.batch]
    BY <1>2, <2>3
  <2>6. e.recipient[old_row.recipient] = d.recipient[old_row.recipient]
    BY <1>2, <2>2, <2>4
  <2>7. e.group[old_row.group].master = d.group[old_row.group].master
    BY <1>3, <2>2, <2>4
  <2>. QED  BY <2>1, <2>3, <2>4, <2>5, <2>6, <2>7
<1>10. NotifiedBatchesAreSent(e)
  BY <1>2, <1>4, <1>6 DEF StoreInvariant, NotifiedBatchesAreSent
<1>11. Evolves(d, e, old)
  BY <1>2, <1>3 DEF Evolves
<1>12. Keys(e) \subseteq old
  BY <1>2, <1>3, <1>4 DEF Keys
<1>. QED
  BY <1>1, <1>7, <1>8, <1>9, <1>10, <1>11, <1>12, IsStoreDef DEF StoreInvariant, e

-----------------------------------------------------------------------------
(* The other statements.                                                   *)

\* When nobody joins a group and no notification is added or moved, the
\* invariant needs only the foreign keys of the new store.
LEMMA EvolvingStore ==
    ASSUME NEW d, StoreInvariant(d), NEW old, Keys(d) \subseteq old,
           NEW e, e \in Store, References(e), Evolves(d, e, old),
           e.member \subseteq d.member,
           \A n \in DOMAIN e.notification :
                /\ n \in DOMAIN d.notification
                /\ e.notification[n].recipient = d.notification[n].recipient
                /\ e.notification[n].group = d.notification[n].group
                /\ e.notification[n].batch = d.notification[n].batch
                /\ e.notification[n].batch \in DOMAIN e.batch
    PROVE  StoreInvariant(e)
<1>1. /\ DOMAIN d.recipient \subseteq old
      /\ DOMAIN d.group \subseteq old
      /\ DOMAIN d.batch \subseteq old
  BY DEF Keys
<1>2. /\ \A r \in DOMAIN d.recipient \cap DOMAIN e.recipient :
            e.recipient[r].master = d.recipient[r].master
      /\ \A g \in DOMAIN d.group \cap DOMAIN e.group :
            e.group[g].master = d.group[g].master
      /\ \A b \in DOMAIN d.batch \cap DOMAIN e.batch :
            /\ e.batch[b].master = d.batch[b].master
            /\ d.batch[b].sent => e.batch[b].sent
  BY <1>1 DEF Evolves
<1>3. MembersShareMaster(e)
  <2> SUFFICES ASSUME NEW p \in e.member
               PROVE  e.recipient[p[1]].master = e.group[p[2]].master
    BY DEF MembersShareMaster
  <2>1. /\ p[1] \in DOMAIN d.recipient \cap DOMAIN e.recipient
        /\ p[2] \in DOMAIN d.group \cap DOMAIN e.group
        /\ d.recipient[p[1]].master = d.group[p[2]].master
    BY DEF StoreInvariant, References, MembersShareMaster
  <2>. QED  BY <1>2, <2>1
<1>4. ASSUME NEW n \in DOMAIN e.notification
      PROVE  LET row == e.notification[n]
             IN  /\ row.batch \in DOMAIN e.batch
                 /\ e.recipient[row.recipient].master = e.batch[row.batch].master
                 /\ e.group[row.group].master = e.batch[row.batch].master
                 /\ e.batch[row.batch].sent
  <2> DEFINE row == d.notification[n]
  <2>1. /\ row.batch \in DOMAIN d.batch
        /\ d.recipient[row.recipient].master = d.batch[row.batch].master
        /\ d.group[row.group].master = d.batch[row.batch].master
        /\ d.batch[row.batch].sent
    BY DEF StoreInvariant, NotificationsShareMaster, NotifiedBatchesAreSent
  <2>2. /\ row.recipient \in DOMAIN d.recipient \cap DOMAIN e.recipient
        /\ row.group \in DOMAIN d.group \cap DOMAIN e.group
        /\ row.batch \in DOMAIN d.batch \cap DOMAIN e.batch
    BY <2>1 DEF StoreInvariant, References
  <2>3. /\ e.notification[n].recipient = row.recipient
        /\ e.notification[n].group = row.group
        /\ e.notification[n].batch = row.batch
    OBVIOUS
  <2> HIDE DEF row
  <2>. QED  BY <1>2, <2>1, <2>2, <2>3
<1>5. NotificationsShareMaster(e) /\ NotifiedBatchesAreSent(e)
  BY <1>4 DEF NotificationsShareMaster, NotifiedBatchesAreSent
<1>. QED
  BY <1>3, <1>5, IsStoreDef DEF StoreInvariant

LEMMA InsertUserPreserves ==
    ASSUME NEW d, StoreInvariant(d), NEW old, Keys(d) \subseteq old,
           NEW u \in User, NEW name \in Name, NEW password \in Password
    PROVE  LET e == InsertUser(d, u, name, password)
           IN  StoreInvariant(e) /\ Evolves(d, e, old) /\ Keys(e) \subseteq old \cup {u}
<1> DEFINE row == [name |-> name, password |-> password]
           e == InsertUser(d, u, name, password)
<1>0. d \in Store
  BY IsStoreDef DEF StoreInvariant
<1>1. With(d.user, u, row) \in Table(User, UserRow)
  BY <1>0, StoreTables, WithTable DEF UserRow
<1>2. e \in Store /\ e = [d EXCEPT !.user = With(d.user, u, row)]
  BY <1>0, <1>1 DEF InsertUser, Store
<1>3. /\ e.user = With(d.user, u, row)
      /\ e.template = d.template /\ e.recipient = d.recipient /\ e.group = d.group
      /\ e.member = d.member /\ e.batch = d.batch /\ e.notification = d.notification
      /\ e.templateDraft = d.templateDraft /\ e.recipientDraft = d.recipientDraft
      /\ e.groupDraft = d.groupDraft
  BY <1>0, <1>2 DEF Store
<1>9. DOMAIN e.user = DOMAIN d.user \cup {u}
  BY <1>3 DEF With
<1> HIDE DEF e
<1>4. References(e)
  BY <1>3, <1>9 DEF StoreInvariant, References
<1>5. Evolves(d, e, old)
  BY <1>3 DEF Evolves
<1>6. Keys(e) \subseteq old \cup {u}
  BY <1>3, <1>9 DEF Keys
<1>7. \A n \in DOMAIN d.notification : d.notification[n].batch \in DOMAIN d.batch
  BY DEF StoreInvariant, NotificationsShareMaster
<1>8. StoreInvariant(e)
  BY <1>2, <1>3, <1>4, <1>5, <1>7, EvolvingStore
<1>. QED  BY <1>5, <1>6, <1>8 DEF e

LEMMA InsertTemplatePreserves ==
    ASSUME NEW d, StoreInvariant(d), NEW old, Keys(d) \subseteq old,
           NEW t \in Template, NEW u \in DOMAIN d.user, NEW text \in Text \cup {NULL}
    PROVE  LET e == InsertTemplate(d, t, u, text)
           IN  StoreInvariant(e) /\ Evolves(d, e, old) /\ Keys(e) \subseteq old \cup {t}
<1> DEFINE row == [master |-> u, text |-> text]
           e == InsertTemplate(d, t, u, text)
<1>0. d \in Store /\ d.template \in Table(Template, TemplateRow)
  BY IsStoreDef, StoreTables DEF StoreInvariant
<1>1. row \in TemplateRow /\ row.master \in DOMAIN d.user
  BY <1>0, StoreRows DEF TemplateRow, StoreInvariant, References
<1>2. With(d.template, t, row) \in Table(Template, TemplateRow)
  BY <1>0, <1>1, WithTable, TableDef
<1>3. e \in Store /\ e = [d EXCEPT !.template = With(d.template, t, row)]
  BY <1>0, <1>2 DEF InsertTemplate, Store
<1>4. /\ e.template = With(d.template, t, row)
      /\ e.user = d.user /\ e.recipient = d.recipient
      /\ e.group = d.group /\ e.member = d.member /\ e.batch = d.batch
      /\ e.notification = d.notification /\ e.contact = d.contact
      /\ e.templateDraft = d.templateDraft
      /\ e.recipientDraft = d.recipientDraft
      /\ e.groupDraft = d.groupDraft
  BY <1>0, <1>3 DEF Store
<1>5. /\ DOMAIN e.template = DOMAIN d.template \cup {t}
      /\ e.template[t] = row
      /\ \A x \in DOMAIN d.template : x # t => e.template[x] = d.template[x]
  BY <1>4 DEF With
<1> HIDE DEF e, row
<1>6. References(e)
  BY <1>1, <1>4, <1>5 DEF StoreInvariant, References
<1>7. Evolves(d, e, old)
  BY <1>1, <1>4, <1>5 DEF Evolves
<1>8. Keys(e) \subseteq old \cup {t}
  BY <1>4, <1>5 DEF Keys
<1>9. \A n \in DOMAIN d.notification : d.notification[n].batch \in DOMAIN d.batch
  BY DEF StoreInvariant, NotificationsShareMaster
<1>10. StoreInvariant(e)
  BY <1>3, <1>4, <1>5, <1>6, <1>7, <1>9, EvolvingStore
<1>. QED  BY <1>7, <1>8, <1>10 DEF e

LEMMA UpdateTemplatePreserves ==
    ASSUME NEW d, StoreInvariant(d), NEW old, Keys(d) \subseteq old,
           NEW t \in DOMAIN d.template, NEW text \in Text \cup {NULL}
    PROVE  LET e == UpdateTemplate(d, t, text)
           IN  StoreInvariant(e) /\ Evolves(d, e, old) /\ Keys(e) \subseteq old
<1> DEFINE row == [d.template[t] EXCEPT !.text = text]
           e == UpdateTemplate(d, t, text)
<1>0. d \in Store /\ d.template \in Table(Template, TemplateRow)
  BY IsStoreDef, StoreTables DEF StoreInvariant
<1>1. row \in TemplateRow /\ row.master \in DOMAIN d.user
  BY <1>0, StoreRows DEF TemplateRow, StoreInvariant, References
<1>2. With(d.template, t, row) \in Table(Template, TemplateRow)
  BY <1>0, <1>1, WithTable, TableDef
<1>3. e \in Store /\ e = [d EXCEPT !.template = With(d.template, t, row)]
  BY <1>0, <1>2 DEF UpdateTemplate, Store
<1>4. /\ e.template = With(d.template, t, row)
      /\ e.user = d.user /\ e.recipient = d.recipient
      /\ e.group = d.group /\ e.member = d.member /\ e.batch = d.batch
      /\ e.notification = d.notification /\ e.contact = d.contact
      /\ e.templateDraft = d.templateDraft
      /\ e.recipientDraft = d.recipientDraft
      /\ e.groupDraft = d.groupDraft
  BY <1>0, <1>3 DEF Store
<1>5. /\ DOMAIN e.template = DOMAIN d.template \cup {t}
      /\ e.template[t] = row
      /\ \A x \in DOMAIN d.template : x # t => e.template[x] = d.template[x]
  BY <1>4 DEF With
<1> HIDE DEF e, row
<1>6. References(e)
  BY <1>1, <1>4, <1>5 DEF StoreInvariant, References
<1>7. Evolves(d, e, old)
  BY <1>1, <1>4, <1>5 DEF Evolves
<1>8. Keys(e) \subseteq old
  BY <1>4, <1>5 DEF Keys
<1>9. \A n \in DOMAIN d.notification : d.notification[n].batch \in DOMAIN d.batch
  BY DEF StoreInvariant, NotificationsShareMaster
<1>10. StoreInvariant(e)
  BY <1>3, <1>4, <1>5, <1>6, <1>7, <1>9, EvolvingStore
<1>. QED  BY <1>7, <1>8, <1>10 DEF e

LEMMA InsertRecipientPreserves ==
    ASSUME NEW d, StoreInvariant(d), NEW old, Keys(d) \subseteq old,
           NEW r \in Recipient \ old, NEW u \in DOMAIN d.user, NEW chat \in Chat \cup {NULL}
    PROVE  LET e == InsertRecipient(d, r, u, chat)
           IN  StoreInvariant(e) /\ Evolves(d, e, old) /\ Keys(e) \subseteq old \cup {r}
<1> DEFINE row == [master |-> u, chat |-> chat]
           e == InsertRecipient(d, r, u, chat)
<1>0. d \in Store /\ d.recipient \in Table(Recipient, RecipientRow)
  BY IsStoreDef, StoreTables DEF StoreInvariant
<1>1. row \in RecipientRow /\ row.master \in DOMAIN d.user
  BY <1>0, StoreRows DEF RecipientRow, StoreInvariant, References
<1>2. With(d.recipient, r, row) \in Table(Recipient, RecipientRow)
  BY <1>0, <1>1, WithTable, TableDef
<1>3. e \in Store /\ e = [d EXCEPT !.recipient = With(d.recipient, r, row)]
  BY <1>0, <1>2 DEF InsertRecipient, Store
<1>4. /\ e.recipient = With(d.recipient, r, row)
      /\ e.user = d.user /\ e.template = d.template /\ e.group = d.group
      /\ e.member = d.member /\ e.batch = d.batch
      /\ e.notification = d.notification /\ e.contact = d.contact
      /\ e.templateDraft = d.templateDraft
      /\ e.recipientDraft = d.recipientDraft
      /\ e.groupDraft = d.groupDraft
  BY <1>0, <1>3 DEF Store
<1>5. /\ DOMAIN e.recipient = DOMAIN d.recipient \cup {r}
      /\ e.recipient[r] = row
      /\ \A x \in DOMAIN d.recipient : x # r => e.recipient[x] = d.recipient[x]
  BY <1>4 DEF With
<1> HIDE DEF e, row
<1>6. References(e)
  BY <1>1, <1>4, <1>5 DEF StoreInvariant, References
<1>7. Evolves(d, e, old)
  BY <1>1, <1>4, <1>5 DEF Evolves
<1>8. Keys(e) \subseteq old \cup {r}
  BY <1>4, <1>5 DEF Keys
<1>9. \A n \in DOMAIN d.notification : d.notification[n].batch \in DOMAIN d.batch
  BY DEF StoreInvariant, NotificationsShareMaster
<1>10. StoreInvariant(e)
  BY <1>3, <1>4, <1>5, <1>6, <1>7, <1>9, EvolvingStore
<1>. QED  BY <1>7, <1>8, <1>10 DEF e

LEMMA UpdateRecipientPreserves ==
    ASSUME NEW d, StoreInvariant(d), NEW old, Keys(d) \subseteq old,
           NEW r \in DOMAIN d.recipient, NEW chat \in Chat \cup {NULL}
    PROVE  LET e == UpdateRecipient(d, r, chat)
           IN  StoreInvariant(e) /\ Evolves(d, e, old) /\ Keys(e) \subseteq old
<1> DEFINE row == [d.recipient[r] EXCEPT !.chat = chat]
           e == UpdateRecipient(d, r, chat)
<1>0. d \in Store /\ d.recipient \in Table(Recipient, RecipientRow)
  BY IsStoreDef, StoreTables DEF StoreInvariant
<1>1. /\ row \in RecipientRow
      /\ row.master = d.recipient[r].master
      /\ row.master \in DOMAIN d.user
  BY <1>0, StoreRows DEF RecipientRow, StoreInvariant, References
<1>2. With(d.recipient, r, row) \in Table(Recipient, RecipientRow)
  BY <1>0, <1>1, WithTable, TableDef
<1>3. e \in Store /\ e = [d EXCEPT !.recipient = With(d.recipient, r, row)]
  BY <1>0, <1>2 DEF UpdateRecipient, Store
<1>4. /\ e.recipient = With(d.recipient, r, row)
      /\ e.user = d.user /\ e.template = d.template /\ e.group = d.group
      /\ e.member = d.member /\ e.batch = d.batch
      /\ e.notification = d.notification /\ e.contact = d.contact
      /\ e.templateDraft = d.templateDraft
      /\ e.recipientDraft = d.recipientDraft
      /\ e.groupDraft = d.groupDraft
  BY <1>0, <1>3 DEF Store
<1>5. /\ DOMAIN e.recipient = DOMAIN d.recipient \cup {r}
      /\ e.recipient[r] = row
      /\ \A x \in DOMAIN d.recipient : x # r => e.recipient[x] = d.recipient[x]
  BY <1>4 DEF With
<1> HIDE DEF e, row
<1>6. References(e)
  BY <1>1, <1>4, <1>5 DEF StoreInvariant, References
<1>7. Evolves(d, e, old)
  BY <1>1, <1>4, <1>5 DEF Evolves
<1>8. Keys(e) \subseteq old
  BY <1>4, <1>5 DEF Keys
<1>9. \A n \in DOMAIN d.notification : d.notification[n].batch \in DOMAIN d.batch
  BY DEF StoreInvariant, NotificationsShareMaster
<1>10. StoreInvariant(e)
  BY <1>3, <1>4, <1>5, <1>6, <1>7, <1>9, EvolvingStore
<1>. QED  BY <1>7, <1>8, <1>10 DEF e

LEMMA InsertGroupPreserves ==
    ASSUME NEW d, StoreInvariant(d), NEW old, Keys(d) \subseteq old,
           NEW g \in Group \ old, NEW u \in DOMAIN d.user, NEW active \in BOOLEAN,
           NEW template \in DOMAIN d.template \cup {NULL}
    PROVE  LET e == InsertGroup(d, g, u, active, template)
           IN  StoreInvariant(e) /\ Evolves(d, e, old) /\ Keys(e) \subseteq old \cup {g}
<1> DEFINE row == [master |-> u, active |-> active, template |-> template]
           e == InsertGroup(d, g, u, active, template)
<1>0. d \in Store /\ d.group \in Table(Group, GroupRow)
  BY IsStoreDef, StoreTables DEF StoreInvariant
<1>1. /\ row \in GroupRow
      /\ row.master \in DOMAIN d.user
      /\ row.template \in DOMAIN d.template \cup {NULL}
  BY <1>0, StoreRows DEF GroupRow, StoreInvariant, References
<1>2. With(d.group, g, row) \in Table(Group, GroupRow)
  BY <1>0, <1>1, WithTable, TableDef
<1>3. e \in Store /\ e = [d EXCEPT !.group = With(d.group, g, row)]
  BY <1>0, <1>2 DEF InsertGroup, Store
<1>4. /\ e.group = With(d.group, g, row)
      /\ e.user = d.user /\ e.template = d.template
      /\ e.recipient = d.recipient /\ e.member = d.member
      /\ e.batch = d.batch /\ e.notification = d.notification
      /\ e.contact = d.contact /\ e.templateDraft = d.templateDraft
      /\ e.recipientDraft = d.recipientDraft
      /\ e.groupDraft = d.groupDraft
  BY <1>0, <1>3 DEF Store
<1>5. /\ DOMAIN e.group = DOMAIN d.group \cup {g}
      /\ e.group[g] = row
      /\ \A x \in DOMAIN d.group : x # g => e.group[x] = d.group[x]
  BY <1>4 DEF With
<1> HIDE DEF e, row
<1>6. References(e)
  BY <1>1, <1>4, <1>5 DEF StoreInvariant, References
<1>7. Evolves(d, e, old)
  BY <1>1, <1>4, <1>5 DEF Evolves
<1>8. Keys(e) \subseteq old \cup {g}
  BY <1>4, <1>5 DEF Keys
<1>9. \A n \in DOMAIN d.notification : d.notification[n].batch \in DOMAIN d.batch
  BY DEF StoreInvariant, NotificationsShareMaster
<1>10. StoreInvariant(e)
  BY <1>3, <1>4, <1>5, <1>6, <1>7, <1>9, EvolvingStore
<1>. QED  BY <1>7, <1>8, <1>10 DEF e

LEMMA UpdateGroupPreserves ==
    ASSUME NEW d, StoreInvariant(d), NEW old, Keys(d) \subseteq old,
           NEW g \in DOMAIN d.group, NEW active \in BOOLEAN,
           NEW template \in DOMAIN d.template \cup {NULL}
    PROVE  LET e == UpdateGroup(d, g, active, template)
           IN  StoreInvariant(e) /\ Evolves(d, e, old) /\ Keys(e) \subseteq old
<1> DEFINE row == [d.group[g] EXCEPT !.active = active, !.template = template]
           e == UpdateGroup(d, g, active, template)
<1>0. d \in Store /\ d.group \in Table(Group, GroupRow)
  BY IsStoreDef, StoreTables DEF StoreInvariant
<1>1. /\ row \in GroupRow
      /\ row.master = d.group[g].master
      /\ row.master \in DOMAIN d.user
      /\ row.template \in DOMAIN d.template \cup {NULL}
  <2>1. d.group[g] \in GroupRow /\ template \in Template \cup {NULL}
    BY <1>0, StoreRows
  <2>2. d.group[g].master \in DOMAIN d.user
    BY DEF StoreInvariant, References
  <2>. QED  BY <2>1, <2>2 DEF GroupRow
<1>2. With(d.group, g, row) \in Table(Group, GroupRow)
  BY <1>0, <1>1, WithTable, TableDef
<1>3. e \in Store /\ e = [d EXCEPT !.group = With(d.group, g, row)]
  BY <1>0, <1>2 DEF UpdateGroup, Store
<1>4. /\ e.group = With(d.group, g, row)
      /\ e.user = d.user /\ e.template = d.template
      /\ e.recipient = d.recipient /\ e.member = d.member
      /\ e.batch = d.batch /\ e.notification = d.notification
      /\ e.contact = d.contact /\ e.templateDraft = d.templateDraft
      /\ e.recipientDraft = d.recipientDraft
      /\ e.groupDraft = d.groupDraft
  BY <1>0, <1>3 DEF Store
<1>5. /\ DOMAIN e.group = DOMAIN d.group \cup {g}
      /\ e.group[g] = row
      /\ \A x \in DOMAIN d.group : x # g => e.group[x] = d.group[x]
  BY <1>4 DEF With
<1> HIDE DEF e, row
<1>6. References(e)
  BY <1>1, <1>4, <1>5 DEF StoreInvariant, References
<1>7. Evolves(d, e, old)
  BY <1>1, <1>4, <1>5 DEF Evolves
<1>8. Keys(e) \subseteq old
  BY <1>4, <1>5 DEF Keys
<1>9. \A n \in DOMAIN d.notification : d.notification[n].batch \in DOMAIN d.batch
  BY DEF StoreInvariant, NotificationsShareMaster
<1>10. StoreInvariant(e)
  BY <1>3, <1>4, <1>5, <1>6, <1>7, <1>9, EvolvingStore
<1>. QED  BY <1>7, <1>8, <1>10 DEF e

LEMMA InsertBatchPreserves ==
    ASSUME NEW d, StoreInvariant(d), NEW old, Keys(d) \subseteq old,
           NEW b \in Batch \ old, NEW u \in DOMAIN d.user
    PROVE  LET e == InsertBatch(d, b, u)
           IN  StoreInvariant(e) /\ Evolves(d, e, old) /\ Keys(e) \subseteq old \cup {b}
<1> DEFINE row == [master |-> u, sent |-> FALSE]
           e == InsertBatch(d, b, u)
<1>0. d \in Store /\ d.batch \in Table(Batch, BatchRow)
  BY IsStoreDef, StoreTables DEF StoreInvariant
<1>1. row \in BatchRow /\ row.master \in DOMAIN d.user
  BY <1>0, StoreRows DEF BatchRow, StoreInvariant, References
<1>2. With(d.batch, b, row) \in Table(Batch, BatchRow)
  BY <1>0, <1>1, WithTable, TableDef
<1>3. e \in Store /\ e = [d EXCEPT !.batch = With(d.batch, b, row)]
  BY <1>0, <1>2 DEF InsertBatch, Store
<1>4. /\ e.batch = With(d.batch, b, row)
      /\ e.user = d.user /\ e.template = d.template
      /\ e.recipient = d.recipient /\ e.group = d.group
      /\ e.member = d.member /\ e.notification = d.notification
      /\ e.contact = d.contact /\ e.templateDraft = d.templateDraft
      /\ e.recipientDraft = d.recipientDraft
      /\ e.groupDraft = d.groupDraft
  BY <1>0, <1>3 DEF Store
<1>5. /\ DOMAIN e.batch = DOMAIN d.batch \cup {b}
      /\ e.batch[b] = row
      /\ \A x \in DOMAIN d.batch : x # b => e.batch[x] = d.batch[x]
  BY <1>4 DEF With
<1> HIDE DEF e, row
<1>6. References(e)
  BY <1>1, <1>4, <1>5 DEF StoreInvariant, References
<1>7. Evolves(d, e, old)
  BY <1>1, <1>4, <1>5 DEF Evolves
<1>8. Keys(e) \subseteq old \cup {b}
  BY <1>4, <1>5 DEF Keys
<1>9. \A n \in DOMAIN d.notification : d.notification[n].batch \in DOMAIN d.batch
  BY DEF StoreInvariant, NotificationsShareMaster
<1>10. StoreInvariant(e)
  BY <1>3, <1>4, <1>5, <1>6, <1>7, <1>9, EvolvingStore
<1>. QED  BY <1>7, <1>8, <1>10 DEF e

LEMMA SetContactPreserves ==
    ASSUME NEW d, StoreInvariant(d), NEW old, Keys(d) \subseteq old,
           NEW chat \in Chat, NEW active \in BOOLEAN
    PROVE  LET e == SetContact(d, chat, active)
           IN  StoreInvariant(e) /\ Evolves(d, e, old) /\ Keys(e) \subseteq old
<1> DEFINE row == [active |-> active]
           e == SetContact(d, chat, active)
<1>0. d \in Store /\ d.contact \in Table(Chat, ContactRow)
  BY IsStoreDef, StoreTables DEF StoreInvariant
<1>1. row \in ContactRow
  BY <1>0, StoreRows DEF ContactRow, StoreInvariant, References
<1>2. With(d.contact, chat, row) \in Table(Chat, ContactRow)
  BY <1>0, <1>1, WithTable, TableDef
<1>3. e \in Store /\ e = [d EXCEPT !.contact = With(d.contact, chat, row)]
  BY <1>0, <1>2 DEF SetContact, Store
<1>4. /\ e.contact = With(d.contact, chat, row)
      /\ e.user = d.user /\ e.template = d.template
      /\ e.recipient = d.recipient /\ e.group = d.group
      /\ e.member = d.member /\ e.batch = d.batch
      /\ e.notification = d.notification
      /\ e.templateDraft = d.templateDraft
      /\ e.recipientDraft = d.recipientDraft
      /\ e.groupDraft = d.groupDraft
  BY <1>0, <1>3 DEF Store
<1>5. /\ DOMAIN e.contact = DOMAIN d.contact \cup {chat}
      /\ e.contact[chat] = row
      /\ \A x \in DOMAIN d.contact : x # chat => e.contact[x] = d.contact[x]
  BY <1>4 DEF With
<1> HIDE DEF e, row
<1>6. References(e)
  BY <1>1, <1>4, <1>5 DEF StoreInvariant, References
<1>7. Evolves(d, e, old)
  BY <1>1, <1>4, <1>5 DEF Evolves
<1>8. Keys(e) \subseteq old
  BY <1>4, <1>5 DEF Keys
<1>9. \A n \in DOMAIN d.notification : d.notification[n].batch \in DOMAIN d.batch
  BY DEF StoreInvariant, NotificationsShareMaster
<1>10. StoreInvariant(e)
  BY <1>3, <1>4, <1>5, <1>6, <1>7, <1>9, EvolvingStore
<1>. QED  BY <1>7, <1>8, <1>10 DEF e

LEMMA SetBatchSentPreserves ==
    ASSUME NEW d, StoreInvariant(d), NEW old, Keys(d) \subseteq old, NEW u, NEW b
    PROVE  LET e == SetBatchSent(d, u, b)
           IN  /\ StoreInvariant(e) /\ Evolves(d, e, old) /\ Keys(e) \subseteq old
               /\ b \in DOMAIN e.batch /\ e.batch[b].master = u => e.batch[b].sent
<1> DEFINE row == [d.batch[b] EXCEPT !.sent = TRUE]
           e == SetBatchSent(d, u, b)
<1>0. d \in Store /\ d.batch \in Table(Batch, BatchRow)
  BY IsStoreDef, StoreTables DEF StoreInvariant
<1>1. CASE b \notin Owned(d.batch, u)
  <2>1. e = d
    BY <1>1 DEF SetBatchSent
  <2>2. Evolves(d, d, old)
    BY DEF Evolves
  <2>3. b \in DOMAIN d.batch => d.batch[b].master # u
    BY <1>1 DEF Owned
  <2>. QED  BY <2>1, <2>2, <2>3
<1>2. CASE b \in Owned(d.batch, u)
  <2>1. b \in DOMAIN d.batch /\ b \in Batch
    BY <1>0, <1>2, StoreRows DEF Owned
  <2>2. /\ row \in BatchRow
        /\ row.master = d.batch[b].master
        /\ row.sent
    BY <1>0, <2>1, StoreRows DEF BatchRow
  <2>3. row.master \in DOMAIN d.user
    BY <2>1, <2>2 DEF StoreInvariant, References
  <2>4. With(d.batch, b, row) \in Table(Batch, BatchRow)
    BY <1>0, <2>1, <2>2, WithTable
  <2>5. e \in Store /\ e = [d EXCEPT !.batch = With(d.batch, b, row)]
    BY <1>0, <1>2, <2>4 DEF SetBatchSent, Store
  <2>6. /\ e.batch = With(d.batch, b, row)
        /\ e.user = d.user /\ e.template = d.template
        /\ e.recipient = d.recipient /\ e.group = d.group
        /\ e.member = d.member /\ e.notification = d.notification
        /\ e.contact = d.contact /\ e.templateDraft = d.templateDraft
        /\ e.recipientDraft = d.recipientDraft
        /\ e.groupDraft = d.groupDraft
    BY <1>0, <2>5 DEF Store
  <2>7. /\ DOMAIN e.batch = DOMAIN d.batch
        /\ e.batch[b] = row
        /\ \A x \in DOMAIN d.batch : x # b => e.batch[x] = d.batch[x]
    BY <2>1, <2>6 DEF With
  <2> HIDE DEF e, row
  <2>8. References(e)
    BY <2>3, <2>6, <2>7 DEF StoreInvariant, References
  <2>9. Evolves(d, e, old)
    BY <2>2, <2>6, <2>7 DEF Evolves
  <2>10. Keys(e) \subseteq old
    BY <2>6, <2>7 DEF Keys
  <2>11. \A n \in DOMAIN d.notification : d.notification[n].batch \in DOMAIN d.batch
    BY DEF StoreInvariant, NotificationsShareMaster
  <2>12. StoreInvariant(e)
    BY <2>5, <2>6, <2>7, <2>8, <2>9, <2>11, EvolvingStore
  <2>. QED  BY <2>2, <2>7, <2>9, <2>10, <2>12 DEF e
<1>. QED  BY <1>1, <1>2

LEMMA DeleteTemplatePreserves ==
    ASSUME NEW d, StoreInvariant(d), NEW old, Keys(d) \subseteq old, NEW t
    PROVE  LET e == DeleteTemplate(d, t)
           IN  StoreInvariant(e) /\ Evolves(d, e, old) /\ Keys(e) \subseteq old
<1> DEFINE e == DeleteTemplate(d, t)
<1>0. d \in Store
  BY IsStoreDef DEF StoreInvariant
<1>1. /\ Without(d.template, {t}) \in Table(Template, TemplateRow)
      /\ UnsetTemplates(d.group, {t}) \in Table(Group, GroupRow)
      /\ UnsetTemplates(d.groupDraft, {t}) \in Table(Draft, GroupRow)
  BY <1>0, StoreTables, WithoutTable, UnsetTemplatesTable
<1>2. e \in Store
  BY <1>0, <1>1 DEF DeleteTemplate, Store
<1>3. /\ e.template = Without(d.template, {t})
      /\ e.group = UnsetTemplates(d.group, {t})
      /\ e.groupDraft = UnsetTemplates(d.groupDraft, {t})
      /\ e.user = d.user /\ e.recipient = d.recipient /\ e.member = d.member
      /\ e.batch = d.batch /\ e.notification = d.notification
      /\ e.templateDraft = d.templateDraft /\ e.recipientDraft = d.recipientDraft
  BY <1>0, <1>1 DEF DeleteTemplate, Store
<1> HIDE DEF e
<1>4. /\ DOMAIN e.template = DOMAIN d.template \ {t}
      /\ \A x \in DOMAIN e.template : e.template[x] = d.template[x]
  BY <1>3 DEF Without, Restrict
<1>5. /\ DOMAIN e.group = DOMAIN d.group
      /\ DOMAIN e.groupDraft = DOMAIN d.groupDraft
      /\ \A g \in DOMAIN e.group :
            e.group[g] = [d.group[g] EXCEPT !.template = IF @ \in {t} THEN NULL ELSE @]
  BY <1>3 DEF UnsetTemplates
<1>6. \A g \in DOMAIN e.group :
        /\ e.group[g].master = d.group[g].master
        /\ e.group[g].template = IF d.group[g].template \in {t} THEN NULL
                                 ELSE d.group[g].template
  <2>1. \A g \in DOMAIN d.group : d.group[g] \in GroupRow
    BY <1>0, StoreRows
  <2>. QED  BY <1>5, <2>1 DEF GroupRow
<1>7. References(e)
  BY <1>3, <1>4, <1>5, <1>6 DEF StoreInvariant, References
<1>8. Evolves(d, e, old)
  BY <1>3, <1>5, <1>6 DEF Evolves
<1>9. Keys(e) \subseteq old
  BY <1>3, <1>4, <1>5 DEF Keys
<1>10. \A n \in DOMAIN d.notification : d.notification[n].batch \in DOMAIN d.batch
  BY DEF StoreInvariant, NotificationsShareMaster
<1>11. StoreInvariant(e)
  BY <1>2, <1>3, <1>7, <1>8, <1>10, EvolvingStore
<1>. QED  BY <1>8, <1>9, <1>11 DEF e

LEMMA DeleteRecipientPreserves ==
    ASSUME NEW d, StoreInvariant(d), NEW old, Keys(d) \subseteq old, NEW r
    PROVE  LET e == DeleteRecipient(d, r)
           IN  StoreInvariant(e) /\ Evolves(d, e, old) /\ Keys(e) \subseteq old
<1> DEFINE e == DeleteRecipient(d, r)
<1>0. d \in Store
  BY IsStoreDef DEF StoreInvariant
<1>1. /\ Without(d.recipient, {r}) \in Table(Recipient, RecipientRow)
      /\ WithoutMembers(d.member, {r}, {}) \in SUBSET (Recipient \X Group)
      /\ WithoutReferences(d.notification, {}, {r}, {})
            \in Table(Notification, NotificationRow)
  <2>1. WithoutMembers(d.member, {r}, {}) \in SUBSET (Recipient \X Group)
    BY <1>0, StoreTables DEF WithoutMembers
  <2>. QED  BY <1>0, <2>1, StoreTables, WithoutTable, WithoutReferencesTable
<1>2. e \in Store
  BY <1>0, <1>1 DEF DeleteRecipient, Store
<1>3. /\ e.recipient = Without(d.recipient, {r})
      /\ e.member = WithoutMembers(d.member, {r}, {})
      /\ e.notification = WithoutReferences(d.notification, {}, {r}, {})
      /\ e.user = d.user /\ e.template = d.template /\ e.group = d.group
      /\ e.batch = d.batch /\ e.contact = d.contact
      /\ e.templateDraft = d.templateDraft
      /\ e.recipientDraft = d.recipientDraft
      /\ e.groupDraft = d.groupDraft
  BY <1>0, <1>1 DEF DeleteRecipient, Store
<1> HIDE DEF e
<1>4. /\ DOMAIN e.recipient = DOMAIN d.recipient \ {r}
      /\ \A x \in DOMAIN e.recipient : e.recipient[x] = d.recipient[x]
      /\ e.member = {p \in d.member : p[1] # r}
  BY <1>3 DEF Without, Restrict, WithoutMembers
<1>5. /\ DOMAIN e.notification = {n \in DOMAIN d.notification : d.notification[n].recipient # r}
      /\ \A n \in DOMAIN e.notification :
            e.notification[n] = [d.notification[n] EXCEPT
                                    !.batch = IF @ \in {} THEN NULL ELSE @]
  BY <1>3 DEF WithoutReferences
<1>6. \A n \in DOMAIN e.notification :
        /\ e.notification[n].recipient = d.notification[n].recipient
        /\ e.notification[n].group = d.notification[n].group
        /\ e.notification[n].batch = d.notification[n].batch
  <2>1. \A n \in DOMAIN d.notification : d.notification[n] \in NotificationRow
    BY <1>0, StoreRows
  <2>. QED  BY <1>5, <2>1 DEF NotificationRow
<1>7. References(e)
  BY <1>3, <1>4, <1>5, <1>6 DEF StoreInvariant, References
<1>8. Evolves(d, e, old)
  BY <1>3, <1>4 DEF Evolves
<1>9. Keys(e) \subseteq old
  BY <1>3, <1>4, <1>5 DEF Keys
<1>10. \A n \in DOMAIN d.notification : d.notification[n].batch \in DOMAIN d.batch
  BY DEF StoreInvariant, NotificationsShareMaster
<1>11. e.member \subseteq d.member
  BY <1>4
<1>12. StoreInvariant(e)
  BY <1>2, <1>3, <1>5, <1>6, <1>7, <1>8, <1>10, <1>11, EvolvingStore
<1>. QED  BY <1>8, <1>9, <1>12 DEF e

LEMMA DeleteGroupPreserves ==
    ASSUME NEW d, StoreInvariant(d), NEW old, Keys(d) \subseteq old, NEW g
    PROVE  LET e == DeleteGroup(d, g)
           IN  StoreInvariant(e) /\ Evolves(d, e, old) /\ Keys(e) \subseteq old
<1> DEFINE e == DeleteGroup(d, g)
<1>0. d \in Store
  BY IsStoreDef DEF StoreInvariant
<1>1. /\ Without(d.group, {g}) \in Table(Group, GroupRow)
      /\ WithoutMembers(d.member, {}, {g}) \in SUBSET (Recipient \X Group)
      /\ WithoutReferences(d.notification, {}, {}, {g})
            \in Table(Notification, NotificationRow)
  <2>1. WithoutMembers(d.member, {}, {g}) \in SUBSET (Recipient \X Group)
    BY <1>0, StoreTables DEF WithoutMembers
  <2>. QED  BY <1>0, <2>1, StoreTables, WithoutTable, WithoutReferencesTable
<1>2. e \in Store
  BY <1>0, <1>1 DEF DeleteGroup, Store
<1>3. /\ e.group = Without(d.group, {g})
      /\ e.member = WithoutMembers(d.member, {}, {g})
      /\ e.notification = WithoutReferences(d.notification, {}, {}, {g})
      /\ e.user = d.user /\ e.template = d.template
      /\ e.recipient = d.recipient /\ e.batch = d.batch
      /\ e.contact = d.contact /\ e.templateDraft = d.templateDraft
      /\ e.recipientDraft = d.recipientDraft
      /\ e.groupDraft = d.groupDraft
  BY <1>0, <1>1 DEF DeleteGroup, Store
<1> HIDE DEF e
<1>4. /\ DOMAIN e.group = DOMAIN d.group \ {g}
      /\ \A x \in DOMAIN e.group : e.group[x] = d.group[x]
      /\ e.member = {p \in d.member : p[2] # g}
  BY <1>3 DEF Without, Restrict, WithoutMembers
<1>5. /\ DOMAIN e.notification = {n \in DOMAIN d.notification : d.notification[n].group # g}
      /\ \A n \in DOMAIN e.notification :
            e.notification[n] = [d.notification[n] EXCEPT
                                    !.batch = IF @ \in {} THEN NULL ELSE @]
  BY <1>3 DEF WithoutReferences
<1>6. \A n \in DOMAIN e.notification :
        /\ e.notification[n].recipient = d.notification[n].recipient
        /\ e.notification[n].group = d.notification[n].group
        /\ e.notification[n].batch = d.notification[n].batch
  <2>1. \A n \in DOMAIN d.notification : d.notification[n] \in NotificationRow
    BY <1>0, StoreRows
  <2>. QED  BY <1>5, <2>1 DEF NotificationRow
<1>7. References(e)
  BY <1>3, <1>4, <1>5, <1>6 DEF StoreInvariant, References
<1>8. Evolves(d, e, old)
  BY <1>3, <1>4 DEF Evolves
<1>9. Keys(e) \subseteq old
  BY <1>3, <1>4, <1>5 DEF Keys
<1>10. \A n \in DOMAIN d.notification : d.notification[n].batch \in DOMAIN d.batch
  BY DEF StoreInvariant, NotificationsShareMaster
<1>11. e.member \subseteq d.member
  BY <1>4
<1>12. StoreInvariant(e)
  BY <1>2, <1>3, <1>5, <1>6, <1>7, <1>8, <1>10, <1>11, EvolvingStore
<1>. QED  BY <1>8, <1>9, <1>12 DEF e

\* A pair is added only when its group and its recipient are of one user.
LEMMA InsertMemberPreserves ==
    ASSUME NEW d, StoreInvariant(d), NEW old, Keys(d) \subseteq old,
           NEW r \in DOMAIN d.recipient, NEW g \in DOMAIN d.group,
           d.recipient[r].master = d.group[g].master
    PROVE  LET e == InsertMember(d, r, g)
           IN  StoreInvariant(e) /\ Evolves(d, e, old) /\ Keys(e) \subseteq old
<1> DEFINE e == InsertMember(d, r, g)
<1>0. d \in Store
  BY IsStoreDef DEF StoreInvariant
<1>1. d.member \cup {<<r, g>>} \in SUBSET (Recipient \X Group)
  BY <1>0, StoreTables, StoreRows
<1>2. e \in Store
  BY <1>0, <1>1 DEF InsertMember, Store
<1>3. /\ e.member = d.member \cup {<<r, g>>}
      /\ e.user = d.user /\ e.template = d.template
      /\ e.recipient = d.recipient /\ e.group = d.group
      /\ e.batch = d.batch /\ e.notification = d.notification
      /\ e.contact = d.contact /\ e.templateDraft = d.templateDraft
      /\ e.recipientDraft = d.recipientDraft
      /\ e.groupDraft = d.groupDraft
  BY <1>0, <1>1 DEF InsertMember, Store
<1> HIDE DEF e
<1>4. References(e)
  BY <1>3 DEF StoreInvariant, References
<1>5. MembersShareMaster(e)
  BY <1>3 DEF StoreInvariant, MembersShareMaster
<1>6. NotificationsShareMaster(e) /\ NotifiedBatchesAreSent(e)
  BY <1>3 DEF StoreInvariant, NotificationsShareMaster, NotifiedBatchesAreSent
<1>7. Evolves(d, e, old) /\ Keys(e) \subseteq old
  BY <1>3 DEF Evolves, Keys
<1>. QED  BY <1>2, <1>4, <1>5, <1>6, <1>7, IsStoreDef DEF StoreInvariant, e

LEMMA DeleteMemberPreserves ==
    ASSUME NEW d, StoreInvariant(d), NEW old, Keys(d) \subseteq old, NEW r, NEW g
    PROVE  LET e == DeleteMember(d, r, g)
           IN  StoreInvariant(e) /\ Evolves(d, e, old) /\ Keys(e) \subseteq old
<1> DEFINE e == DeleteMember(d, r, g)
<1>0. d \in Store
  BY IsStoreDef DEF StoreInvariant
<1>1. d.member \ {<<r, g>>} \in SUBSET (Recipient \X Group)
  BY <1>0, StoreTables
<1>2. e \in Store
  BY <1>0, <1>1 DEF DeleteMember, Store
<1>3. /\ e.member = d.member \ {<<r, g>>}
      /\ e.user = d.user /\ e.template = d.template
      /\ e.recipient = d.recipient /\ e.group = d.group
      /\ e.batch = d.batch /\ e.notification = d.notification
      /\ e.contact = d.contact /\ e.templateDraft = d.templateDraft
      /\ e.recipientDraft = d.recipientDraft
      /\ e.groupDraft = d.groupDraft
  BY <1>0, <1>1 DEF DeleteMember, Store
<1> HIDE DEF e
<1>4. References(e)
  BY <1>3 DEF StoreInvariant, References
<1>5. Evolves(d, e, old) /\ Keys(e) \subseteq old
  BY <1>3 DEF Evolves, Keys
<1>6. \A n \in DOMAIN d.notification : d.notification[n].batch \in DOMAIN d.batch
  BY DEF StoreInvariant, NotificationsShareMaster
<1>7. StoreInvariant(e)
  BY <1>2, <1>3, <1>4, <1>5, <1>6, EvolvingStore
<1>. QED  BY <1>5, <1>7 DEF e

\* A notification is inserted for a marked batch, and for a recipient and a
\* group of the batch's user.
LEMMA InsertNotificationPreserves ==
    ASSUME NEW d, StoreInvariant(d), NEW old, Keys(d) \subseteq old,
           NEW n \in Notification, NEW b, NEW r, NEW g, NotificationKeysExist(d, b, r, g),
           d.batch[b].sent,
           d.recipient[r].master = d.batch[b].master,
           d.group[g].master = d.batch[b].master
    PROVE  LET e == InsertNotification(d, n, b, r, g)
           IN  StoreInvariant(e) /\ Evolves(d, e, old) /\ Keys(e) \subseteq old \cup {n}
<1> DEFINE row == [batch |-> b, recipient |-> r, group |-> g, completed |-> FALSE]
           e == InsertNotification(d, n, b, r, g)
<1>0. d \in Store /\ d.notification \in Table(Notification, NotificationRow)
  BY IsStoreDef, StoreTables DEF StoreInvariant
<1>1. b \in DOMAIN d.batch /\ r \in DOMAIN d.recipient /\ g \in DOMAIN d.group
  BY DEF NotificationKeysExist
<1>2. row \in NotificationRow
  BY <1>0, <1>1, StoreRows DEF NotificationRow
<1>3. With(d.notification, n, row) \in Table(Notification, NotificationRow)
  BY <1>0, <1>2, WithTable
<1>4. e \in Store /\ e = [d EXCEPT !.notification = With(d.notification, n, row)]
  BY <1>0, <1>3 DEF InsertNotification, Store
<1>5. /\ e.notification = With(d.notification, n, row)
      /\ e.user = d.user /\ e.template = d.template
      /\ e.recipient = d.recipient /\ e.group = d.group
      /\ e.member = d.member /\ e.batch = d.batch
      /\ e.contact = d.contact /\ e.templateDraft = d.templateDraft
      /\ e.recipientDraft = d.recipientDraft
      /\ e.groupDraft = d.groupDraft
  BY <1>0, <1>4 DEF Store
<1>6. /\ DOMAIN e.notification = DOMAIN d.notification \cup {n}
      /\ e.notification[n] = row
      /\ \A x \in DOMAIN d.notification : x # n => e.notification[x] = d.notification[x]
  BY <1>5 DEF With
<1>7. row.batch = b /\ row.recipient = r /\ row.group = g
  OBVIOUS
<1> HIDE DEF e, row
<1>8. References(e)
  BY <1>1, <1>5, <1>6, <1>7 DEF StoreInvariant, References
<1>9. MembersShareMaster(e)
  BY <1>5 DEF StoreInvariant, MembersShareMaster
<1>10. NotificationsShareMaster(e)
  BY <1>1, <1>5, <1>6, <1>7 DEF StoreInvariant, NotificationsShareMaster
<1>11. NotifiedBatchesAreSent(e)
  BY <1>1, <1>5, <1>6, <1>7 DEF StoreInvariant, NotifiedBatchesAreSent
<1>12. Evolves(d, e, old) /\ Keys(e) \subseteq old \cup {n}
  BY <1>5, <1>6 DEF Evolves, Keys
<1>. QED  BY <1>4, <1>8, <1>9, <1>10, <1>11, <1>12, IsStoreDef DEF StoreInvariant, e

LEMMA DeleteNotificationPreserves ==
    ASSUME NEW d, StoreInvariant(d), NEW old, Keys(d) \subseteq old, NEW n
    PROVE  LET e == DeleteNotification(d, n)
           IN  StoreInvariant(e) /\ Evolves(d, e, old) /\ Keys(e) \subseteq old
<1> DEFINE e == DeleteNotification(d, n)
<1>0. d \in Store
  BY IsStoreDef DEF StoreInvariant
<1>1. Without(d.notification, {n}) \in Table(Notification, NotificationRow)
  BY <1>0, StoreTables, WithoutTable
<1>2. e \in Store
  BY <1>0, <1>1 DEF DeleteNotification, Store
<1>3. /\ e.notification = Without(d.notification, {n})
      /\ e.user = d.user /\ e.template = d.template
      /\ e.recipient = d.recipient /\ e.group = d.group
      /\ e.member = d.member /\ e.batch = d.batch
      /\ e.contact = d.contact /\ e.templateDraft = d.templateDraft
      /\ e.recipientDraft = d.recipientDraft
      /\ e.groupDraft = d.groupDraft
  BY <1>0, <1>1 DEF DeleteNotification, Store
<1> HIDE DEF e
<1>4. /\ DOMAIN e.notification = DOMAIN d.notification \ {n}
      /\ \A x \in DOMAIN e.notification : e.notification[x] = d.notification[x]
  BY <1>3 DEF Without, Restrict
<1>5. References(e)
  BY <1>3, <1>4 DEF StoreInvariant, References
<1>6. Evolves(d, e, old) /\ Keys(e) \subseteq old
  BY <1>3, <1>4 DEF Evolves, Keys
<1>7. \A x \in DOMAIN d.notification : d.notification[x].batch \in DOMAIN d.batch
  BY DEF StoreInvariant, NotificationsShareMaster
<1>8. StoreInvariant(e)
  BY <1>2, <1>3, <1>4, <1>5, <1>6, <1>7, EvolvingStore
<1>. QED  BY <1>6, <1>8 DEF e
=============================================================================
