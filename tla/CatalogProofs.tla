---------------------------- MODULE CatalogProofs ----------------------------
(***************************************************************************)
(* Type correctness of templates, recipients and groups, the foreign keys  *)
(* and owners of all tables, the safety of what an open confirmation       *)
(* holds, that a confirmed draft never comes back, and that the answers    *)
(* could come from calls that run one after the other: for any number of   *)
(* calls, users and rows.                                                  *)
(*                                                                         *)
(* None of these is inductive alone.  The INSERT of a member is sound      *)
(* because the checks before it stay good (CallSafe), which depends on ids *)
(* never coming back; the INSERT of a confirmation is sound because of the *)
(* locks; and a draft stays away because its id was issued once.  The      *)
(* order of the answers needs more of the past: what every entry of the    *)
(* log says of the store must still stand (Standing), and every step is    *)
(* silent, the success of one call or the deletion of one user (Order).    *)
(***************************************************************************)
EXTENDS Catalog, EnsStoreProofs

\* Drafts with an id from old are at most deleted, too.
DraftsEvolve(d, e, old) ==
    /\ \A k \in old \cap DOMAIN e.templateDraft :
        /\ k \in DOMAIN d.templateDraft
        /\ e.templateDraft[k].master = d.templateDraft[k].master
    /\ \A k \in old \cap DOMAIN e.recipientDraft :
        /\ k \in DOMAIN d.recipientDraft
        /\ e.recipientDraft[k].master = d.recipientDraft[k].master

\* A store of this service, whose ids are all from old.
Sound(d, old) == StoreInvariant(d) /\ DraftReferences(d) /\ Keys(d) \subseteq old

\* What every statement guarantees.
Preserves(d, e, old, new) ==
    Sound(e, new) /\ Evolves(d, e, old) /\ DraftsEvolve(d, e, old)

\* What every statement but two guarantees: users and templates stay.
Keeps(d, e) == DOMAIN d.user \subseteq DOMAIN e.user
               /\ DOMAIN d.template \subseteq DOMAIN e.template

-----------------------------------------------------------------------------
(* The statements.                                                         *)

\* Statements that do not touch drafts.
LEMMA DraftsUntouched ==
    ASSUME NEW d, DraftReferences(d), NEW e, NEW old, NEW new,
           StoreInvariant(e), Evolves(d, e, old), Keys(e) \subseteq new, Keeps(d, e),
           e.templateDraft = d.templateDraft, e.recipientDraft = d.recipientDraft,
           e.groupDraft = d.groupDraft
    PROVE  Preserves(d, e, old, new)
<1>1. DraftReferences(e)
  BY DEF DraftReferences, Keeps
<1>2. DraftsEvolve(d, e, old)
  BY DEF DraftsEvolve
<1>. QED  BY <1>1, <1>2 DEF Preserves, Sound

LEMMA TemplateStatements ==
    ASSUME NEW d, NEW old, Sound(d, old)
    PROVE  /\ \A t \in Template, u \in DOMAIN d.user, text \in Text \cup {NULL} :
                LET e == InsertTemplate(d, t, u, text)
                IN  Preserves(d, e, old, old \cup {t}) /\ Keeps(d, e)
           /\ \A t \in DOMAIN d.template, text \in Text \cup {NULL} :
                LET e == UpdateTemplate(d, t, text)
                IN  Preserves(d, e, old, old) /\ Keeps(d, e)
<1>0. d \in Store /\ StoreInvariant(d) /\ DraftReferences(d) /\ Keys(d) \subseteq old
  BY IsStoreDef DEF Sound, StoreInvariant
<1>1. ASSUME NEW t \in Template, NEW u \in DOMAIN d.user, NEW text \in Text \cup {NULL}
      PROVE  LET e == InsertTemplate(d, t, u, text)
             IN  Preserves(d, e, old, old \cup {t}) /\ Keeps(d, e)
  <2> DEFINE e == InsertTemplate(d, t, u, text)
  <2>1. StoreInvariant(e) /\ Evolves(d, e, old) /\ Keys(e) \subseteq old \cup {t}
    BY <1>0, InsertTemplatePreserves
  <2>2. /\ e.templateDraft = d.templateDraft /\ e.recipientDraft = d.recipientDraft
        /\ e.groupDraft = d.groupDraft /\ e.user = d.user
        /\ DOMAIN e.template = DOMAIN d.template \cup {t}
    BY <1>0 DEF InsertTemplate, With, Store
  <2> HIDE DEF e
  <2>3. Keeps(d, e)
    BY <2>2 DEF Keeps
  <2>4. Preserves(d, e, old, old \cup {t})
    BY <1>0, <2>1, <2>2, <2>3, DraftsUntouched
  <2>. QED  BY <2>3, <2>4 DEF e
<1>2. ASSUME NEW t \in DOMAIN d.template, NEW text \in Text \cup {NULL}
      PROVE  LET e == UpdateTemplate(d, t, text)
             IN  Preserves(d, e, old, old) /\ Keeps(d, e)
  <2> DEFINE e == UpdateTemplate(d, t, text)
  <2>1. StoreInvariant(e) /\ Evolves(d, e, old) /\ Keys(e) \subseteq old
    BY <1>0, UpdateTemplatePreserves
  <2>2. /\ e.templateDraft = d.templateDraft /\ e.recipientDraft = d.recipientDraft
        /\ e.groupDraft = d.groupDraft /\ e.user = d.user
        /\ DOMAIN e.template = DOMAIN d.template \cup {t}
    BY <1>0 DEF UpdateTemplate, With, Store
  <2> HIDE DEF e
  <2>3. Keeps(d, e)
    BY <2>2 DEF Keeps
  <2>4. Preserves(d, e, old, old)
    BY <1>0, <2>1, <2>2, <2>3, DraftsUntouched
  <2>. QED  BY <2>3, <2>4 DEF e
<1>. QED  BY <1>1, <1>2

\* Statements that change recipients, groups or members only.
Sideways(d, e) ==
    /\ e.templateDraft = d.templateDraft /\ e.recipientDraft = d.recipientDraft
    /\ e.groupDraft = d.groupDraft /\ e.user = d.user /\ e.template = d.template

LEMMA SidewaysStatement ==
    ASSUME NEW d, NEW old, Sound(d, old), NEW e, NEW new, Sideways(d, e),
           StoreInvariant(e), Evolves(d, e, old), Keys(e) \subseteq new
    PROVE  Preserves(d, e, old, new) /\ Keeps(d, e)
<1>1. Keeps(d, e)
  BY DEF Keeps, Sideways
<1>. QED  BY <1>1, DraftsUntouched DEF Sideways, Sound

LEMMA RecipientStatements ==
    ASSUME NEW d, NEW old, Sound(d, old)
    PROVE  /\ \A r \in Recipient \ old, u \in DOMAIN d.user, chat \in Chat \cup {NULL} :
                LET e == InsertRecipient(d, r, u, chat)
                IN  Preserves(d, e, old, old \cup {r}) /\ Keeps(d, e)
           /\ \A r \in DOMAIN d.recipient, chat \in Chat \cup {NULL} :
                LET e == UpdateRecipient(d, r, chat)
                IN  Preserves(d, e, old, old) /\ Keeps(d, e)
           /\ \A r : LET e == DeleteRecipient(d, r)
                     IN  Preserves(d, e, old, old) /\ Keeps(d, e)
<1>0. d \in Store /\ StoreInvariant(d) /\ DraftReferences(d) /\ Keys(d) \subseteq old
  BY IsStoreDef DEF Sound, StoreInvariant
<1>1. ASSUME NEW r \in Recipient \ old, NEW u \in DOMAIN d.user, NEW chat \in Chat \cup {NULL}
      PROVE  LET e == InsertRecipient(d, r, u, chat)
             IN  Preserves(d, e, old, old \cup {r}) /\ Keeps(d, e)
  <2> DEFINE e == InsertRecipient(d, r, u, chat)
  <2>1. StoreInvariant(e) /\ Evolves(d, e, old) /\ Keys(e) \subseteq old \cup {r}
    BY <1>0, InsertRecipientPreserves
  <2>2. Sideways(d, e)
    BY <1>0 DEF InsertRecipient, Store, Sideways
  <2> HIDE DEF e
  <2>3. Preserves(d, e, old, old \cup {r}) /\ Keeps(d, e)
    BY <2>1, <2>2, SidewaysStatement
  <2>. QED  BY <2>3 DEF e
<1>2. ASSUME NEW r \in DOMAIN d.recipient, NEW chat \in Chat \cup {NULL}
      PROVE  LET e == UpdateRecipient(d, r, chat)
             IN  Preserves(d, e, old, old) /\ Keeps(d, e)
  <2> DEFINE e == UpdateRecipient(d, r, chat)
  <2>1. StoreInvariant(e) /\ Evolves(d, e, old) /\ Keys(e) \subseteq old
    BY <1>0, UpdateRecipientPreserves
  <2>2. Sideways(d, e)
    BY <1>0 DEF UpdateRecipient, Store, Sideways
  <2> HIDE DEF e
  <2>3. Preserves(d, e, old, old) /\ Keeps(d, e)
    BY <2>1, <2>2, SidewaysStatement
  <2>. QED  BY <2>3 DEF e
<1>3. ASSUME NEW r
      PROVE  LET e == DeleteRecipient(d, r)
             IN  Preserves(d, e, old, old) /\ Keeps(d, e)
  <2> DEFINE e == DeleteRecipient(d, r)
  <2>1. StoreInvariant(e) /\ Evolves(d, e, old) /\ Keys(e) \subseteq old
    BY <1>0, DeleteRecipientPreserves
  <2>2. Sideways(d, e)
    BY <1>0 DEF DeleteRecipient, Store, Sideways
  <2> HIDE DEF e
  <2>3. Preserves(d, e, old, old) /\ Keeps(d, e)
    BY <2>1, <2>2, SidewaysStatement
  <2>. QED  BY <2>3 DEF e
<1>. QED  BY <1>1, <1>2, <1>3

LEMMA GroupStatements ==
    ASSUME NEW d, NEW old, Sound(d, old)
    PROVE  /\ \A g \in Group \ old, u \in DOMAIN d.user, active \in BOOLEAN,
                 template \in DOMAIN d.template \cup {NULL} :
                LET e == InsertGroup(d, g, u, active, template)
                IN  Preserves(d, e, old, old \cup {g}) /\ Keeps(d, e)
           /\ \A g \in DOMAIN d.group, active \in BOOLEAN,
                 template \in DOMAIN d.template \cup {NULL} :
                LET e == UpdateGroup(d, g, active, template)
                IN  Preserves(d, e, old, old) /\ Keeps(d, e)
           /\ \A g : LET e == DeleteGroup(d, g)
                     IN  Preserves(d, e, old, old) /\ Keeps(d, e)
<1>0. d \in Store /\ StoreInvariant(d) /\ DraftReferences(d) /\ Keys(d) \subseteq old
  BY IsStoreDef DEF Sound, StoreInvariant
<1>1. ASSUME NEW g \in Group \ old, NEW u \in DOMAIN d.user, NEW active \in BOOLEAN,
             NEW template \in DOMAIN d.template \cup {NULL}
      PROVE  LET e == InsertGroup(d, g, u, active, template)
             IN  Preserves(d, e, old, old \cup {g}) /\ Keeps(d, e)
  <2> DEFINE e == InsertGroup(d, g, u, active, template)
  <2>1. StoreInvariant(e) /\ Evolves(d, e, old) /\ Keys(e) \subseteq old \cup {g}
    BY <1>0, InsertGroupPreserves
  <2>2. Sideways(d, e)
    BY <1>0 DEF InsertGroup, Store, Sideways
  <2> HIDE DEF e
  <2>3. Preserves(d, e, old, old \cup {g}) /\ Keeps(d, e)
    BY <2>1, <2>2, SidewaysStatement
  <2>. QED  BY <2>3 DEF e
<1>2. ASSUME NEW g \in DOMAIN d.group, NEW active \in BOOLEAN,
             NEW template \in DOMAIN d.template \cup {NULL}
      PROVE  LET e == UpdateGroup(d, g, active, template)
             IN  Preserves(d, e, old, old) /\ Keeps(d, e)
  <2> DEFINE e == UpdateGroup(d, g, active, template)
  <2>1. StoreInvariant(e) /\ Evolves(d, e, old) /\ Keys(e) \subseteq old
    BY <1>0, UpdateGroupPreserves
  <2>2. Sideways(d, e)
    BY <1>0 DEF UpdateGroup, Store, Sideways
  <2> HIDE DEF e
  <2>3. Preserves(d, e, old, old) /\ Keeps(d, e)
    BY <2>1, <2>2, SidewaysStatement
  <2>. QED  BY <2>3 DEF e
<1>3. ASSUME NEW g
      PROVE  LET e == DeleteGroup(d, g)
             IN  Preserves(d, e, old, old) /\ Keeps(d, e)
  <2> DEFINE e == DeleteGroup(d, g)
  <2>1. StoreInvariant(e) /\ Evolves(d, e, old) /\ Keys(e) \subseteq old
    BY <1>0, DeleteGroupPreserves
  <2>2. Sideways(d, e)
    BY <1>0 DEF DeleteGroup, Store, Sideways
  <2> HIDE DEF e
  <2>3. Preserves(d, e, old, old) /\ Keeps(d, e)
    BY <2>1, <2>2, SidewaysStatement
  <2>. QED  BY <2>3 DEF e
<1>. QED  BY <1>1, <1>2, <1>3

LEMMA MemberStatements ==
    ASSUME NEW d, NEW old, Sound(d, old), NEW r, NEW g
    PROVE  /\ (r \in DOMAIN d.recipient /\ g \in DOMAIN d.group
                 /\ d.recipient[r].master = d.group[g].master)
                => LET e == InsertMember(d, r, g)
                   IN  Preserves(d, e, old, old) /\ Keeps(d, e)
           /\ LET e == DeleteMember(d, r, g)
              IN  Preserves(d, e, old, old) /\ Keeps(d, e)
<1>0. d \in Store /\ StoreInvariant(d) /\ DraftReferences(d) /\ Keys(d) \subseteq old
  BY IsStoreDef DEF Sound, StoreInvariant
<1>1. ASSUME r \in DOMAIN d.recipient, g \in DOMAIN d.group,
             d.recipient[r].master = d.group[g].master
      PROVE  LET e == InsertMember(d, r, g)
             IN  Preserves(d, e, old, old) /\ Keeps(d, e)
  <2> DEFINE e == InsertMember(d, r, g)
  <2>1. StoreInvariant(e) /\ Evolves(d, e, old) /\ Keys(e) \subseteq old
    BY <1>0, <1>1, InsertMemberPreserves
  <2>2. Sideways(d, e)
    BY <1>0 DEF InsertMember, Store, Sideways
  <2> HIDE DEF e
  <2>3. Preserves(d, e, old, old) /\ Keeps(d, e)
    BY <2>1, <2>2, SidewaysStatement
  <2>. QED  BY <2>3 DEF e
<1>2. LET e == DeleteMember(d, r, g)
      IN  Preserves(d, e, old, old) /\ Keeps(d, e)
  <2> DEFINE e == DeleteMember(d, r, g)
  <2>1. StoreInvariant(e) /\ Evolves(d, e, old) /\ Keys(e) \subseteq old
    BY <1>0, DeleteMemberPreserves
  <2>2. Sideways(d, e)
    BY <1>0 DEF DeleteMember, Store, Sideways
  <2> HIDE DEF e
  <2>3. Preserves(d, e, old, old) /\ Keeps(d, e)
    BY <2>1, <2>2, SidewaysStatement
  <2>. QED  BY <2>3 DEF e
<1>. QED  BY <1>1, <1>2

\* Statements that change drafts only.
DraftsOnly(d, e) ==
    /\ e.user = d.user /\ e.template = d.template /\ e.recipient = d.recipient
    /\ e.group = d.group /\ e.member = d.member /\ e.batch = d.batch
    /\ e.notification = d.notification

LEMMA DraftStatement ==
    ASSUME NEW d, NEW old, Sound(d, old), NEW e, NEW new, e \in Store, DraftsOnly(d, e),
           DraftReferences(e), DraftsEvolve(d, e, old), Keys(e) \subseteq new
    PROVE  Preserves(d, e, old, new) /\ Keeps(d, e)
<1>1. References(e) /\ MembersShareMaster(e)
  BY DEF DraftsOnly, Sound, StoreInvariant, References, MembersShareMaster
<1>2. NotificationsShareMaster(e) /\ NotifiedBatchesAreSent(e)
  BY DEF DraftsOnly, Sound, StoreInvariant, NotificationsShareMaster, NotifiedBatchesAreSent
<1>3. Evolves(d, e, old)
  BY DEF DraftsOnly, Evolves
<1>. QED  BY <1>1, <1>2, <1>3, IsStoreDef DEF StoreInvariant, Preserves, Sound, Keeps, DraftsOnly

LEMMA InsertDraftStatements ==
    ASSUME NEW d, NEW old, Sound(d, old), NEW k \in Draft \ old, NEW u \in DOMAIN d.user
    PROVE  /\ \A text \in Text \cup {NULL} :
                LET e == InsertTemplateDraft(d, k, u, text)
                IN  Preserves(d, e, old, old \cup {k}) /\ Keeps(d, e)
           /\ \A chat \in Chat \cup {NULL} :
                LET e == InsertRecipientDraft(d, k, u, chat)
                IN  Preserves(d, e, old, old \cup {k}) /\ Keeps(d, e)
           /\ \A active \in BOOLEAN, template \in DOMAIN d.template \cup {NULL} :
                LET e == InsertGroupDraft(d, k, u, active, template)
                IN  Preserves(d, e, old, old \cup {k}) /\ Keeps(d, e)
<1>0. d \in Store /\ StoreInvariant(d) /\ DraftReferences(d) /\ Keys(d) \subseteq old
  BY IsStoreDef DEF Sound, StoreInvariant
<1>1. ASSUME NEW text \in Text \cup {NULL}
      PROVE  LET e == InsertTemplateDraft(d, k, u, text)
             IN  Preserves(d, e, old, old \cup {k}) /\ Keeps(d, e)
  <2> DEFINE row == [master |-> u, text |-> text]
             e == InsertTemplateDraft(d, k, u, text)
  <2>1. row \in TemplateRow /\ row.master = u
    BY <1>0, StoreRows DEF TemplateRow
  <2>2. With(d.templateDraft, k, row) \in Table(Draft, TemplateRow)
    BY <1>0, <2>1, StoreTables, WithTable
  <2>3. e \in Store /\ e = [d EXCEPT !.templateDraft = With(d.templateDraft, k, row)]
    BY <1>0, <2>2 DEF InsertTemplateDraft, Store
  <2>4. /\ DraftsOnly(d, e)
        /\ e.templateDraft = With(d.templateDraft, k, row)
        /\ e.recipientDraft = d.recipientDraft /\ e.groupDraft = d.groupDraft
    BY <1>0, <2>3 DEF DraftsOnly, Store
  <2>5. /\ DOMAIN e.templateDraft = DOMAIN d.templateDraft \cup {k}
        /\ e.templateDraft[k] = row
        /\ \A x \in DOMAIN d.templateDraft : x # k => e.templateDraft[x] = d.templateDraft[x]
    BY <2>4 DEF With
  <2> HIDE DEF e, row
  <2>6. DraftReferences(e)
    BY <1>0, <2>1, <2>4, <2>5 DEF DraftReferences, DraftsOnly
  <2>7. DraftsEvolve(d, e, old)
    BY <2>4, <2>5 DEF DraftsEvolve
  <2>8. Keys(e) \subseteq old \cup {k}
    BY <1>0, <2>4, <2>5 DEF Keys, DraftsOnly
  <2>9. Preserves(d, e, old, old \cup {k}) /\ Keeps(d, e)
    BY <2>3, <2>4, <2>6, <2>7, <2>8, DraftStatement
  <2>. QED  BY <2>9 DEF e
<1>2. ASSUME NEW chat \in Chat \cup {NULL}
      PROVE  LET e == InsertRecipientDraft(d, k, u, chat)
             IN  Preserves(d, e, old, old \cup {k}) /\ Keeps(d, e)
  <2> DEFINE row == [master |-> u, chat |-> chat]
             e == InsertRecipientDraft(d, k, u, chat)
  <2>1. row \in RecipientRow /\ row.master = u
    BY <1>0, StoreRows DEF RecipientRow
  <2>2. With(d.recipientDraft, k, row) \in Table(Draft, RecipientRow)
    BY <1>0, <2>1, StoreTables, WithTable
  <2>3. e \in Store /\ e = [d EXCEPT !.recipientDraft = With(d.recipientDraft, k, row)]
    BY <1>0, <2>2 DEF InsertRecipientDraft, Store
  <2>4. /\ DraftsOnly(d, e)
        /\ e.recipientDraft = With(d.recipientDraft, k, row)
        /\ e.templateDraft = d.templateDraft /\ e.groupDraft = d.groupDraft
    BY <1>0, <2>3 DEF DraftsOnly, Store
  <2>5. /\ DOMAIN e.recipientDraft = DOMAIN d.recipientDraft \cup {k}
        /\ e.recipientDraft[k] = row
        /\ \A x \in DOMAIN d.recipientDraft :
                x # k => e.recipientDraft[x] = d.recipientDraft[x]
    BY <2>4 DEF With
  <2> HIDE DEF e, row
  <2>6. DraftReferences(e)
    BY <1>0, <2>1, <2>4, <2>5 DEF DraftReferences, DraftsOnly
  <2>7. DraftsEvolve(d, e, old)
    BY <2>4, <2>5 DEF DraftsEvolve
  <2>8. Keys(e) \subseteq old \cup {k}
    BY <1>0, <2>4, <2>5 DEF Keys, DraftsOnly
  <2>9. Preserves(d, e, old, old \cup {k}) /\ Keeps(d, e)
    BY <2>3, <2>4, <2>6, <2>7, <2>8, DraftStatement
  <2>. QED  BY <2>9 DEF e
<1>3. ASSUME NEW active \in BOOLEAN, NEW template \in DOMAIN d.template \cup {NULL}
      PROVE  LET e == InsertGroupDraft(d, k, u, active, template)
             IN  Preserves(d, e, old, old \cup {k}) /\ Keeps(d, e)
  <2> DEFINE row == [master |-> u, active |-> active, template |-> template]
             e == InsertGroupDraft(d, k, u, active, template)
  <2>1. row \in GroupRow /\ row.master = u /\ row.template = template
    BY <1>0, StoreRows DEF GroupRow
  <2>2. With(d.groupDraft, k, row) \in Table(Draft, GroupRow)
    BY <1>0, <2>1, StoreTables, WithTable
  <2>3. e \in Store /\ e = [d EXCEPT !.groupDraft = With(d.groupDraft, k, row)]
    BY <1>0, <2>2 DEF InsertGroupDraft, Store
  <2>4. /\ DraftsOnly(d, e)
        /\ e.groupDraft = With(d.groupDraft, k, row)
        /\ e.templateDraft = d.templateDraft /\ e.recipientDraft = d.recipientDraft
    BY <1>0, <2>3 DEF DraftsOnly, Store
  <2>5. /\ DOMAIN e.groupDraft = DOMAIN d.groupDraft \cup {k}
        /\ e.groupDraft[k] = row
        /\ \A x \in DOMAIN d.groupDraft : x # k => e.groupDraft[x] = d.groupDraft[x]
    BY <2>4 DEF With
  <2> HIDE DEF e, row
  <2>6. DraftReferences(e)
    BY <1>0, <2>1, <2>4, <2>5 DEF DraftReferences, DraftsOnly
  <2>7. DraftsEvolve(d, e, old)
    BY <2>4 DEF DraftsEvolve
  <2>8. Keys(e) \subseteq old \cup {k}
    BY <1>0, <2>4, <2>5 DEF Keys, DraftsOnly
  <2>9. Preserves(d, e, old, old \cup {k}) /\ Keeps(d, e)
    BY <2>3, <2>4, <2>6, <2>7, <2>8, DraftStatement
  <2>. QED  BY <2>9 DEF e
<1>. QED  BY <1>1, <1>2, <1>3

\* The draft is gone afterwards if the user owned it.
LEMMA DeleteDraftStatements ==
    ASSUME NEW d, NEW old, Sound(d, old), NEW u, NEW k
    PROVE  /\ LET e == DeleteTemplateDraft(d, u, k)
              IN  /\ Preserves(d, e, old, old) /\ Keeps(d, e)
                  /\ (k \in DOMAIN d.templateDraft => d.templateDraft[k].master = u)
                        => k \notin DOMAIN e.templateDraft
           /\ LET e == DeleteRecipientDraft(d, u, k)
              IN  /\ Preserves(d, e, old, old) /\ Keeps(d, e)
                  /\ (k \in DOMAIN d.recipientDraft => d.recipientDraft[k].master = u)
                        => k \notin DOMAIN e.recipientDraft
<1>0. d \in Store /\ StoreInvariant(d) /\ DraftReferences(d) /\ Keys(d) \subseteq old
  BY IsStoreDef DEF Sound, StoreInvariant
<1>1. LET e == DeleteTemplateDraft(d, u, k)
      IN  /\ Preserves(d, e, old, old) /\ Keeps(d, e)
          /\ (k \in DOMAIN d.templateDraft => d.templateDraft[k].master = u)
                => k \notin DOMAIN e.templateDraft
  <2> DEFINE t == Without(d.templateDraft, {k} \cap Owned(d.templateDraft, u))
             e == DeleteTemplateDraft(d, u, k)
  <2>1. t \in Table(Draft, TemplateRow)
    BY <1>0, StoreTables, WithoutTable
  <2>2. /\ DOMAIN t = DOMAIN d.templateDraft \ ({k} \cap Owned(d.templateDraft, u))
        /\ \A x \in DOMAIN t : t[x] = d.templateDraft[x]
    BY DEF Without, Restrict
  <2>3. e = [d EXCEPT !.templateDraft = t]
    BY DEF DeleteTemplateDraft
  <2> HIDE DEF t, e
  <2>4. /\ e \in Store /\ DraftsOnly(d, e) /\ e.templateDraft = t
        /\ e.recipientDraft = d.recipientDraft /\ e.groupDraft = d.groupDraft
    BY <1>0, <2>1, <2>3 DEF DraftsOnly, Store
  <2>5. DraftReferences(e)
    BY <1>0, <2>2, <2>4 DEF DraftReferences, DraftsOnly
  <2>6. DraftsEvolve(d, e, old)
    BY <2>2, <2>4 DEF DraftsEvolve
  <2>7. Keys(e) \subseteq old
    BY <1>0, <2>2, <2>4 DEF Keys, DraftsOnly
  <2>8. Preserves(d, e, old, old) /\ Keeps(d, e)
    BY <2>4, <2>5, <2>6, <2>7, DraftStatement
  <2>9. (k \in DOMAIN d.templateDraft => d.templateDraft[k].master = u)
            => k \notin DOMAIN e.templateDraft
    BY <2>2, <2>4 DEF Owned
  <2>. QED  BY <2>8, <2>9 DEF e
<1>2. LET e == DeleteRecipientDraft(d, u, k)
      IN  /\ Preserves(d, e, old, old) /\ Keeps(d, e)
          /\ (k \in DOMAIN d.recipientDraft => d.recipientDraft[k].master = u)
                => k \notin DOMAIN e.recipientDraft
  <2> DEFINE t == Without(d.recipientDraft, {k} \cap Owned(d.recipientDraft, u))
             e == DeleteRecipientDraft(d, u, k)
  <2>1. t \in Table(Draft, RecipientRow)
    BY <1>0, StoreTables, WithoutTable
  <2>2. /\ DOMAIN t = DOMAIN d.recipientDraft \ ({k} \cap Owned(d.recipientDraft, u))
        /\ \A x \in DOMAIN t : t[x] = d.recipientDraft[x]
    BY DEF Without, Restrict
  <2>3. e = [d EXCEPT !.recipientDraft = t]
    BY DEF DeleteRecipientDraft
  <2> HIDE DEF t, e
  <2>4. /\ e \in Store /\ DraftsOnly(d, e) /\ e.recipientDraft = t
        /\ e.templateDraft = d.templateDraft /\ e.groupDraft = d.groupDraft
    BY <1>0, <2>1, <2>3 DEF DraftsOnly, Store
  <2>5. DraftReferences(e)
    BY <1>0, <2>2, <2>4 DEF DraftReferences, DraftsOnly
  <2>6. DraftsEvolve(d, e, old)
    BY <2>2, <2>4 DEF DraftsEvolve
  <2>7. Keys(e) \subseteq old
    BY <1>0, <2>2, <2>4 DEF Keys, DraftsOnly
  <2>8. Preserves(d, e, old, old) /\ Keeps(d, e)
    BY <2>4, <2>5, <2>6, <2>7, DraftStatement
  <2>9. (k \in DOMAIN d.recipientDraft => d.recipientDraft[k].master = u)
            => k \notin DOMAIN e.recipientDraft
    BY <2>2, <2>4 DEF Owned
  <2>. QED  BY <2>8, <2>9 DEF e
<1>. QED  BY <1>1, <1>2

\* The two statements that take users or templates away.
LEMMA DeleteTemplateStatement ==
    ASSUME NEW d, NEW old, Sound(d, old), NEW t
    PROVE  LET e == DeleteTemplate(d, t)
           IN  /\ Preserves(d, e, old, old)
               /\ e.user = d.user /\ DOMAIN e.template = DOMAIN d.template \ {t}
<1> DEFINE e == DeleteTemplate(d, t)
<1>0. d \in Store /\ StoreInvariant(d) /\ DraftReferences(d) /\ Keys(d) \subseteq old
  BY IsStoreDef DEF Sound, StoreInvariant
<1>1. StoreInvariant(e) /\ Evolves(d, e, old) /\ Keys(e) \subseteq old
  BY <1>0, DeleteTemplatePreserves
<1>2. /\ e.user = d.user /\ DOMAIN e.template = DOMAIN d.template \ {t}
      /\ e.templateDraft = d.templateDraft /\ e.recipientDraft = d.recipientDraft
      /\ e.groupDraft = UnsetTemplates(d.groupDraft, {t})
  BY <1>0 DEF DeleteTemplate, Store, Without, Restrict
<1> HIDE DEF e
<1>3. /\ DOMAIN e.groupDraft = DOMAIN d.groupDraft
      /\ \A k \in DOMAIN e.groupDraft :
            /\ e.groupDraft[k].master = d.groupDraft[k].master
            /\ e.groupDraft[k].template = IF d.groupDraft[k].template = t THEN NULL
                                          ELSE d.groupDraft[k].template
  <2>1. /\ DOMAIN e.groupDraft = DOMAIN d.groupDraft
        /\ \A k \in DOMAIN e.groupDraft :
              e.groupDraft[k] = [d.groupDraft[k] EXCEPT !.template = IF @ \in {t} THEN NULL
                                                                     ELSE @]
    BY <1>2 DEF UnsetTemplates
  <2>2. \A k \in DOMAIN d.groupDraft : d.groupDraft[k] \in GroupRow
    BY <1>0, StoreRows
  <2>. QED  BY <2>1, <2>2 DEF GroupRow
<1>4. DraftReferences(e)
  BY <1>0, <1>2, <1>3 DEF DraftReferences
<1>5. DraftsEvolve(d, e, old)
  BY <1>2 DEF DraftsEvolve
<1>. QED  BY <1>1, <1>2, <1>4, <1>5 DEF Preserves, Sound, e

LEMMA DeleteUserStatement ==
    ASSUME NEW d, NEW old, Sound(d, old), NEW u
    PROVE  LET e == DeleteUser(d, u)
           IN  /\ Preserves(d, e, old, old)
               /\ DOMAIN e.user = DOMAIN d.user \ {u}
               /\ DOMAIN e.template = DOMAIN d.template \ Owned(d.template, u)
<1> DEFINE T == Owned(d.template, u)
           e == DeleteUser(d, u)
<1>0. d \in Store /\ StoreInvariant(d) /\ DraftReferences(d) /\ Keys(d) \subseteq old
  BY IsStoreDef DEF Sound, StoreInvariant
<1>1. StoreInvariant(e) /\ Evolves(d, e, old) /\ Keys(e) \subseteq old
  BY <1>0, DeleteUserPreserves
<1>2. /\ e.user = Without(d.user, {u})
      /\ e.template = Without(d.template, T)
      /\ e.templateDraft = Without(d.templateDraft, Owned(d.templateDraft, u))
      /\ e.recipientDraft = Without(d.recipientDraft, Owned(d.recipientDraft, u))
      /\ e.groupDraft = UnsetTemplates(Without(d.groupDraft, Owned(d.groupDraft, u)), T)
  BY <1>0, DeleteUserFields
<1> HIDE DEF e, T
<1>3. /\ DOMAIN e.user = DOMAIN d.user \ {u}
      /\ DOMAIN e.template = DOMAIN d.template \ T
      /\ DOMAIN e.templateDraft = DOMAIN d.templateDraft \ Owned(d.templateDraft, u)
      /\ \A k \in DOMAIN e.templateDraft : e.templateDraft[k] = d.templateDraft[k]
      /\ DOMAIN e.recipientDraft = DOMAIN d.recipientDraft \ Owned(d.recipientDraft, u)
      /\ \A k \in DOMAIN e.recipientDraft : e.recipientDraft[k] = d.recipientDraft[k]
  BY <1>2 DEF Without, Restrict
<1>4. /\ DOMAIN e.groupDraft = DOMAIN d.groupDraft \ Owned(d.groupDraft, u)
      /\ \A k \in DOMAIN e.groupDraft :
            /\ e.groupDraft[k].master = d.groupDraft[k].master
            /\ e.groupDraft[k].template = IF d.groupDraft[k].template \in T THEN NULL
                                          ELSE d.groupDraft[k].template
  <2>1. /\ DOMAIN e.groupDraft = DOMAIN d.groupDraft \ Owned(d.groupDraft, u)
        /\ \A k \in DOMAIN e.groupDraft :
              e.groupDraft[k] = [d.groupDraft[k] EXCEPT !.template = IF @ \in T THEN NULL
                                                                     ELSE @]
    BY <1>2 DEF UnsetTemplates, Without, Restrict
  <2>2. \A k \in DOMAIN d.groupDraft : d.groupDraft[k] \in GroupRow
    BY <1>0, StoreRows
  <2>. QED  BY <2>1, <2>2 DEF GroupRow
<1>5. DraftReferences(e)
  BY <1>0, <1>3, <1>4 DEF DraftReferences, Owned
<1>6. DraftsEvolve(d, e, old)
  BY <1>3 DEF DraftsEvolve
<1>. QED  BY <1>1, <1>3, <1>5, <1>6 DEF Preserves, Sound, e, T

-----------------------------------------------------------------------------
(* Types.                                                                  *)

AnyId == Template \cup Recipient \cup Draft \cup Group \cup {NULL}

AnyBody == TemplateData \cup RecipientData \cup GroupData \cup {NULL}

Request ==
    {q \in [op : Ops, user : User \cup {NULL}, arg : AnyId,
            recipient : Recipient \cup {NULL}, body : AnyBody] : IsRequest(q)}

CallState ==
    [pc : PC, req : Request, found : BOOLEAN, row : PendingRow \cup {NULL},
     resp : Response]

LEMMA RequestDef ==
    ASSUME NEW q
    PROVE  IsRequest(q) <=> q \in Request
<1> SUFFICES ASSUME IsRequest(q) PROVE q \in Request
  BY DEF Request
<1>1. q.arg \in AnyId
  BY DEF IsRequest, IdsOf, AnyId
<1>2. q.recipient \in Recipient \cup {NULL}
  BY DEF IsRequest
<1>3. q.body \in AnyBody
  BY DEF IsRequest, BodiesOf, AnyBody
<1>. QED  BY <1>1, <1>2, <1>3 DEF IsRequest, Request

\* What TypeOK says of the calls.
CallsTyped(f) ==
    /\ f = [c \in Call |-> f[c]]
    /\ \A c \in Call :
        /\ f[c] = [pc |-> f[c].pc, req |-> f[c].req, found |-> f[c].found,
                   row |-> f[c].row, resp |-> f[c].resp]
        /\ f[c].pc \in PC
        /\ IsRequest(f[c].req)
        /\ f[c].found \in BOOLEAN
        /\ f[c].row \in PendingRow \cup {NULL}
        /\ f[c].resp \in Response

LEMMA CallsDef ==
    ASSUME NEW f
    PROVE  f \in [Call -> CallState] <=> CallsTyped(f)
<1>1. ASSUME NEW t
      PROVE  t \in CallState
               <=> /\ t = [pc |-> t.pc, req |-> t.req, found |-> t.found, row |-> t.row,
                           resp |-> t.resp]
                   /\ t.pc \in PC /\ IsRequest(t.req) /\ t.found \in BOOLEAN
                   /\ t.row \in PendingRow \cup {NULL} /\ t.resp \in Response
  <2>1. IsRequest(t.req) <=> t.req \in Request
    BY RequestDef
  <2>. QED  BY <2>1 DEF CallState
<1>2. f \in [Call -> CallState]
        <=> f = [c \in Call |-> f[c]] /\ \A c \in Call : f[c] \in CallState
  OBVIOUS
<1>. QED  BY <1>1, <1>2 DEF CallsTyped

LEMMA TypeDef ==
    TypeOK <=> /\ IsStore(db)
               /\ call \in [Call -> CallState]
               /\ log \in Seq(Call \cup User)
               /\ Keys(db) \subseteq issued
<1>1. call \in [Call -> CallState] <=> CallsTyped(call)
  BY CallsDef
<1>. QED  BY <1>1 DEF TypeOK, CallsTyped

-----------------------------------------------------------------------------
(* The invariant.                                                          *)

\* What an open confirmation holds can be committed, and its DELETE finds the
\* draft unless another one did.
Held(k) ==
    LET q == call[k].req
        row == call[k].row
    IN  /\ q.op \in ConfirmOps
        /\ row.master = q.user /\ q.user \in DOMAIN db.user
        /\ q.op = "TemplateConfirmCreation" =>
            /\ row \in TemplateRow /\ q.arg \in issued
            /\ q.arg \in DOMAIN db.templateDraft => db.templateDraft[q.arg].master = q.user
        /\ q.op = "RecipientConfirmCreation" =>
            /\ row \in RecipientRow /\ q.arg \in issued
            /\ q.arg \in DOMAIN db.recipientDraft => db.recipientDraft[q.arg].master = q.user
        /\ q.op = "GroupConfirmCreation" =>
            /\ row \in GroupRow /\ row.template \in DOMAIN db.template \cup {NULL}

\* What SELECT EXISTS has found is gone or still the user's.
GroupSafe(k) ==
    LET g == call[k].req.arg
    IN  g \in issued /\ (g \in DOMAIN db.group => db.group[g].master = call[k].req.user)

RecipientSafe(k) ==
    LET r == call[k].req.recipient
    IN  /\ r \in issued
        /\ r \in DOMAIN db.recipient => db.recipient[r].master = call[k].req.user

CallSafe(k) ==
    /\ call[k].pc = "statement" => ~MissingBody(call[k].req)
    /\ call[k].pc = "commit" => Held(k)
    /\ (call[k].pc = "recipient" /\ call[k].found) \/ call[k].pc = "write" => GroupSafe(k)
    /\ call[k].pc = "write" => RecipientSafe(k)
    /\ call[k].pc = "list" => call[k].req.op = "GroupGetRecipients"

\* The draft of a confirmation is gone, and its id is not fresh.
DraftGone(k) ==
    LET q == call[k].req
    IN  /\ q.op = "TemplateConfirmCreation"
            => q.arg \in issued /\ q.arg \notin DOMAIN db.templateDraft
        /\ q.op = "RecipientConfirmCreation"
            => q.arg \in issued /\ q.arg \notin DOMAIN db.recipientDraft

Logged == {log[i] : i \in DOMAIN log}

\* A call in the log is over, and its draft is gone.
Confirmed(k) == k \in Logged => call[k].pc \in {"reply", "done"} /\ DraftGone(k)

IInv ==
    /\ TypeOK
    /\ Sound(db, issued)
    /\ \A k \in Call : CallSafe(k) /\ Confirmed(k)

-----------------------------------------------------------------------------
(* What a step leaves alone.                                               *)

\* The rows that an open confirmation has locked are still there.
Undisturbed(k) ==
    call[k].pc = "commit" =>
        /\ call[k].req.user \in DOMAIN db'.user
        /\ call[k].req.op = "GroupConfirmCreation"
            => call[k].row.template \in DOMAIN db'.template \cup {NULL}

LEMMA KeepsUndisturbed ==
    ASSUME IInv, Keeps(db, db')
    PROVE  \A k \in Call : Undisturbed(k)
  BY DEF IInv, CallSafe, Held, Keeps, Undisturbed

LEMMA StillSafe ==
    ASSUME IInv, Preserves(db, db', issued, issued'), issued \subseteq issued',
           NEW k \in Call, call'[k] = call[k], Undisturbed(k)
    PROVE  CallSafe(k)'
<1>0. CallSafe(k) /\ Evolves(db, db', issued) /\ DraftsEvolve(db, db', issued)
  BY DEF IInv, Preserves
<1>1. ASSUME Held(k), call[k].pc = "commit" PROVE Held(k)'
  BY <1>0, <1>1 DEF Held, Undisturbed, DraftsEvolve
<1>2. ASSUME GroupSafe(k) PROVE GroupSafe(k)'
  BY <1>0, <1>2 DEF GroupSafe, Evolves
<1>3. ASSUME RecipientSafe(k) PROVE RecipientSafe(k)'
  BY <1>0, <1>3 DEF RecipientSafe, Evolves
<1>. QED  BY <1>0, <1>1, <1>2, <1>3 DEF CallSafe

LEMMA StillConfirmed ==
    ASSUME IInv, Preserves(db, db', issued, issued'), issued \subseteq issued',
           NEW k \in Call, call'[k].req = call[k].req,
           call[k].pc \in {"reply", "done"} => call'[k].pc \in {"reply", "done"},
           k \in Logged' => k \in Logged
    PROVE  Confirmed(k)'
  BY DEF IInv, Confirmed, DraftGone, Preserves, DraftsEvolve

LEMMA LogAppend ==
    ASSUME IInv, NEW x \in Call \cup User, log' = Append(log, x)
    PROVE  log' \in Seq(Call \cup User) /\ Logged' = Logged \cup {x}
<1>1. log \in Seq(Call \cup User)
  BY DEF IInv, TypeOK
<1>2. /\ log' \in Seq(Call \cup User)
      /\ DOMAIN log' = DOMAIN log \cup {Len(log) + 1}
      /\ \A i \in DOMAIN log : log'[i] = log[i]
      /\ log'[Len(log) + 1] = x
  BY <1>1
<1>. QED  BY <1>2 DEF Logged

\* A step of call c.
LEMMA StepPreserves ==
    ASSUME IInv, NEW c \in Call, NEW s \in CallState, call' = [call EXCEPT ![c] = s],
           Preserves(db, db', issued, issued'), issued \subseteq issued',
           \A k \in Call : k # c => Undisturbed(k),
           log' = log \/ log' = Append(log, c),
           CallSafe(c)', Confirmed(c)'
    PROVE  IInv'
<1>1. call' \in [Call -> CallState] /\ \A k \in Call : k # c => call'[k] = call[k]
  BY TypeDef DEF IInv
<1>2. log' \in Seq(Call \cup User) /\ \A k \in Call : k # c /\ k \in Logged' => k \in Logged
  BY LogAppend, TypeDef DEF IInv, Logged
<1>3. Sound(db', issued') /\ IsStore(db') /\ Keys(db') \subseteq issued'
  BY DEF Preserves, Sound, StoreInvariant
<1>4. TypeOK'
  <2>1. CallsTyped(call')
    BY <1>1, CallsDef
  <2>. QED  BY <1>2, <1>3, <2>1 DEF TypeOK, CallsTyped
<1>5. \A k \in Call : CallSafe(k)'
  BY <1>1, StillSafe
<1>6. \A k \in Call : Confirmed(k)'
  BY <1>1, <1>2, StillConfirmed
<1>. QED  BY <1>3, <1>4, <1>5, <1>6 DEF IInv

\* Nothing is written.
LEMMA NothingWritten ==
    ASSUME IInv, UNCHANGED db, issued \subseteq issued'
    PROVE  /\ Preserves(db, db', issued, issued')
           /\ \A k \in Call : Undisturbed(k)
<1>1. Preserves(db, db', issued, issued')
  <2>1. \A t \in DOMAIN db.recipient : t \in DOMAIN db'.recipient
    OBVIOUS
  <2>2. Evolves(db, db', issued) /\ DraftsEvolve(db, db', issued)
    BY DEF Evolves, DraftsEvolve
  <2>. QED  BY <2>2 DEF IInv, Preserves, Sound
<1>2. Keeps(db, db')
  BY DEF Keeps
<1>. QED  BY <1>1, <1>2, KeepsUndisturbed

Over == {"reply", "done"}

LEMMA AnswerPreserves ==
    ASSUME IInv, NEW c \in Call, NEW r \in Response, Answer(c, r),
           call[c].pc \notin Over,
           Preserves(db, db', issued, issued'), issued \subseteq issued',
           \A k \in Call : k # c => Undisturbed(k),
           r = "Ok" => DraftGone(c)'
    PROVE  IInv'
<1> DEFINE s == [call[c] EXCEPT !.pc = "reply", !.resp = r]
<1>1. call \in [Call -> CallState] /\ call[c] \in CallState
  BY TypeDef DEF IInv
<1>2. s \in CallState /\ s.pc = "reply" /\ s.req = call[c].req
  BY <1>1 DEF CallState, PC
<1>3. call' = [call EXCEPT ![c] = s]
  BY DEF Answer
<1>4. call'[c] = s
  BY <1>1, <1>3
<1> HIDE DEF s
<1>5. CallSafe(c)'
  BY <1>2, <1>4 DEF CallSafe
<1>6. log' = log \/ (r = "Ok" /\ log' = Append(log, c))
  BY DEF Answer
<1>7. Confirmed(c)'
  <2>1. CASE r = "Ok"
    BY <1>2, <1>4, <2>1 DEF Confirmed
  <2>2. CASE r # "Ok"
    <3>1. log' = log
      BY <1>6, <2>2
    <3>2. c \notin Logged
      BY DEF IInv, Confirmed, Over
    <3>3. c \notin Logged'
      BY <3>1, <3>2 DEF Logged
    <3>. QED  BY <3>3 DEF Confirmed
  <2>. QED  BY <2>1, <2>2
<1>. QED  BY <1>2, <1>3, <1>5, <1>6, <1>7, StepPreserves

LEMMA AnswersKeepRequests ==
    ASSUME IInv, NEW c \in Call, NEW r, Answer(c, r)
    PROVE  call'[c].req = call[c].req
<1>1. call[c] \in CallState /\ call \in [Call -> CallState]
  BY TypeDef DEF IInv
<1>2. call'[c] = [call[c] EXCEPT !.pc = "reply", !.resp = r]
  BY <1>1 DEF Answer
<1>. QED  BY <1>1, <1>2 DEF CallState

LEMMA RefusePreserves ==
    ASSUME IInv, NEW c \in Call, NEW r \in Response, Refuse(c, r), call[c].pc \notin Over,
           r = "Ok" => call[c].req.op \notin ConfirmOps
    PROVE  IInv'
<1>1. Answer(c, r) /\ UNCHANGED <<db, issued>>
  BY DEF Refuse
<1>2. call'[c].req = call[c].req
  BY <1>1, AnswersKeepRequests
<1>3. r = "Ok" => DraftGone(c)'
  BY <1>2 DEF DraftGone, ConfirmOps
<1>. QED  BY <1>1, <1>3, NothingWritten, AnswerPreserves

\* The call goes on, or ends, without writing and without an answer.
LEMMA MovePreserves ==
    ASSUME IInv, NEW c \in Call, NEW s \in CallState, call' = [call EXCEPT ![c] = s],
           UNCHANGED <<db, log>>, issued \subseteq issued', CallSafe(c)',
           call[c].pc \in Over => s.pc \in Over /\ s.req = call[c].req
    PROVE  IInv'
<1>1. call'[c] = s
  BY TypeDef DEF IInv
<1>2. Confirmed(c)'
  <2>1. CASE call[c].pc \in Over
    BY <1>1, <2>1, NothingWritten, StillConfirmed DEF Over, Logged
  <2>2. CASE call[c].pc \notin Over
    BY <2>2 DEF IInv, Confirmed, Over, Logged
  <2>. QED  BY <2>1, <2>2
<1>. QED  BY <1>2, NothingWritten, StepPreserves

-----------------------------------------------------------------------------
(* The steps.                                                              *)

LEMMA CallUpdate ==
    ASSUME IInv, NEW c \in Call
    PROVE  /\ call[c] \in CallState
           /\ \A p \in PC : LET s == [call[c] EXCEPT !.pc = p]
                            IN  s \in CallState /\ s.pc = p /\ s.req = call[c].req
                                /\ s.found = call[c].found /\ s.row = call[c].row
           /\ \A f : (call' = [call EXCEPT ![c] = f]) => call'[c] = f
  BY TypeDef DEF IInv, CallState

LEMMA NewIdIsNew ==
    ASSUME NEW S, S \ issued # {}
    PROVE  NewId(S) \in S \ issued
  BY DEF NewId

LEMMA EntryPreserves ==
    ASSUME IInv, NEW c \in Call,
           Receive(c) \/ BadArgument(c) \/ BadBody(c) \/ VerifyJWT(c)
    PROVE  IInv'
<1>1. ASSUME Receive(c) PROVE IInv'
  <2>1. PICK q \in Requests : /\ call' = [call EXCEPT ![c].pc = "verify", ![c].req = q]
                              /\ issued \subseteq issued'
    BY <1>1 DEF Receive
  <2> DEFINE s == [call[c] EXCEPT !.pc = "verify", !.req = q]
  <2>2. q \in Request
    BY CatalogRequestsAssumption, RequestDef
  <2>3. s \in CallState /\ s.pc = "verify"
    <3>1. call[c] \in CallState
      BY CallUpdate
    <3>2. "verify" \in PC
      BY DEF PC
    <3>. QED  BY <2>2, <3>1, <3>2 DEF CallState
  <2>4. call' = [call EXCEPT ![c] = s]
    BY <2>1
  <2> HIDE DEF s
  <2>5. call'[c] = s
    BY <2>4, CallUpdate
  <2>6. CallSafe(c)'
    BY <2>3, <2>5 DEF CallSafe
  <2>7. call[c].pc \notin Over
    BY <1>1 DEF Receive, Over
  <2>. QED  BY <1>1, <2>1, <2>3, <2>4, <2>6, <2>7, MovePreserves DEF Receive
<1>2. ASSUME BadArgument(c) \/ BadBody(c) PROVE IInv'
  <2>1. call[c].pc \notin Over
    BY <1>2 DEF BadArgument, BadBody, Over
  <2>2. \E r \in Response \ {"Ok"} : Refuse(c, r)
    BY <1>2 DEF BadArgument, BadBody, Response
  <2>. QED  BY <2>1, <2>2, RefusePreserves
<1>3. ASSUME VerifyJWT(c) PROVE IInv'
  <2>0. call[c].pc \notin Over
    BY <1>3 DEF VerifyJWT, Over
  <2>1. CASE Refuse(c, "Unauthorized") \/ Refuse(c, "ServerError")
    BY <2>0, <2>1, RefusePreserves DEF Response
  <2>2. CASE call' = [call EXCEPT ![c].pc = "statement"] /\ UNCHANGED <<db, issued, log>>
    <3> DEFINE s == [call[c] EXCEPT !.pc = "statement"]
    <3>1. s \in CallState /\ s.pc = "statement" /\ s.req = call[c].req
      BY CallUpdate DEF PC
    <3>2. call' = [call EXCEPT ![c] = s]
      BY <2>2
    <3> HIDE DEF s
    <3>3. call'[c] = s
      BY <3>2, CallUpdate
    <3>4. CallSafe(c)'
      BY <1>3, <3>1, <3>3 DEF CallSafe, VerifyJWT, MissingBody
    <3>. QED  BY <2>0, <2>2, <3>1, <3>2, <3>4, MovePreserves
  <2>. QED  BY <1>3, <2>1, <2>2 DEF VerifyJWT
<1>. QED  BY <1>1, <1>2, <1>3

LEMMA EndPreserves ==
    ASSUME IInv, NEW c \in Call, Reply(c) \/ Abort(c)
    PROVE  IInv'
<1> DEFINE s == IF Reply(c) THEN [call[c] EXCEPT !.pc = "done"]
                ELSE [call[c] EXCEPT !.pc = "done", !.resp = "Aborted"]
<1>1. call[c] \in CallState
  BY CallUpdate
<1>2. s \in CallState /\ s.pc = "done" /\ s.req = call[c].req
  BY <1>1 DEF CallState, PC, Response
<1>3. call' = [call EXCEPT ![c] = s] /\ UNCHANGED <<db, issued, log>>
  BY DEF Reply, Abort
<1> HIDE DEF s
<1>4. call'[c] = s
  BY <1>3, CallUpdate
<1>5. CallSafe(c)'
  BY <1>2, <1>4 DEF CallSafe
<1>. QED  BY <1>2, <1>3, <1>5, MovePreserves DEF Over

\* Reads, and the first statement of GroupGetRecipients.
LEMMA ReadPreserves ==
    ASSUME IInv, NEW c \in Call,
           \/ TemplateGetById(c) \/ TemplateGetAll(c)
           \/ RecipientGetById(c) \/ RecipientGetAll(c)
           \/ GroupGetById(c) \/ GroupGetActive(c) \/ GroupGetAll(c)
           \/ GroupGetRecipients(c) \/ ListRecipients(c)
    PROVE  IInv'
<1>1. call[c].pc \notin Over
  BY DEF TemplateGetById, TemplateGetAll, RecipientGetById, RecipientGetAll, GroupGetById,
         GroupGetActive, GroupGetAll, GroupGetRecipients, ListRecipients, At, Over
<1>2. CASE /\ call[c].pc = "statement" /\ call[c].req.op \notin ConfirmOps
           /\ Refuse(c, "Ok") \/ Refuse(c, "NotFound")
  BY <1>1, <1>2, RefusePreserves DEF Response
<1>3. CASE /\ call' = [call EXCEPT ![c].pc = "list"] /\ UNCHANGED <<db, issued, log>>
           /\ call[c].req.op = "GroupGetRecipients"
  <2> DEFINE s == [call[c] EXCEPT !.pc = "list"]
  <2>1. s \in CallState /\ s.pc = "list" /\ s.req = call[c].req
    BY CallUpdate DEF PC
  <2>2. call' = [call EXCEPT ![c] = s]
    BY <1>3
  <2> HIDE DEF s
  <2>3. call'[c] = s
    BY <2>2, CallUpdate
  <2>4. CallSafe(c)'
    BY <1>3, <2>1, <2>3 DEF CallSafe
  <2>. QED  BY <1>1, <1>3, <2>1, <2>2, <2>4, MovePreserves
<1>4. CASE ListRecipients(c)
  <2>1. /\ Refuse(c, "Ok") \/ Refuse(c, "ServerError")
        /\ call[c].req.op \notin ConfirmOps
    BY <1>4 DEF ListRecipients, IInv, CallSafe, ConfirmOps
  <2>. QED  BY <1>1, <2>1, RefusePreserves DEF Response
<1>. QED
  BY <1>2, <1>3, <1>4
  DEF TemplateGetById, TemplateGetAll, RecipientGetById, RecipientGetAll, GroupGetById,
      GroupGetActive, GroupGetAll, GroupGetRecipients, At, ConfirmOps

\* A statement of another operation than a confirmation, that ends the call.
LEMMA WritePreserves ==
    ASSUME IInv, NEW c \in Call, Answer(c, "Ok"), call[c].pc \in {"statement", "write"},
           call[c].req.op \notin ConfirmOps,
           Preserves(db, db', issued, issued'), issued \subseteq issued',
           Keeps(db, db') \/ \A k \in Call : k # c => Undisturbed(k)
    PROVE  IInv'
<1>1. call'[c].req = call[c].req
  BY AnswersKeepRequests
<1>2. DraftGone(c)'
  BY <1>1 DEF DraftGone, ConfirmOps
<1>. QED  BY <1>2, KeepsUndisturbed, AnswerPreserves DEF Response, Over

LEMMA WriteOr404Preserves ==
    ASSUME IInv, NEW c \in Call, NEW ok \in BOOLEAN, NEW d, WriteOr404(c, ok, d),
           call[c].pc \in {"statement", "write"}, call[c].req.op \notin ConfirmOps,
           ok => Preserves(db, d, issued, issued) /\ Keeps(db, d)
    PROVE  IInv'
<1>1. CASE ok
  <2>1. db' = d /\ Answer(c, "Ok") /\ UNCHANGED issued
    BY <1>1 DEF WriteOr404
  <2>. QED  BY <1>1, <2>1, WritePreserves
<1>2. CASE ~ok
  <2>1. Refuse(c, "NotFound")
    BY <1>2 DEF WriteOr404
  <2>. QED  BY <2>1, RefusePreserves DEF Response, Over
<1>. QED  BY <1>1, <1>2

-----------------------------------------------------------------------------
(* Templates.                                                              *)

\* The body of a call that is about to run its statement.
LEMMA BodyType ==
    ASSUME IInv, NEW c \in Call, call[c].pc = "statement"
    PROVE  /\ call[c].req.op \in {"TemplateCreate", "TemplateModify"}
                => call[c].req.body.text \in Text \cup {NULL}
           /\ call[c].req.op \in {"RecipientCreate", "RecipientModify"}
                => call[c].req.body.chat \in Chat \cup {NULL}
           /\ call[c].req.op \in {"GroupCreate", "GroupModifyGroup"}
                => call[c].req.body.active \in BOOLEAN
<1>1. IsRequest(call[c].req) /\ ~MissingBody(call[c].req)
  BY DEF IInv, TypeOK, CallSafe
<1>2. NeedsBody(call[c].req.op) => call[c].req.body \in BodiesOf(call[c].req.op)
  BY <1>1 DEF IsRequest, MissingBody
<1>. QED
  BY <1>2 DEF NeedsBody, CreateOps, ModifyOps, BodiesOf, TemplateData, RecipientData, GroupData

LEMMA TemplateCreatePreserves ==
    ASSUME IInv, NEW c \in Call, TemplateCreate(c)
    PROVE  IInv'
<1>1. call[c].pc = "statement" /\ call[c].req.op \notin ConfirmOps /\ call[c].pc \notin Over
  BY DEF TemplateCreate, At, ConfirmOps, Over
<1>2. CASE Refuse(c, "ServerError")
  BY <1>1, <1>2, RefusePreserves DEF Response
<1>3. CASE call[c].req.user \in DOMAIN db.user
  <2> DEFINE k == NewId(Draft)
             e == InsertTemplateDraft(db, k, call[c].req.user, call[c].req.body.text)
  <2>1. k \in Draft \ issued
    BY <1>3, NewIdIsNew DEF TemplateCreate
  <2>2. call[c].req.body.text \in Text \cup {NULL}
    BY <1>1, BodyType DEF TemplateCreate, At
  <2> HIDE DEF k
  <2>3. Preserves(db, e, issued, issued \cup {k}) /\ Keeps(db, e)
    BY <1>3, <2>1, <2>2, InsertDraftStatements DEF IInv
  <2>4. db' = e /\ issued' = issued \cup {k} /\ Answer(c, "Ok")
    BY <1>3 DEF TemplateCreate, k
  <2> HIDE DEF e
  <2>. QED  BY <1>1, <2>3, <2>4, WritePreserves
<1>. QED  BY <1>2, <1>3 DEF TemplateCreate

LEMMA TemplateModifyPreserves ==
    ASSUME IInv, NEW c \in Call, TemplateModify(c)
    PROVE  IInv'
<1> DEFINE t == call[c].req.arg
           ok == t \in Owned(db.template, call[c].req.user)
           d == UpdateTemplate(db, t, call[c].req.body.text)
<1>1. call[c].pc = "statement" /\ call[c].req.op \notin ConfirmOps
  BY DEF TemplateModify, At, ConfirmOps
<1>2. call[c].req.body.text \in Text \cup {NULL}
  BY BodyType DEF TemplateModify, At
<1>3. ok => Preserves(db, d, issued, issued) /\ Keeps(db, d)
  BY <1>2, TemplateStatements DEF IInv, Owned
<1>4. WriteOr404(c, ok, d) /\ ok \in BOOLEAN
  BY DEF TemplateModify
<1> HIDE DEF ok, d
<1>. QED  BY <1>1, <1>3, <1>4, WriteOr404Preserves

\* The template of a group that is being confirmed is locked.
LEMMA TemplateDeletePreserves ==
    ASSUME IInv, NEW c \in Call, TemplateDelete(c)
    PROVE  IInv'
<1> DEFINE t == call[c].req.arg
           e == DeleteTemplate(db, t)
<1>1. call[c].pc = "statement" /\ call[c].req.op \notin ConfirmOps /\ call[c].pc \notin Over
  BY DEF TemplateDelete, At, ConfirmOps, Over
<1>2. CASE Refuse(c, "NotFound")
  BY <1>1, <1>2, RefusePreserves DEF Response
<1>3. CASE db' = e /\ Answer(c, "Ok") /\ UNCHANGED issued
  <2>1. /\ Preserves(db, e, issued, issued)
        /\ e.user = db.user /\ DOMAIN e.template = DOMAIN db.template \ {t}
    BY DeleteTemplateStatement DEF IInv
  <2> HIDE DEF e
  <2>2. ASSUME NEW k \in Call PROVE Undisturbed(k)
    <3> SUFFICES ASSUME call[k].pc = "commit" PROVE Undisturbed(k)
      BY DEF Undisturbed
    <3>1. Held(k)
      BY DEF IInv, CallSafe
    <3>2. call[k].req.op = "GroupConfirmCreation" => call[k].row.template # t
      BY DEF TemplateDelete, TemplateLocked
    <3>. QED  BY <1>3, <2>1, <3>1, <3>2 DEF Held, Undisturbed
  <2>. QED  BY <1>1, <1>3, <2>1, <2>2, WritePreserves
<1>. QED  BY <1>2, <1>3 DEF TemplateDelete, WriteOr404

-----------------------------------------------------------------------------
(* Recipients.                                                             *)

LEMMA RecipientCreatePreserves ==
    ASSUME IInv, NEW c \in Call, RecipientCreate(c)
    PROVE  IInv'
<1>1. call[c].pc = "statement" /\ call[c].req.op \notin ConfirmOps /\ call[c].pc \notin Over
  BY DEF RecipientCreate, At, ConfirmOps, Over
<1>2. CASE Refuse(c, "ServerError")
  BY <1>1, <1>2, RefusePreserves DEF Response
<1>3. CASE call[c].req.user \in DOMAIN db.user
  <2> DEFINE k == NewId(Draft)
             e == InsertRecipientDraft(db, k, call[c].req.user, call[c].req.body.chat)
  <2>1. k \in Draft \ issued
    BY <1>3, NewIdIsNew DEF RecipientCreate
  <2>2. call[c].req.body.chat \in Chat \cup {NULL}
    BY <1>1, BodyType DEF RecipientCreate, At
  <2> HIDE DEF k
  <2>3. Preserves(db, e, issued, issued \cup {k}) /\ Keeps(db, e)
    BY <1>3, <2>1, <2>2, InsertDraftStatements DEF IInv
  <2>4. db' = e /\ issued' = issued \cup {k} /\ Answer(c, "Ok")
    BY <1>3 DEF RecipientCreate, k
  <2> HIDE DEF e
  <2>. QED  BY <1>1, <2>3, <2>4, WritePreserves
<1>. QED  BY <1>2, <1>3 DEF RecipientCreate

LEMMA RecipientModifyPreserves ==
    ASSUME IInv, NEW c \in Call, RecipientModify(c)
    PROVE  IInv'
<1> DEFINE r == call[c].req.arg
           ok == r \in Owned(db.recipient, call[c].req.user)
           d == UpdateRecipient(db, r, call[c].req.body.chat)
<1>1. call[c].pc = "statement" /\ call[c].req.op \notin ConfirmOps
  BY DEF RecipientModify, At, ConfirmOps
<1>2. call[c].req.body.chat \in Chat \cup {NULL}
  BY BodyType DEF RecipientModify, At
<1>3. ok => Preserves(db, d, issued, issued) /\ Keeps(db, d)
  BY <1>2, RecipientStatements DEF IInv, Owned
<1>4. WriteOr404(c, ok, d) /\ ok \in BOOLEAN
  BY DEF RecipientModify
<1> HIDE DEF ok, d
<1>. QED  BY <1>1, <1>3, <1>4, WriteOr404Preserves

LEMMA RecipientDeletePreserves ==
    ASSUME IInv, NEW c \in Call, RecipientDelete(c)
    PROVE  IInv'
<1> DEFINE r == call[c].req.arg
           ok == r \in Owned(db.recipient, call[c].req.user)
           d == DeleteRecipient(db, r)
<1>1. call[c].pc = "statement" /\ call[c].req.op \notin ConfirmOps
  BY DEF RecipientDelete, At, ConfirmOps
<1>2. ok => Preserves(db, d, issued, issued) /\ Keeps(db, d)
  BY RecipientStatements DEF IInv
<1>3. WriteOr404(c, ok, d) /\ ok \in BOOLEAN
  BY DEF RecipientDelete
<1> HIDE DEF ok, d
<1>. QED  BY <1>1, <1>2, <1>3, WriteOr404Preserves

-----------------------------------------------------------------------------
(* Groups.                                                                 *)

LEMMA GroupCreatePreserves ==
    ASSUME IInv, NEW c \in Call, GroupCreate(c)
    PROVE  IInv'
<1> DEFINE u == call[c].req.user
           body == call[c].req.body
           ok == u \in DOMAIN db.user /\ body.template \in DOMAIN db.template \cup {NULL}
<1>1. call[c].pc = "statement" /\ call[c].req.op \notin ConfirmOps /\ call[c].pc \notin Over
  BY DEF GroupCreate, At, ConfirmOps, Over
<1>2. CASE Refuse(c, BadTemplate(body.template))
  <2>1. BadTemplate(body.template) \in Response \ {"Ok"}
    BY DEF BadTemplate, Response
  <2>. QED  BY <1>1, <1>2, <2>1, RefusePreserves
<1>3. CASE ok /\ ~Refuse(c, BadTemplate(body.template))
  <2> DEFINE k == NewId(Draft)
             e == InsertGroupDraft(db, k, u, body.active, body.template)
  <2>1. k \in Draft \ issued
    BY <1>3, NewIdIsNew DEF GroupCreate
  <2>2. body.active \in BOOLEAN
    BY <1>1, BodyType DEF GroupCreate, At
  <2> HIDE DEF k
  <2>3. Preserves(db, e, issued, issued \cup {k}) /\ Keeps(db, e)
    BY <1>3, <2>1, <2>2, InsertDraftStatements DEF IInv
  <2>4. db' = e /\ issued' = issued \cup {k} /\ Answer(c, "Ok")
    BY <1>3 DEF GroupCreate, k
  <2> HIDE DEF e, ok
  <2>. QED  BY <1>1, <2>3, <2>4, WritePreserves
<1>. QED  BY <1>2, <1>3 DEF GroupCreate

LEMMA GroupModifyGroupPreserves ==
    ASSUME IInv, NEW c \in Call, GroupModifyGroup(c)
    PROVE  IInv'
<1> DEFINE g == call[c].req.arg
           body == call[c].req.body
           known == body.template \in DOMAIN db.template \cup {NULL}
           ok == g \in Owned(db.group, call[c].req.user)
           d == UpdateGroup(db, g, body.active, body.template)
<1>1. call[c].pc = "statement" /\ call[c].req.op \notin ConfirmOps /\ call[c].pc \notin Over
  BY DEF GroupModifyGroup, At, ConfirmOps, Over
<1>2. body.active \in BOOLEAN
  BY BodyType DEF GroupModifyGroup, At
<1>3. CASE Refuse(c, "Invalid")
  BY <1>1, <1>3, RefusePreserves DEF Response
<1>4. CASE WriteOr404(c, ok, d) /\ (ok => known)
  <2>1. ok => Preserves(db, d, issued, issued) /\ Keeps(db, d)
    BY <1>2, <1>4, GroupStatements DEF IInv, Owned
  <2>2. ok \in BOOLEAN /\ WriteOr404(c, ok, d)
    BY <1>4
  <2> HIDE DEF ok, d
  <2>. QED  BY <1>1, <2>1, <2>2, WriteOr404Preserves
<1>. QED  BY <1>3, <1>4 DEF GroupModifyGroup

LEMMA GroupDeleteGroupPreserves ==
    ASSUME IInv, NEW c \in Call, GroupDeleteGroup(c)
    PROVE  IInv'
<1> DEFINE g == call[c].req.arg
           ok == g \in Owned(db.group, call[c].req.user)
           d == DeleteGroup(db, g)
<1>1. call[c].pc = "statement" /\ call[c].req.op \notin ConfirmOps
  BY DEF GroupDeleteGroup, At, ConfirmOps
<1>2. ok => Preserves(db, d, issued, issued) /\ Keeps(db, d)
  BY GroupStatements DEF IInv
<1>3. WriteOr404(c, ok, d) /\ ok \in BOOLEAN
  BY DEF GroupDeleteGroup
<1> HIDE DEF ok, d
<1>. QED  BY <1>1, <1>2, <1>3, WriteOr404Preserves

-----------------------------------------------------------------------------
(* Confirmations.                                                          *)

\* The INSERT: its foreign keys hold in the store, and from now on by locks.
LEMMA CopyDraftPreserves ==
    ASSUME IInv, NEW c \in Call,
           \/ TemplateConfirmCreation(c) \/ RecipientConfirmCreation(c)
           \/ GroupConfirmCreation(c)
    PROVE  IInv'
<1> DEFINE q == call[c].req
           drafts == CASE q.op = "TemplateConfirmCreation" -> db.templateDraft
                       [] q.op = "RecipientConfirmCreation" -> db.recipientDraft
                       [] q.op = "GroupConfirmCreation" -> db.groupDraft
           row == drafts[q.arg]
           s == [call[c] EXCEPT !.pc = "commit", !.row = row]
<1>1. CopyDraft(c, drafts) /\ q.op \in ConfirmOps /\ call[c].pc = "statement"
  BY DEF TemplateConfirmCreation, RecipientConfirmCreation, GroupConfirmCreation, At,
         ConfirmOps
<1>2. call[c].pc \notin Over
  BY <1>1 DEF Over
<1>3. CASE Refuse(c, "NotFound")
  BY <1>2, <1>3, RefusePreserves DEF Response
<1>4. CASE /\ q.arg \in Owned(drafts, q.user)
           /\ call' = [call EXCEPT ![c].pc = "commit", ![c].row = row]
           /\ UNCHANGED <<db, issued, log>>
  <2>0. db \in Store /\ DraftReferences(db) /\ Keys(db) \subseteq issued
    BY IsStoreDef DEF IInv, Sound, StoreInvariant
  <2>1. q.arg \in DOMAIN drafts /\ row.master = q.user
    BY <1>4 DEF Owned
  <2>2. q.op = "TemplateConfirmCreation"
          => /\ row \in TemplateRow /\ q.user \in DOMAIN db.user /\ q.arg \in issued
             /\ row = db.templateDraft[q.arg]
    <3> SUFFICES ASSUME q.op = "TemplateConfirmCreation"
                 PROVE  /\ row \in TemplateRow /\ q.user \in DOMAIN db.user /\ q.arg \in issued
                        /\ row = db.templateDraft[q.arg]
      OBVIOUS
    <3>1. drafts = db.templateDraft
      OBVIOUS
    <3> HIDE DEF drafts
    <3>2. row \in TemplateRow
      BY <2>0, <2>1, <3>1, StoreTables, TableDef
    <3>. QED  BY <2>0, <2>1, <3>1, <3>2 DEF DraftReferences, Keys
  <2>3. q.op = "RecipientConfirmCreation"
          => /\ row \in RecipientRow /\ q.user \in DOMAIN db.user /\ q.arg \in issued
             /\ row = db.recipientDraft[q.arg]
    <3> SUFFICES ASSUME q.op = "RecipientConfirmCreation"
                 PROVE  /\ row \in RecipientRow /\ q.user \in DOMAIN db.user
                        /\ q.arg \in issued /\ row = db.recipientDraft[q.arg]
      OBVIOUS
    <3>1. drafts = db.recipientDraft
      OBVIOUS
    <3> HIDE DEF drafts
    <3>2. row \in RecipientRow
      BY <2>0, <2>1, <3>1, StoreTables, TableDef
    <3>. QED  BY <2>0, <2>1, <3>1, <3>2 DEF DraftReferences, Keys
  <2>4. q.op = "GroupConfirmCreation"
          => /\ row \in GroupRow /\ q.user \in DOMAIN db.user
             /\ row.template \in DOMAIN db.template \cup {NULL}
    <3> SUFFICES ASSUME q.op = "GroupConfirmCreation"
                 PROVE  /\ row \in GroupRow /\ q.user \in DOMAIN db.user
                        /\ row.template \in DOMAIN db.template \cup {NULL}
      OBVIOUS
    <3>1. drafts = db.groupDraft
      OBVIOUS
    <3> HIDE DEF drafts
    <3>2. row \in GroupRow
      BY <2>0, <2>1, <3>1, StoreTables, TableDef
    <3>. QED  BY <2>0, <2>1, <3>1, <3>2 DEF DraftReferences
  <2> HIDE DEF row, drafts
  <2>5. row \in PendingRow /\ q.user \in DOMAIN db.user
    BY <1>1, <2>2, <2>3, <2>4 DEF PendingRow, ConfirmOps
  <2>6. s \in CallState /\ s.pc = "commit" /\ s.req = q /\ s.row = row
    <3>1. call[c] \in CallState
      BY CallUpdate
    <3>2. row \in PendingRow \cup {NULL} /\ "commit" \in PC
      BY <2>5 DEF PC
    <3>3. s \in CallState
      BY <3>1, <3>2 DEF CallState
    <3>. QED  BY <3>1, <3>3 DEF CallState
  <2>7. call' = [call EXCEPT ![c] = s]
    BY <1>4
  <2> HIDE DEF s
  <2>8. call'[c] = s
    BY <2>7, CallUpdate
  <2>9. Held(c)'
    BY <1>1, <1>4, <2>1, <2>2, <2>3, <2>4, <2>5, <2>6, <2>8 DEF Held
  <2>10. CallSafe(c)'
    BY <2>6, <2>8, <2>9 DEF CallSafe
  <2>. QED  BY <1>2, <1>4, <2>6, <2>7, <2>10, MovePreserves
<1>. QED  BY <1>1, <1>3, <1>4 DEF CopyDraft

LEMMA TwoStatements ==
    ASSUME NEW d, NEW e, NEW f, NEW old, NEW new, old \subseteq new, Keys(d) \subseteq old,
           Preserves(d, e, old, new), Preserves(e, f, new, new), Keeps(d, e), Keeps(e, f)
    PROVE  Preserves(d, f, old, new) /\ Keeps(d, f)
<1>1. Evolves(d, f, old)
  BY DEF Preserves, Evolves
<1>2. DraftsEvolve(d, f, old)
  BY DEF Preserves, DraftsEvolve
<1>. QED  BY <1>1, <1>2 DEF Preserves, Keeps

LEMMA CommitTemplatePreserves ==
    ASSUME IInv, NEW c \in Call, CommitTemplate(c)
    PROVE  IInv'
<1> DEFINE u == call[c].req.user
           k == call[c].req.arg
           t == NewId(Template)
           e == InsertTemplate(db, t, u, call[c].row.text)
           f == DeleteTemplateDraft(e, u, k)
<1>1. /\ Held(c) /\ call[c].pc = "commit"
      /\ call[c].req.op = "TemplateConfirmCreation"
  BY DEF CommitTemplate, AtCommit, IInv, CallSafe
<1>2. /\ u \in DOMAIN db.user /\ k \in issued /\ call[c].row \in TemplateRow
      /\ k \in DOMAIN db.templateDraft => db.templateDraft[k].master = u
  BY <1>1 DEF Held
<1>3. call[c].row.text \in Text \cup {NULL}
  BY <1>2 DEF TemplateRow
<1>4. t \in Template \ issued
  BY NewIdIsNew DEF CommitTemplate
<1>5. db' = f /\ issued' = issued \cup {t} /\ Answer(c, "Ok")
  BY DEF CommitTemplate
<1> HIDE DEF t
<1>6. Preserves(db, e, issued, issued \cup {t}) /\ Keeps(db, e)
  BY <1>2, <1>3, <1>4, TemplateStatements DEF IInv
<1> HIDE DEF e
<1>7. /\ Preserves(e, f, issued \cup {t}, issued \cup {t}) /\ Keeps(e, f)
      /\ (k \in DOMAIN e.templateDraft => e.templateDraft[k].master = u)
            => k \notin DOMAIN f.templateDraft
  BY <1>6, DeleteDraftStatements DEF Preserves
<1> HIDE DEF f
<1>8. k \notin DOMAIN f.templateDraft
  BY <1>2, <1>6, <1>7 DEF Preserves, DraftsEvolve
<1>9. Preserves(db, f, issued, issued \cup {t}) /\ Keeps(db, f)
  BY <1>6, <1>7, TwoStatements DEF IInv, Sound
<1>10. call'[c].req = call[c].req
  BY <1>5, AnswersKeepRequests
<1>11. DraftGone(c)'
  BY <1>1, <1>2, <1>5, <1>8, <1>10 DEF DraftGone
<1>. QED  BY <1>1, <1>5, <1>9, <1>11, KeepsUndisturbed, AnswerPreserves DEF Response, Over

LEMMA CommitRecipientPreserves ==
    ASSUME IInv, NEW c \in Call, CommitRecipient(c)
    PROVE  IInv'
<1> DEFINE u == call[c].req.user
           k == call[c].req.arg
           r == NewId(Recipient)
           e == InsertRecipient(db, r, u, call[c].row.chat)
           f == DeleteRecipientDraft(e, u, k)
<1>1. /\ Held(c) /\ call[c].pc = "commit"
      /\ call[c].req.op = "RecipientConfirmCreation"
  BY DEF CommitRecipient, AtCommit, IInv, CallSafe
<1>2. /\ u \in DOMAIN db.user /\ k \in issued /\ call[c].row \in RecipientRow
      /\ k \in DOMAIN db.recipientDraft => db.recipientDraft[k].master = u
  BY <1>1 DEF Held
<1>3. call[c].row.chat \in Chat \cup {NULL}
  BY <1>2 DEF RecipientRow
<1>4. r \in Recipient \ issued
  BY NewIdIsNew DEF CommitRecipient
<1>5. db' = f /\ issued' = issued \cup {r} /\ Answer(c, "Ok")
  BY DEF CommitRecipient
<1> HIDE DEF r
<1>6. Preserves(db, e, issued, issued \cup {r}) /\ Keeps(db, e)
  BY <1>2, <1>3, <1>4, RecipientStatements DEF IInv
<1> HIDE DEF e
<1>7. /\ Preserves(e, f, issued \cup {r}, issued \cup {r}) /\ Keeps(e, f)
      /\ (k \in DOMAIN e.recipientDraft => e.recipientDraft[k].master = u)
            => k \notin DOMAIN f.recipientDraft
  BY <1>6, DeleteDraftStatements DEF Preserves
<1> HIDE DEF f
<1>8. k \notin DOMAIN f.recipientDraft
  BY <1>2, <1>6, <1>7 DEF Preserves, DraftsEvolve
<1>9. Preserves(db, f, issued, issued \cup {r}) /\ Keeps(db, f)
  BY <1>6, <1>7, TwoStatements DEF IInv, Sound
<1>10. call'[c].req = call[c].req
  BY <1>5, AnswersKeepRequests
<1>11. DraftGone(c)'
  BY <1>1, <1>2, <1>5, <1>8, <1>10 DEF DraftGone
<1>. QED  BY <1>1, <1>5, <1>9, <1>11, KeepsUndisturbed, AnswerPreserves DEF Response, Over

LEMMA CommitGroupPreserves ==
    ASSUME IInv, NEW c \in Call, CommitGroup(c)
    PROVE  IInv'
<1> DEFINE u == call[c].req.user
           row == call[c].row
           g == NewId(Group)
           e == InsertGroup(db, g, u, row.active, row.template)
           f == DeleteTemplateDraft(e, u, call[c].req.arg)
<1>1. /\ Held(c) /\ call[c].pc = "commit"
      /\ call[c].req.op = "GroupConfirmCreation"
  BY DEF CommitGroup, AtCommit, IInv, CallSafe
<1>2. /\ u \in DOMAIN db.user /\ row \in GroupRow
      /\ row.template \in DOMAIN db.template \cup {NULL}
  BY <1>1 DEF Held
<1>3. row.active \in BOOLEAN
  BY <1>2 DEF GroupRow
<1>4. g \in Group \ issued
  BY NewIdIsNew DEF CommitGroup
<1>5. db' = f /\ issued' = issued \cup {g} /\ Answer(c, "Ok")
  BY DEF CommitGroup
<1> HIDE DEF g
<1>6. Preserves(db, e, issued, issued \cup {g}) /\ Keeps(db, e)
  BY <1>2, <1>3, <1>4, GroupStatements DEF IInv
<1> HIDE DEF e
<1>7. Preserves(e, f, issued \cup {g}, issued \cup {g}) /\ Keeps(e, f)
  BY <1>6, DeleteDraftStatements DEF Preserves
<1> HIDE DEF f
<1>8. Preserves(db, f, issued, issued \cup {g}) /\ Keeps(db, f)
  BY <1>6, <1>7, TwoStatements DEF IInv, Sound
<1>9. call'[c].req = call[c].req
  BY <1>5, AnswersKeepRequests
<1>10. DraftGone(c)'
  BY <1>1, <1>9 DEF DraftGone
<1>. QED  BY <1>1, <1>5, <1>8, <1>10, KeepsUndisturbed, AnswerPreserves DEF Response, Over

-----------------------------------------------------------------------------
(* Members of groups.                                                      *)

LEMMA ChecksPreserve ==
    ASSUME IInv, NEW c \in Call, CheckGroup(c) \/ CheckRecipient(c)
    PROVE  IInv'
<1>0. Keys(db) \subseteq issued
  BY DEF IInv, Sound
<1>1. ASSUME CheckGroup(c) PROVE IInv'
  <2> DEFINE found == call[c].req.arg \in Owned(db.group, call[c].req.user)
             s == [call[c] EXCEPT !.pc = "recipient", !.found = found]
  <2>1. call[c] \in CallState /\ found \in BOOLEAN /\ "recipient" \in PC
    <3>1. call[c] \in CallState
      BY CallUpdate
    <3>2. found \in BOOLEAN
      OBVIOUS
    <3>3. "recipient" \in PC
      BY DEF PC
    <3>. QED  BY <3>1, <3>2, <3>3
  <2>2. found => GroupSafe(c)
    BY <1>0 DEF GroupSafe, Owned, Keys
  <2>3. call' = [call EXCEPT ![c] = s] /\ UNCHANGED <<db, issued, log>>
    BY <1>1 DEF CheckGroup
  <2> HIDE DEF found
  <2>4. s \in CallState /\ s.pc = "recipient" /\ s.req = call[c].req /\ s.found = found
    BY <2>1 DEF CallState
  <2> HIDE DEF s
  <2>5. call'[c] = s
    BY <2>3, CallUpdate
  <2>6. CallSafe(c)'
    BY <2>2, <2>3, <2>4, <2>5 DEF CallSafe, GroupSafe
  <2>7. call[c].pc \notin Over
    BY <1>1 DEF CheckGroup, Over
  <2>. QED  BY <2>3, <2>4, <2>6, <2>7, MovePreserves
<1>2. ASSUME CheckRecipient(c) PROVE IInv'
  <2> DEFINE exists == call[c].req.recipient \in Owned(db.recipient, call[c].req.user)
  <2>1. call[c].pc = "recipient" /\ call[c].pc \notin Over
    BY <1>2 DEF CheckRecipient, Over
  <2>2. CASE Refuse(c, "NotFound")
    BY <2>1, <2>2, RefusePreserves DEF Response
  <2>3. CASE /\ call[c].found /\ exists
             /\ call' = [call EXCEPT ![c].pc = "write"]
             /\ UNCHANGED <<db, issued, log>>
    <3> DEFINE s == [call[c] EXCEPT !.pc = "write"]
    <3>1. s \in CallState /\ s.pc = "write" /\ s.req = call[c].req
      BY CallUpdate DEF PC
    <3>2. call' = [call EXCEPT ![c] = s]
      BY <2>3
    <3> HIDE DEF s
    <3>3. call'[c] = s
      BY <3>2, CallUpdate
    <3>4. GroupSafe(c)
      BY <2>1, <2>3 DEF IInv, CallSafe
    <3>5. RecipientSafe(c)
      BY <1>0, <2>3 DEF RecipientSafe, Owned, Keys
    <3>6. CallSafe(c)'
      BY <2>3, <3>1, <3>3, <3>4, <3>5 DEF CallSafe, GroupSafe, RecipientSafe
    <3>. QED  BY <2>1, <2>3, <3>1, <3>2, <3>6, MovePreserves
  <2>. QED  BY <1>2, <2>2, <2>3 DEF CheckRecipient
<1>. QED  BY <1>1, <1>2

LEMMA GroupAddRecipientPreserves ==
    ASSUME IInv, NEW c \in Call, GroupAddRecipient(c)
    PROVE  IInv'
<1> DEFINE r == call[c].req.recipient
           g == call[c].req.arg
           e == InsertMember(db, r, g)
<1>1. call[c].pc = "write" /\ call[c].req.op \notin ConfirmOps /\ call[c].pc \notin Over
  BY DEF GroupAddRecipient, AtWrite, ConfirmOps, Over
<1>2. CASE Refuse(c, "Conflict") \/ Refuse(c, "ServerError")
  BY <1>1, <1>2, RefusePreserves DEF Response
<1>3. CASE /\ r \in DOMAIN db.recipient /\ g \in DOMAIN db.group
           /\ db' = e /\ Answer(c, "Ok") /\ UNCHANGED issued
  <2>1. GroupSafe(c) /\ RecipientSafe(c)
    BY <1>1 DEF IInv, CallSafe
  <2>2. db.recipient[r].master = db.group[g].master
    BY <1>3, <2>1 DEF GroupSafe, RecipientSafe
  <2>3. Preserves(db, e, issued, issued) /\ Keeps(db, e)
    BY <1>3, <2>2, MemberStatements DEF IInv
  <2> HIDE DEF e
  <2>. QED  BY <1>1, <1>3, <2>3, WritePreserves
<1>. QED  BY <1>2, <1>3 DEF GroupAddRecipient

LEMMA GroupDeleteRecipientPreserves ==
    ASSUME IInv, NEW c \in Call, GroupDeleteRecipient(c)
    PROVE  IInv'
<1> DEFINE r == call[c].req.recipient
           g == call[c].req.arg
           ok == <<r, g>> \in db.member
           d == DeleteMember(db, r, g)
<1>1. call[c].pc = "write" /\ call[c].req.op \notin ConfirmOps
  BY DEF GroupDeleteRecipient, AtWrite, ConfirmOps
<1>2. ok => Preserves(db, d, issued, issued) /\ Keeps(db, d)
  BY MemberStatements DEF IInv
<1>3. WriteOr404(c, ok, d) /\ ok \in BOOLEAN
  BY DEF GroupDeleteRecipient
<1> HIDE DEF ok, d
<1>. QED  BY <1>1, <1>2, <1>3, WriteOr404Preserves

-----------------------------------------------------------------------------
(* Accounts.                                                               *)

\* The users of open confirmations are locked, and so are the templates of
\* their groups, whoever owns them: the deletion takes away nothing that is held.
LEMMA AccountDeletedPreserves ==
    ASSUME IInv, AccountDeleted
    PROVE  IInv'
<1>1. PICK u \in DOMAIN db.user :
        /\ ~UserLocked(u)
        /\ \A t \in Owned(db.template, u) : ~TemplateLocked(t)
        /\ db' = DeleteUser(db, u)
        /\ log' = Append(log, u)
  BY DEF AccountDeleted
<1>2. UNCHANGED <<issued, call>> /\ u \in User
  BY <1>1, IsStoreDef, StoreRows DEF AccountDeleted, IInv, TypeOK
<1> DEFINE e == DeleteUser(db, u)
<1>3. /\ Preserves(db, e, issued, issued)
      /\ DOMAIN e.user = DOMAIN db.user \ {u}
      /\ DOMAIN e.template = DOMAIN db.template \ Owned(db.template, u)
  BY DeleteUserStatement DEF IInv
<1>4. db' = e
  BY <1>1
<1> HIDE DEF e
<1>5. ASSUME NEW k \in Call PROVE Undisturbed(k)
  <2> SUFFICES ASSUME call[k].pc = "commit" PROVE Undisturbed(k)
    BY DEF Undisturbed
  <2>1. Held(k)
    BY DEF IInv, CallSafe
  <2>2. call[k].req.user # u
    BY <1>1 DEF UserLocked
  <2>3. call[k].req.op = "GroupConfirmCreation"
          => call[k].row.template \notin Owned(db.template, u)
    BY <1>1 DEF TemplateLocked
  <2>. QED  BY <1>3, <1>4, <2>1, <2>2, <2>3 DEF Held, Undisturbed
<1>6. Preserves(db, db', issued, issued') /\ issued \subseteq issued'
  BY <1>2, <1>3, <1>4
<1>7. \A k \in Call : CallSafe(k)'
  BY <1>2, <1>5, <1>6, StillSafe
<1>8. log' \in Seq(Call \cup User) /\ \A k \in Call : k \in Logged' => k \in Logged
  BY <1>1, <1>2, LogAppend, CallsAreNotUsers
<1>9. \A k \in Call : Confirmed(k)'
  BY <1>2, <1>6, <1>8, StillConfirmed
<1>10. Sound(db', issued') /\ IsStore(db') /\ Keys(db') \subseteq issued'
  BY <1>6 DEF Preserves, Sound, StoreInvariant
<1>11. TypeOK'
  <2>1. call' \in [Call -> CallState]
    BY <1>2, TypeDef DEF IInv
  <2>2. CallsTyped(call')
    BY <2>1, CallsDef
  <2>. QED  BY <1>8, <1>10, <2>2 DEF TypeOK, CallsTyped
<1>. QED  BY <1>7, <1>9, <1>10, <1>11 DEF IInv

-----------------------------------------------------------------------------
(* The theorems.                                                           *)

LEMMA InitSafe == Init => IInv
<1> SUFFICES ASSUME Init PROVE IInv
  OBVIOUS
<1>1. StoreInvariant(db) /\ DraftReferences(db) /\ issued = Keys(db)
  BY CatalogStoresAssumption DEF Init
<1>2. \A c \in Call : call[c] = Idle
  BY DEF Init
<1>3. Idle \in CallState
  <2>1. NoRequest \in Request
    <3>1. IsRequest(NoRequest)
      BY DEF NoRequest, IsRequest, Ops, ListOps, IdsOf, MemberOps, ConfirmOps, BodiesOf
    <3>. QED  BY <3>1, RequestDef
  <2>. QED  BY <2>1 DEF Idle, CallState, PC, Response
<1>4. TypeOK
  BY <1>1, <1>3, TypeDef DEF Init, StoreInvariant
<1>5. \A k \in Call : CallSafe(k)
  BY <1>2 DEF CallSafe, Idle
<1>6. \A k \in Call : Confirmed(k)
  BY DEF Init, Confirmed, Logged
<1>. QED  BY <1>1, <1>4, <1>5, <1>6 DEF IInv, Sound

LEMMA NextPreserves == IInv /\ [Next]_vars => IInv'
<1> SUFFICES ASSUME IInv, [Next]_vars PROVE IInv'
  OBVIOUS
<1>1. ASSUME NEW c \in Call, Templates(c) PROVE IInv'
  BY <1>1, TemplateCreatePreserves, ReadPreserves, CopyDraftPreserves,
     CommitTemplatePreserves, TemplateModifyPreserves, TemplateDeletePreserves
  DEF Templates
<1>2. ASSUME NEW c \in Call, Recipients(c) PROVE IInv'
  BY <1>2, RecipientCreatePreserves, ReadPreserves, CopyDraftPreserves,
     CommitRecipientPreserves, RecipientModifyPreserves, RecipientDeletePreserves
  DEF Recipients
<1>3. ASSUME NEW c \in Call, Groups(c) PROVE IInv'
  BY <1>3, GroupCreatePreserves, ReadPreserves, CopyDraftPreserves,
     CommitGroupPreserves, GroupModifyGroupPreserves, GroupDeleteGroupPreserves,
     ChecksPreserve, GroupAddRecipientPreserves, GroupDeleteRecipientPreserves
  DEF Groups
<1>4. ASSUME NEW c \in Call,
             \/ Receive(c) \/ BadArgument(c) \/ BadBody(c) \/ VerifyJWT(c)
             \/ Reply(c) \/ Abort(c)
      PROVE  IInv'
  BY <1>4, EntryPreserves, EndPreserves
<1>5. ASSUME UNCHANGED vars PROVE IInv'
  BY <1>5 DEF vars, IInv, TypeOK, CallSafe, Held, GroupSafe, RecipientSafe, Confirmed,
              DraftGone, Logged
<1>. QED
  BY <1>1, <1>2, <1>3, <1>4, <1>5, AccountDeletedPreserves DEF Next, AllDone

LEMMA Invariance == Spec => []IInv
  BY InitSafe, NextPreserves, PTL DEF Spec

\* Types: the state of calls, the store, and the ids that were issued.
THEOREM TypeCorrect == Spec => []TypeOK
<1>1. IInv => TypeOK
  BY DEF IInv
<1>. QED  BY <1>1, Invariance, PTL

\* Between any two statements all foreign keys hold, the drafts' too, and a
\* group has only members of its own user (src/groups/groups.cpp checks that
\* in two statements before the INSERT).
THEOREM StoreConsistency == Spec => []StoreConsistent
<1>1. IInv => StoreConsistent
  BY DEF IInv, Sound, StoreInvariant, StoreConsistent
<1>. QED  BY <1>1, Invariance, PTL

\* What ConfirmCreation (src/templates, src/recipients, src/groups) has
\* inserted can be committed, whatever is deleted in between.
THEOREM PendingRowsSafety == Spec => []PendingRowsAreSafe
<1>1. IInv => PendingRowsAreSafe
  BY DEF IInv, CallSafe, Held, PendingRowsAreSafe
<1>. QED  BY <1>1, Invariance, PTL

\* The draft of a confirmed template or recipient never exists again.
THEOREM ConfirmedDraftsStayGone == Spec => []ConfirmedDraftsAreGone
<1>1. IInv => ConfirmedDraftsAreGone
  BY DEF IInv, Confirmed, DraftGone, Logged, ConfirmedDraftsAreGone, CallEntries, Req
<1>. QED  BY <1>1, Invariance, PTL

-----------------------------------------------------------------------------
(* The order of the answers.                                               *)

Id(d) == DOMAIN d.template \cup DOMAIN d.recipient \cup DOMAIN d.group

\* What request q names exists in store d, and so does its user.
Valid(q, d) ==
    /\ q.op \notin ListOps \cup {"GroupGetRecipients"} => q.user \in DOMAIN d.user
    /\ q.op # "GroupGetRecipients" => NamedBy(q) \ {NULL} \subseteq Id(d)

\* What it deletes is gone, and its id, which is one of old, is not fresh.
Removed(q, d, old) == q.op \in RemoveOps => q.arg \in old \ (Id(d) \cup {NULL})

\* The recipient or the group of p is gone.
Gone(p, d, old) == p[1] \in old \ DOMAIN d.recipient \/ p[2] \in old \ DOMAIN d.group

Pair(q) == <<q.recipient, q.arg>>

\* What the entries of the log say still holds: what was removed is not back,
\* a member is still in the group unless it or the group has gone or a later
\* entry removed it, and out of it unless a later entry added it.
Standing ==
    /\ \A i \in DOMAIN log : log[i] \in User => log[i] \notin DOMAIN db.user
    /\ \A i \in CallEntries : Removed(Req(i), db, issued)
    /\ \A i \in CallEntries : Req(i).op = "GroupAddRecipient" =>
            \/ Pair(Req(i)) \in db.member \/ Gone(Pair(Req(i)), db, issued)
            \/ \E k \in SameMember(i, "GroupDeleteRecipient") : i < k
    /\ \A i \in CallEntries : Req(i).op = "GroupDeleteRecipient" =>
            \/ Pair(Req(i)) \notin db.member
            \/ \E k \in SameMember(i, "GroupAddRecipient") : i < k

OrderInv == IInv /\ Standing /\ NothingAfterDeletion /\ MembershipAlternates

\* What every step does to the store: no user comes, and no id comes back.
NoReturn(d, e, old) ==
    /\ DOMAIN e.user \subseteq DOMAIN d.user
    /\ old \cap DOMAIN e.template \subseteq DOMAIN d.template
    /\ old \cap DOMAIN e.recipient \subseteq DOMAIN d.recipient
    /\ old \cap DOMAIN e.group \subseteq DOMAIN d.group

\* A step that does not touch members but by removing their recipient or group.
LosesMembers(d, e, new) ==
    /\ e.member \subseteq d.member
    /\ \A p \in d.member \ e.member : Gone(p, e, new)

\* What a successful call has done to the members.
MemberEffect(q, d, e, new) ==
    /\ q.op = "GroupAddRecipient" =>
        /\ Pair(q) \notin d.member /\ e.member = d.member \cup {Pair(q)}
        /\ q.recipient \in DOMAIN d.recipient /\ q.arg \in DOMAIN d.group
    /\ q.op = "GroupDeleteRecipient" =>
        Pair(q) \in d.member /\ e.member = d.member \ {Pair(q)}
    /\ q.op \notin MemberOps => LosesMembers(d, e, new)

KeepsLogged == \A k \in Call : k \in Logged => call'[k].req = call[k].req

\* A step that decides no answer Ok writes nothing.
Silent == UNCHANGED <<db, log>> /\ issued \subseteq issued' /\ KeepsLogged

\* Call c is answered Ok, and has done what it was asked.
Succeeds(c) ==
    /\ log' = Append(log, c) /\ call'[c].req = call[c].req /\ KeepsLogged
    /\ issued \subseteq issued' /\ NoReturn(db, db', issued)
    /\ Valid(call[c].req, db) /\ Removed(call[c].req, db', issued')
    /\ MemberEffect(call[c].req, db, db', issued')

\* User u is deleted.
UserGoes(u) ==
    /\ log' = Append(log, u) /\ KeepsLogged
    /\ UNCHANGED issued /\ NoReturn(db, db', issued)
    /\ u \notin DOMAIN db'.user /\ LosesMembers(db, db', issued')

\* What the log grows by.
LEMMA LogGrows ==
    ASSUME IInv, NEW x \in Call \cup User, log' = Append(log, x), KeepsLogged,
           x \in Call => call'[x].req = call[x].req, NEW n, n = Len(log) + 1
    PROVE  /\ DOMAIN log' = DOMAIN log \cup {n} /\ log'[n] = x
           /\ \A i \in DOMAIN log : i < n /\ ~(n < i) /\ i # n /\ log'[i] = log[i]
           /\ ~(n < n)
           /\ CallEntries \subseteq DOMAIN log
           /\ CallEntries' = CallEntries \cup (IF x \in Call THEN {n} ELSE {})
           /\ \A i \in CallEntries : Req(i)' = Req(i)
           /\ x \in Call => Req(n)' = call[x].req
<1>1. /\ DOMAIN log' = DOMAIN log \cup {n} /\ log'[n] = x
      /\ \A i \in DOMAIN log : i < n /\ ~(n < i) /\ i # n /\ log'[i] = log[i]
      /\ ~(n < n)
  <2>1. log \in Seq(Call \cup User) /\ Len(log) \in Nat /\ DOMAIN log = 1 .. Len(log)
    BY DEF IInv, TypeOK
  <2>. QED  BY <2>1
<1>2. /\ CallEntries \subseteq DOMAIN log
      /\ CallEntries' = CallEntries \cup (IF x \in Call THEN {n} ELSE {})
  BY <1>1 DEF CallEntries
<1>3. \A i \in CallEntries : Req(i)' = Req(i)
  BY <1>1 DEF CallEntries, KeepsLogged, Req, Logged
<1>4. x \in Call => Req(n)' = call[x].req
  BY <1>1 DEF Req
<1>. QED  BY <1>1, <1>2, <1>3, <1>4

\* What has gone stays gone, if no id comes back.
LEMMA StaysGone ==
    ASSUME NEW d, NEW e, NEW old, NEW new, NoReturn(d, e, old), old \subseteq new
    PROVE  /\ \A q : Removed(q, d, old) => Removed(q, e, new)
           /\ \A p : Gone(p, d, old) => Gone(p, e, new)
  BY DEF NoReturn, Removed, Gone, Id

\* A step that is silent changes nothing that the log says.
LEMMA SilentKeeps ==
    ASSUME OrderInv, IInv', Silent
    PROVE  OrderInv'
<1>1. /\ UNCHANGED <<db, log>> /\ CallEntries' = CallEntries
      /\ \A i \in CallEntries : Req(i)' = Req(i)
  BY DEF Silent, KeepsLogged, CallEntries, Req, Logged
<1>2. \A i \in CallEntries : \A op : SameMember(i, op)' = SameMember(i, op)
  BY <1>1 DEF SameMember
<1>3. Standing'
  <2>1. Standing
    BY DEF OrderInv
  <2>2. /\ \A q : Removed(q, db, issued) => Removed(q, db, issued')
        /\ \A q : Gone(q, db, issued) => Gone(q, db, issued')
    BY DEF Silent, Removed, Gone
  <2>. QED  BY <1>1, <1>2, <2>1, <2>2 DEF Standing
<1>4. NothingAfterDeletion'
  <2>1. \A i \in DOMAIN log : log[i] \in Call => i \in CallEntries
    BY DEF CallEntries
  <2>. QED  BY <1>1, <2>1 DEF OrderInv, NothingAfterDeletion
<1>5. MembershipAlternates'
  <2>1. MembershipAlternates
    BY DEF OrderInv
  <2>2. \A i \in CallEntries : \A op : SameMember(i, op) \subseteq CallEntries
    BY DEF SameMember
  <2>. QED  BY <1>1, <1>2, <2>1, <2>2 DEF MembershipAlternates
<1>. QED  BY <1>3, <1>4, <1>5 DEF OrderInv

\* The entries for a member before and after: the new one may be one of them.
LEMMA SameMemberGrows ==
    ASSUME IInv, NEW x \in Call \cup User, log' = Append(log, x), KeepsLogged,
           x \in Call => call'[x].req = call[x].req, NEW n, n = Len(log) + 1
    PROVE  \A op : \A i \in CallEntries :
              /\ SameMember(i, op) \subseteq CallEntries
              /\ SameMember(i, op) \subseteq SameMember(i, op)'
              /\ SameMember(i, op)' \subseteq SameMember(i, op) \cup {n}
              /\ (n \in SameMember(i, op)')
                    <=> (x \in Call /\ call[x].req.op = op /\ Pair(call[x].req) = Pair(Req(i)))
<1>1. /\ CallEntries' = CallEntries \cup (IF x \in Call THEN {n} ELSE {})
      /\ \A i \in CallEntries : Req(i)' = Req(i) /\ i # n
      /\ x \in Call => Req(n)' = call[x].req
  BY LogGrows
<1>. QED  BY <1>1 DEF SameMember, Pair

-----------------------------------------------------------------------------
(* A successful call, and a deleted user.                                  *)

\* What the new entry says holds, and what the earlier ones say still does.
LEMMA SuccessKeepsStanding ==
    ASSUME OrderInv, NEW c \in Call, Succeeds(c)
    PROVE  Standing'
<1> DEFINE q == call[c].req
<1>0. Standing /\ IInv /\ c \in Call \cup User
  BY DEF OrderInv
<1>1. PICK n : n = Len(log) + 1
  OBVIOUS
<1>2. /\ DOMAIN log' = DOMAIN log \cup {n} /\ log'[n] = c
      /\ \A i \in DOMAIN log : i < n /\ ~(n < i) /\ i # n /\ log'[i] = log[i]
      /\ CallEntries \subseteq DOMAIN log
      /\ CallEntries' = CallEntries \cup {n}
      /\ \A i \in CallEntries : Req(i)' = Req(i)
      /\ Req(n)' = q
  BY <1>0, <1>1, LogGrows DEF Succeeds
<1>3. \A op : \A i \in CallEntries :
        /\ SameMember(i, op) \subseteq CallEntries
        /\ SameMember(i, op) \subseteq SameMember(i, op)'
        /\ (n \in SameMember(i, op)') <=> (q.op = op /\ Pair(q) = Pair(Req(i)))
  BY <1>0, <1>1, SameMemberGrows DEF Succeeds
<1>4. /\ \A r : Removed(r, db, issued) => Removed(r, db', issued')
      /\ \A p : Gone(p, db, issued) => Gone(p, db', issued')
  BY StaysGone DEF Succeeds
<1>5. MemberEffect(q, db, db', issued') /\ Removed(q, db', issued')
  BY DEF Succeeds
<1>6. \A i \in DOMAIN log' : log'[i] \in User => log'[i] \notin DOMAIN db'.user
  BY <1>0, <1>2, CallsAreNotUsers DEF Standing, Succeeds, NoReturn
<1>7. \A i \in CallEntries' : Removed(Req(i)', db', issued')
  BY <1>0, <1>2, <1>4, <1>5 DEF Standing
<1> HIDE DEF q
<1>8. ASSUME NEW i \in CallEntries, Req(i).op = "GroupAddRecipient"
      PROVE  \/ Pair(Req(i)) \in db'.member \/ Gone(Pair(Req(i)), db', issued')
             \/ \E k \in SameMember(i, "GroupDeleteRecipient")' : i < k
  <2>1. \/ Pair(Req(i)) \in db.member \/ Gone(Pair(Req(i)), db, issued)
        \/ \E k \in SameMember(i, "GroupDeleteRecipient") : i < k
    BY <1>0, <1>8 DEF Standing
  <2>2. CASE Pair(Req(i)) \in db.member /\ Pair(Req(i)) \notin db'.member
    <3>1. CASE q.op = "GroupDeleteRecipient"
      <4>1. Pair(q) = Pair(Req(i))
        BY <1>5, <2>2, <3>1 DEF MemberEffect
      <4>. QED  BY <1>2, <1>3, <3>1, <4>1
    <3>2. CASE q.op # "GroupDeleteRecipient"
      BY <1>5, <2>2, <3>2 DEF MemberEffect, LosesMembers, MemberOps
    <3>. QED  BY <3>1, <3>2
  <2>. QED  BY <1>3, <1>4, <2>1, <2>2
<1>9. ASSUME NEW i \in CallEntries, Req(i).op = "GroupDeleteRecipient"
      PROVE  \/ Pair(Req(i)) \notin db'.member
             \/ \E k \in SameMember(i, "GroupAddRecipient")' : i < k
  <2>1. \/ Pair(Req(i)) \notin db.member
        \/ \E k \in SameMember(i, "GroupAddRecipient") : i < k
    BY <1>0, <1>9 DEF Standing
  <2>2. CASE Pair(Req(i)) \notin db.member /\ Pair(Req(i)) \in db'.member
    <3>1. q.op = "GroupAddRecipient" /\ Pair(q) = Pair(Req(i))
      BY <1>5, <2>2 DEF MemberEffect, LosesMembers, MemberOps
    <3>. QED  BY <1>2, <1>3, <3>1
  <2>. QED  BY <1>3, <2>1, <2>2
<1>10. /\ q.op = "GroupAddRecipient" => Pair(q) \in db'.member
       /\ q.op = "GroupDeleteRecipient" => Pair(q) \notin db'.member
  BY <1>5 DEF MemberEffect
<1>11. \A i \in CallEntries' : Req(i)'.op = "GroupAddRecipient" =>
            \/ Pair(Req(i)') \in db'.member \/ Gone(Pair(Req(i)'), db', issued')
            \/ \E k \in SameMember(i, "GroupDeleteRecipient")' : i < k
  BY <1>2, <1>8, <1>10
<1>12. \A i \in CallEntries' : Req(i)'.op = "GroupDeleteRecipient" =>
            \/ Pair(Req(i)') \notin db'.member
            \/ \E k \in SameMember(i, "GroupAddRecipient")' : i < k
  BY <1>2, <1>9, <1>10
<1>. QED  BY <1>6, <1>7, <1>11, <1>12 DEF Standing

\* Nothing that is gone is named by a call that succeeds.
LEMMA SuccessKeepsDeletions ==
    ASSUME OrderInv, NEW c \in Call, Succeeds(c)
    PROVE  NothingAfterDeletion'
<1> DEFINE q == call[c].req
<1>0. Standing /\ IInv /\ c \in Call \cup User /\ NothingAfterDeletion
  BY DEF OrderInv
<1>1. PICK n : n = Len(log) + 1
  OBVIOUS
<1>2. /\ DOMAIN log' = DOMAIN log \cup {n} /\ log'[n] = c
      /\ \A i \in DOMAIN log : i < n /\ ~(n < i) /\ i # n /\ log'[i] = log[i]
      /\ ~(n < n)
      /\ CallEntries \subseteq DOMAIN log
      /\ CallEntries' = CallEntries \cup {n}
      /\ \A i \in CallEntries : Req(i)' = Req(i)
      /\ Req(n)' = q
  BY <1>0, <1>1, LogGrows DEF Succeeds
<1>3. Valid(q, db) /\ DOMAIN db.user \subseteq User
  <2>1. IsStore(db)
    BY <1>0 DEF IInv, TypeOK
  <2>. QED  BY <2>1 DEF Succeeds, IsStore, IsTable
<1>4. \A i \in DOMAIN log : log[i] \in Call => i \in CallEntries
  BY DEF CallEntries
<1>5. ASSUME NEW i \in DOMAIN log', NEW j \in CallEntries', i < j
      PROVE  /\ (log'[i] \in Call /\ Req(i)'.op \in RemoveOps
                   /\ Req(j)'.op # "GroupGetRecipients")
                => Req(i)'.arg \notin NamedBy(Req(j)')
             /\ log'[i] = Req(j)'.user => Req(j)'.op \in ListOps \cup {"GroupGetRecipients"}
  <2>1. i \in DOMAIN log /\ log'[i] = log[i]
    BY <1>2, <1>5
  <2>2. CASE j \in CallEntries
    <3>1. Req(j)' = Req(j)
      BY <1>2, <2>2
    <3>2. log[i] \in Call => Req(i)' = Req(i)
      BY <1>2, <1>4, <2>1
    <3>. QED  BY <1>0, <1>5, <2>1, <2>2, <3>1, <3>2 DEF NothingAfterDeletion
  <2>3. CASE j = n
    <3>1. ASSUME log[i] \in Call, Req(i)'.op \in RemoveOps, q.op # "GroupGetRecipients"
          PROVE  Req(i)'.arg \notin NamedBy(q)
      <4>1. i \in CallEntries /\ Req(i)' = Req(i)
        BY <1>2, <1>4, <2>1, <3>1
      <4>2. Req(i).arg \notin Id(db) \cup {NULL}
        BY <1>0, <3>1, <4>1 DEF Standing, Removed
      <4>. QED  BY <1>3, <3>1, <4>1, <4>2 DEF Valid
    <3>2. ASSUME log[i] = q.user, q.op \notin ListOps \cup {"GroupGetRecipients"}
          PROVE  FALSE
      <4>1. q.user \in DOMAIN db.user /\ q.user \in User
        BY <1>3, <3>2 DEF Valid
      <4>. QED  BY <1>0, <2>1, <3>2, <4>1 DEF Standing
    <3>. QED  BY <1>2, <2>1, <2>3, <3>1, <3>2
  <2>. QED  BY <1>2, <2>2, <2>3
<1>. QED  BY <1>5 DEF NothingAfterDeletion

\* A call that adds finds the pair absent, so an earlier one that added it has
\* been undone; a call that removes finds it present.
LEMMA SuccessKeepsMembership ==
    ASSUME OrderInv, NEW c \in Call, Succeeds(c)
    PROVE  MembershipAlternates'
<1> DEFINE q == call[c].req
<1>0. Standing /\ IInv /\ c \in Call \cup User /\ MembershipAlternates
  BY DEF OrderInv
<1>1. PICK n : n = Len(log) + 1
  OBVIOUS
<1>2. /\ DOMAIN log' = DOMAIN log \cup {n}
      /\ \A i \in DOMAIN log : i < n /\ ~(n < i) /\ i # n
      /\ ~(n < n)
      /\ CallEntries \subseteq DOMAIN log
      /\ CallEntries' = CallEntries \cup {n}
      /\ \A i \in CallEntries : Req(i)' = Req(i)
      /\ Req(n)' = q
  BY <1>0, <1>1, LogGrows DEF Succeeds
<1>3. \A op : \A i \in CallEntries :
        /\ SameMember(i, op) \subseteq CallEntries
        /\ SameMember(i, op) \subseteq SameMember(i, op)'
        /\ SameMember(i, op)' \subseteq SameMember(i, op) \cup {n}
        /\ (n \in SameMember(i, op)') <=> (q.op = op /\ Pair(q) = Pair(Req(i)))
  BY <1>0, <1>1, SameMemberGrows DEF Succeeds
<1>4. \A op : SameMember(n, op)' \subseteq CallEntries \cup {n}
  BY <1>2 DEF SameMember
<1>5. MemberEffect(q, db, db', issued')
  BY DEF Succeeds
<1> HIDE DEF q
<1>6. ASSUME NEW i \in CallEntries', NEW j \in SameMember(i, "GroupAddRecipient")',
             Req(i)'.op = "GroupAddRecipient", i < j
      PROVE  \E k \in SameMember(i, "GroupDeleteRecipient")' : i < k /\ k < j
  <2>1. i \in CallEntries
    BY <1>2, <1>4, <1>6
  <2>2. CASE j \in SameMember(i, "GroupAddRecipient")
    <3>1. \E k \in SameMember(i, "GroupDeleteRecipient") : i < k /\ k < j
      BY <1>0, <1>2, <1>6, <2>1, <2>2 DEF MembershipAlternates
    <3>. QED  BY <1>3, <2>1, <3>1
  <2>3. CASE j = n
    <3>1. Pair(q) = Pair(Req(i)) /\ q.op = "GroupAddRecipient"
      BY <1>3, <1>6, <2>1, <2>3
    <3>2. Pair(q) \notin db.member /\ ~Gone(Pair(q), db, issued)
      BY <1>5, <3>1 DEF MemberEffect, Gone, Pair
    <3>3. \E k \in SameMember(i, "GroupDeleteRecipient") : i < k
      BY <1>0, <1>2, <1>6, <2>1, <3>1, <3>2 DEF Standing
    <3>. QED  BY <1>2, <1>3, <2>1, <2>3, <3>3
  <2>. QED  BY <1>3, <1>6, <2>1, <2>2, <2>3
<1>7. ASSUME NEW i \in CallEntries', NEW j \in SameMember(i, "GroupDeleteRecipient")',
             Req(i)'.op = "GroupDeleteRecipient", i < j
      PROVE  \E k \in SameMember(i, "GroupAddRecipient")' : i < k /\ k < j
  <2>1. i \in CallEntries
    BY <1>2, <1>4, <1>7
  <2>2. CASE j \in SameMember(i, "GroupDeleteRecipient")
    <3>1. \E k \in SameMember(i, "GroupAddRecipient") : i < k /\ k < j
      BY <1>0, <1>2, <1>7, <2>1, <2>2 DEF MembershipAlternates
    <3>. QED  BY <1>3, <2>1, <3>1
  <2>3. CASE j = n
    <3>1. Pair(q) = Pair(Req(i)) /\ q.op = "GroupDeleteRecipient"
      BY <1>3, <1>7, <2>1, <2>3
    <3>2. Pair(q) \in db.member
      BY <1>5, <3>1 DEF MemberEffect
    <3>3. \E k \in SameMember(i, "GroupAddRecipient") : i < k
      BY <1>0, <1>2, <1>7, <2>1, <3>1, <3>2 DEF Standing
    <3>. QED  BY <1>2, <1>3, <2>1, <2>3, <3>3
  <2>. QED  BY <1>3, <1>7, <2>1, <2>2, <2>3
<1>. QED  BY <1>6, <1>7 DEF MembershipAlternates

\* The deletion of a user is an entry of no call.
LEMMA UserGoesKeeps ==
    ASSUME OrderInv, IInv', NEW u \in User, UserGoes(u)
    PROVE  OrderInv'
<1>0. Standing /\ IInv /\ u \in Call \cup User /\ u \notin Call
      /\ NothingAfterDeletion /\ MembershipAlternates
  BY CallsAreNotUsers DEF OrderInv
<1>1. PICK n : n = Len(log) + 1
  OBVIOUS
<1>2. /\ DOMAIN log' = DOMAIN log \cup {n} /\ log'[n] = u
      /\ \A i \in DOMAIN log : i < n /\ ~(n < i) /\ i # n /\ log'[i] = log[i]
      /\ ~(n < n)
      /\ CallEntries \subseteq DOMAIN log
      /\ CallEntries' = CallEntries
      /\ \A i \in CallEntries : Req(i)' = Req(i)
  BY <1>0, <1>1, LogGrows DEF UserGoes
<1>3. \A op : \A i \in CallEntries :
        SameMember(i, op) \subseteq CallEntries /\ SameMember(i, op)' = SameMember(i, op)
  <2>1. \A op : \A i \in CallEntries :
          /\ SameMember(i, op) \subseteq CallEntries
          /\ SameMember(i, op) \subseteq SameMember(i, op)'
          /\ SameMember(i, op)' \subseteq SameMember(i, op) \cup {n}
          /\ (n \in SameMember(i, op)')
                <=> (u \in Call /\ call[u].req.op = op /\ Pair(call[u].req) = Pair(Req(i)))
    BY <1>0, <1>1, SameMemberGrows DEF UserGoes
  <2>. QED  BY <1>0, <2>1
<1>4. /\ \A r : Removed(r, db, issued) => Removed(r, db', issued')
      /\ \A p : Gone(p, db, issued) => Gone(p, db', issued')
  BY StaysGone DEF UserGoes
<1>5. LosesMembers(db, db', issued')
  BY DEF UserGoes
<1>6. Standing'
  <2>1. \A i \in DOMAIN log' : log'[i] \in User => log'[i] \notin DOMAIN db'.user
    BY <1>0, <1>2 DEF Standing, UserGoes, NoReturn
  <2>2. \A i \in CallEntries' : Removed(Req(i)', db', issued')
    BY <1>0, <1>2, <1>4 DEF Standing
  <2>3. \A i \in CallEntries : Req(i).op = "GroupAddRecipient" =>
            \/ Pair(Req(i)) \in db'.member \/ Gone(Pair(Req(i)), db', issued')
            \/ \E k \in SameMember(i, "GroupDeleteRecipient") : i < k
    BY <1>0, <1>4, <1>5 DEF Standing, LosesMembers
  <2>4. \A i \in CallEntries : Req(i).op = "GroupDeleteRecipient" =>
            \/ Pair(Req(i)) \notin db'.member
            \/ \E k \in SameMember(i, "GroupAddRecipient") : i < k
    BY <1>0, <1>5 DEF Standing, LosesMembers
  <2>. QED  BY <1>2, <1>3, <2>1, <2>2, <2>3, <2>4 DEF Standing
<1>7. NothingAfterDeletion'
  <2>1. \A i \in DOMAIN log : log[i] \in Call => i \in CallEntries
    BY DEF CallEntries
  <2>2. \A i \in DOMAIN log', j \in CallEntries' : i < j => i \in DOMAIN log /\ j \in CallEntries
    BY <1>2
  <2>. QED  BY <1>0, <1>2, <2>1, <2>2 DEF NothingAfterDeletion
<1>8. MembershipAlternates'
  BY <1>0, <1>2, <1>3 DEF MembershipAlternates
<1>. QED  BY <1>6, <1>7, <1>8 DEF OrderInv

-----------------------------------------------------------------------------
(* Which steps are which.                                                  *)

\* A call enters the log when it is answered, not before.
LEMMA NotLoggedYet ==
    ASSUME IInv, NEW c \in Call, call[c].pc \notin Over
    PROVE  c \notin Logged
  BY DEF IInv, Confirmed, Over

\* A step of call c that is not over keeps the requests of those that are.
LEMMA OthersKeep ==
    ASSUME IInv, NEW c \in Call, NEW f, call' = [call EXCEPT ![c] = f],
           call[c].pc \notin Over \/ f.req = call[c].req
    PROVE  KeepsLogged
<1>1. call'[c] = f /\ \A k \in Call : k # c => call'[k] = call[k]
  BY TypeDef DEF IInv
<1>. QED  BY <1>1, NotLoggedYet DEF KeepsLogged

\* An answer changes only its own call.
LEMMA AnswerKeepsLogged ==
    ASSUME IInv, NEW c \in Call, NEW r, Answer(c, r), call[c].pc \notin Over
    PROVE  KeepsLogged
<1> DEFINE f == [call[c] EXCEPT !.pc = "reply", !.resp = r]
<1>1. call' = [call EXCEPT ![c] = f]
  BY DEF Answer
<1> HIDE DEF f
<1>. QED  BY <1>1, OthersKeep

\* A refusal enters no log.
LEMMA RefuseSilent ==
    ASSUME IInv, NEW c \in Call, NEW r, Refuse(c, r), r # "Ok", call[c].pc \notin Over
    PROVE  Silent
<1>1. Answer(c, r) /\ UNCHANGED <<db, issued>>
  BY DEF Refuse
<1>2. log' = log
  BY <1>1 DEF Answer
<1>3. KeepsLogged
  BY <1>1, AnswerKeepsLogged
<1>. QED  BY <1>1, <1>2, <1>3 DEF Silent

\* The owner of a row, and the types of ids.
LEMMA Owners ==
    ASSUME IInv
    PROVE  /\ \A u : \A x \in Owned(db.template, u) \cup Owned(db.recipient, u)
                                \cup Owned(db.group, u) :
                u \in DOMAIN db.user /\ x \in Id(db)
           /\ DOMAIN db.user \subseteq User
           /\ DOMAIN db.template \subseteq Template /\ DOMAIN db.template \subseteq issued
           /\ DOMAIN db.recipient \subseteq Recipient /\ DOMAIN db.recipient \subseteq issued
           /\ DOMAIN db.group \subseteq Group /\ DOMAIN db.group \subseteq issued
<1>1. IsStore(db) /\ References(db) /\ Keys(db) \subseteq issued
  BY DEF IInv, TypeOK, Sound, StoreInvariant
<1>. QED  BY <1>1 DEF IsStore, IsTable, References, Owned, Id, Keys

\* What a request of each kind names.
LEMMA ValidIf ==
    ASSUME IInv, NEW c \in Call, NEW q, q = call[c].req,
           q.op \notin ListOps \cup {"GroupGetRecipients"} => q.user \in DOMAIN db.user,
           q.op \notin ConfirmOps \cup CreateOps \cup ListOps \cup {"GroupGetRecipients"}
                => q.arg \in Id(db),
           q.op \in MemberOps => q.recipient \in DOMAIN db.recipient,
           q.op \in {"GroupCreate", "GroupModifyGroup"}
                => q.body.template \in DOMAIN db.template \cup {NULL}
    PROVE  Valid(q, db)
<1>1. IsRequest(q)
  BY DEF IInv, TypeOK
<1>2. q.op \notin MemberOps => q.recipient = NULL
  BY <1>1 DEF IsRequest
<1>3. q.op \in CreateOps \cup ListOps => q.arg = NULL
  BY <1>1 DEF IsRequest, IdsOf, CreateOps, ListOps, ConfirmOps, MemberOps
<1>4. ASSUME q.op # "GroupGetRecipients" PROVE NamedBy(q) \ {NULL} \subseteq Id(db)
  <2>1. CASE q.op \in ConfirmOps
    BY <2>1 DEF NamedBy
  <2>2. CASE q.op \notin ConfirmOps
    <3>1. q.arg \in Id(db) \cup {NULL}
      BY <1>3, <1>4, <2>2
    <3>2. q.recipient \in Id(db) \cup {NULL}
      BY <1>2 DEF Id
    <3>3. q.op \in {"GroupCreate", "GroupModifyGroup"} => q.body.template \in Id(db) \cup {NULL}
      BY DEF Id
    <3>. QED  BY <2>2, <3>1, <3>2, <3>3 DEF NamedBy
  <2>. QED  BY <2>1, <2>2
<1>. QED  BY <1>4 DEF Valid

\* A statement that ends a call.
LEMMA Success ==
    ASSUME IInv, NEW c \in Call, Answer(c, "Ok"), call[c].pc \notin Over,
           issued \subseteq issued', NoReturn(db, db', issued),
           Valid(call[c].req, db), Removed(call[c].req, db', issued'),
           MemberEffect(call[c].req, db, db', issued')
    PROVE  Succeeds(c)
<1>1. log' = Append(log, c)
  BY DEF Answer
<1>. QED  BY <1>1, AnswersKeepRequests, AnswerKeepsLogged DEF Succeeds

\* One that leaves the ids as they are.
LEMMA SameIds ==
    ASSUME NEW q, NEW d, NEW e, NEW old, NEW new, old \subseteq new,
           e.user = d.user, e.member = d.member,
           old \cap DOMAIN e.template \subseteq DOMAIN d.template,
           old \cap DOMAIN e.recipient \subseteq DOMAIN d.recipient,
           old \cap DOMAIN e.group \subseteq DOMAIN d.group,
           q.op \notin RemoveOps \cup MemberOps
    PROVE  NoReturn(d, e, old) /\ Removed(q, e, new) /\ MemberEffect(q, d, e, new)
<1>1. NoReturn(d, e, old)
  BY DEF NoReturn
<1>2. MemberEffect(q, d, e, new)
  BY DEF MemberEffect, MemberOps, LosesMembers
<1>. QED  BY <1>1, <1>2 DEF Removed

\* A read that is answered Ok.
LEMMA ReadSucceeds ==
    ASSUME IInv, NEW c \in Call, Refuse(c, "Ok"), call[c].pc \notin Over,
           call[c].req.op \notin RemoveOps \cup MemberOps, Valid(call[c].req, db)
    PROVE  Succeeds(c)
<1>1. Answer(c, "Ok") /\ UNCHANGED <<db, issued>>
  BY DEF Refuse
<1>2. /\ NoReturn(db, db', issued) /\ Removed(call[c].req, db', issued')
      /\ MemberEffect(call[c].req, db, db', issued')
  BY <1>1, SameIds
<1>. QED  BY <1>1, <1>2, Success

-----------------------------------------------------------------------------
(* The statements: what they do to ids and members.                        *)

\* Statements on drafts.
LEMMA DraftFields ==
    ASSUME NEW d \in Store
    PROVE  /\ \A k, u, x : DraftsOnly(d, InsertTemplateDraft(d, k, u, x))
           /\ \A k, u, x : DraftsOnly(d, InsertRecipientDraft(d, k, u, x))
           /\ \A k, u, x, y : DraftsOnly(d, InsertGroupDraft(d, k, u, x, y))
           /\ \A k, u : DraftsOnly(d, DeleteTemplateDraft(d, u, k))
           /\ \A k, u : DraftsOnly(d, DeleteRecipientDraft(d, u, k))
  BY DEF DraftsOnly, Store, InsertTemplateDraft, InsertRecipientDraft, InsertGroupDraft,
         DeleteTemplateDraft, DeleteRecipientDraft

\* An INSERT or an UPDATE of one row.
OneTemplate(d, e, t) ==
    /\ e.user = d.user /\ e.recipient = d.recipient
    /\ e.group = d.group /\ e.member = d.member
    /\ DOMAIN e.template = DOMAIN d.template \cup {t}

OneRecipient(d, e, r) ==
    /\ e.user = d.user /\ e.template = d.template
    /\ e.group = d.group /\ e.member = d.member
    /\ DOMAIN e.recipient = DOMAIN d.recipient \cup {r}

OneGroup(d, e, g) ==
    /\ e.user = d.user /\ e.template = d.template
    /\ e.recipient = d.recipient /\ e.member = d.member
    /\ DOMAIN e.group = DOMAIN d.group \cup {g}

\* Statements on template.
LEMMA TemplateFields ==
    ASSUME NEW d \in Store, NEW t
    PROVE  /\ \A u, x : OneTemplate(d, InsertTemplate(d, t, u, x), t)
           /\ \A x : OneTemplate(d, UpdateTemplate(d, t, x), t)
           /\ LET e == DeleteTemplate(d, t)
              IN  /\ e.user = d.user /\ e.recipient = d.recipient /\ e.member = d.member
                  /\ DOMAIN e.group = DOMAIN d.group
                  /\ DOMAIN e.template = DOMAIN d.template \ {t}
  BY DEF Store, InsertTemplate, UpdateTemplate, DeleteTemplate, With, Without, Restrict,
         UnsetTemplates, OneTemplate

\* Statements on recipient.
LEMMA RecipientFields ==
    ASSUME NEW d \in Store, NEW r
    PROVE  /\ \A u, x : OneRecipient(d, InsertRecipient(d, r, u, x), r)
           /\ \A x : OneRecipient(d, UpdateRecipient(d, r, x), r)
           /\ LET e == DeleteRecipient(d, r)
              IN  /\ e.user = d.user /\ e.template = d.template /\ e.group = d.group
                  /\ e.member = WithoutMembers(d.member, {r}, {})
                  /\ DOMAIN e.recipient = DOMAIN d.recipient \ {r}
  BY DEF Store, InsertRecipient, UpdateRecipient, DeleteRecipient, With, Without, Restrict,
         OneRecipient

\* Statements on recipient_group.
LEMMA GroupFields ==
    ASSUME NEW d \in Store, NEW g
    PROVE  /\ \A u, x, y : OneGroup(d, InsertGroup(d, g, u, x, y), g)
           /\ \A x, y : OneGroup(d, UpdateGroup(d, g, x, y), g)
           /\ LET e == DeleteGroup(d, g)
              IN  /\ e.user = d.user /\ e.template = d.template
                  /\ e.recipient = d.recipient
                  /\ e.member = WithoutMembers(d.member, {}, {g})
                  /\ DOMAIN e.group = DOMAIN d.group \ {g}
  BY DEF Store, InsertGroup, UpdateGroup, DeleteGroup, With, Without, Restrict, OneGroup

\* Statements on recipient_recipient_group.
LEMMA MemberFields ==
    ASSUME NEW d \in Store, NEW r, NEW g
    PROVE  /\ LET e == InsertMember(d, r, g)
              IN  /\ e.user = d.user /\ e.template = d.template
                  /\ e.recipient = d.recipient /\ e.group = d.group
                  /\ e.member = d.member \cup {<<r, g>>}
           /\ LET e == DeleteMember(d, r, g)
              IN  /\ e.user = d.user /\ e.template = d.template
                  /\ e.recipient = d.recipient /\ e.group = d.group
                  /\ e.member = d.member \ {<<r, g>>}
  BY DEF Store, InsertMember, DeleteMember

-----------------------------------------------------------------------------
(* The steps.                                                              *)

\* A step from one statement of a handler to the next.
LEMMA MoveSilent ==
    ASSUME IInv, NEW c \in Call, NEW f, call' = [call EXCEPT ![c] = f],
           UNCHANGED <<db, log>>, issued \subseteq issued',
           call[c].pc \notin Over \/ f.req = call[c].req
    PROVE  Silent
  BY OthersKeep DEF Silent

\* A request comes, and its arguments, body and token are examined.
LEMMA EntrySilent ==
    ASSUME IInv, NEW c \in Call,
           Receive(c) \/ BadArgument(c) \/ BadBody(c) \/ VerifyJWT(c)
    PROVE  Silent
<1>1. call[c].pc \notin Over
  BY DEF Receive, BadArgument, BadBody, VerifyJWT, Over
<1>2. ASSUME Receive(c) PROVE Silent
  <2>1. PICK q \in Requests : /\ call' = [call EXCEPT ![c].pc = "verify", ![c].req = q]
                              /\ issued \subseteq issued'
    BY <1>2 DEF Receive
  <2> DEFINE f == [call[c] EXCEPT !.pc = "verify", !.req = q]
  <2>2. call' = [call EXCEPT ![c] = f]
    BY <2>1
  <2> HIDE DEF f
  <2>. QED  BY <1>1, <1>2, <2>1, <2>2, MoveSilent DEF Receive
<1>3. ASSUME \E r \in Response \ {"Ok"} : Refuse(c, r) PROVE Silent
  BY <1>1, <1>3, RefuseSilent
<1>4. CASE call' = [call EXCEPT ![c].pc = "statement"] /\ UNCHANGED <<db, issued, log>>
  <2> DEFINE f == [call[c] EXCEPT !.pc = "statement"]
  <2>1. call' = [call EXCEPT ![c] = f]
    BY <1>4
  <2> HIDE DEF f
  <2>. QED  BY <1>1, <1>4, <2>1, MoveSilent
<1>. QED  BY <1>2, <1>3, <1>4 DEF BadArgument, BadBody, VerifyJWT, Response

\* The answer goes out, or the service stops.
LEMMA EndSilent ==
    ASSUME IInv, NEW c \in Call, Reply(c) \/ Abort(c)
    PROVE  Silent
<1> DEFINE f == IF Reply(c) THEN [call[c] EXCEPT !.pc = "done"]
                ELSE [call[c] EXCEPT !.pc = "done", !.resp = "Aborted"]
<1>1. f.req = call[c].req
  BY CallUpdate DEF CallState
<1>2. call' = [call EXCEPT ![c] = f] /\ UNCHANGED <<db, issued, log>>
  BY DEF Reply, Abort
<1> HIDE DEF f
<1>. QED  BY <1>1, <1>2, MoveSilent

\* The two checks of a member statement.
LEMMA CheckSilent ==
    ASSUME IInv, NEW c \in Call, CheckGroup(c) \/ CheckRecipient(c)
    PROVE  Silent
<1>1. call[c].pc \notin Over
  BY DEF CheckGroup, CheckRecipient, Over
<1>2. CASE Refuse(c, "NotFound")
  BY <1>1, <1>2, RefuseSilent
<1>3. CASE call' = [call EXCEPT ![c].pc = "write"] /\ UNCHANGED <<db, issued, log>>
  <2> DEFINE f == [call[c] EXCEPT !.pc = "write"]
  <2>1. call' = [call EXCEPT ![c] = f]
    BY <1>3
  <2> HIDE DEF f
  <2>. QED  BY <1>1, <1>3, <2>1, MoveSilent
<1>4. CASE CheckGroup(c)
  <2> DEFINE f == [call[c] EXCEPT !.pc = "recipient",
                     !.found = call[c].req.arg \in Owned(db.group, call[c].req.user)]
  <2>1. call' = [call EXCEPT ![c] = f] /\ UNCHANGED <<db, issued, log>>
    BY <1>4 DEF CheckGroup
  <2> HIDE DEF f
  <2>. QED  BY <1>1, <2>1, MoveSilent
<1>. QED  BY <1>2, <1>3, <1>4 DEF CheckRecipient

\* The SELECT of a confirmation.
LEMMA CopySilent ==
    ASSUME IInv, NEW c \in Call,
           \/ TemplateConfirmCreation(c) \/ RecipientConfirmCreation(c)
           \/ GroupConfirmCreation(c)
    PROVE  Silent
<1>1. call[c].pc \notin Over /\ \E drafts : CopyDraft(c, drafts)
  BY DEF TemplateConfirmCreation, RecipientConfirmCreation, GroupConfirmCreation, At, Over
<1>2. PICK drafts : CopyDraft(c, drafts)
  BY <1>1
<1>3. CASE Refuse(c, "NotFound")
  BY <1>1, <1>3, RefuseSilent
<1>4. CASE /\ call' = [call EXCEPT ![c].pc = "commit", ![c].row = drafts[call[c].req.arg]]
           /\ UNCHANGED <<db, issued, log>>
  <2> DEFINE f == [call[c] EXCEPT !.pc = "commit", !.row = drafts[call[c].req.arg]]
  <2>1. call' = [call EXCEPT ![c] = f]
    BY <1>4
  <2> HIDE DEF f
  <2>. QED  BY <1>1, <1>4, <2>1, MoveSilent
<1>. QED  BY <1>2, <1>3, <1>4 DEF CopyDraft

\* The reads: what GetById names belongs to its user.
LEMMA ReadOrder ==
    ASSUME IInv, NEW c \in Call,
           \/ TemplateGetById(c) \/ TemplateGetAll(c)
           \/ RecipientGetById(c) \/ RecipientGetAll(c)
           \/ GroupGetById(c) \/ GroupGetActive(c) \/ GroupGetAll(c)
           \/ GroupGetRecipients(c) \/ ListRecipients(c)
    PROVE  Silent \/ Succeeds(c)
<1> DEFINE q == call[c].req
<1>1. call[c].pc \notin Over
  BY DEF TemplateGetById, TemplateGetAll, RecipientGetById, RecipientGetAll, GroupGetById,
         GroupGetActive, GroupGetAll, GroupGetRecipients, ListRecipients, At, Over
<1>2. ASSUME NEW r \in {"NotFound", "ServerError"}, Refuse(c, r) PROVE Silent
  BY <1>1, <1>2, RefuseSilent
<1>3. ASSUME Refuse(c, "Ok"),
             \/ q.op \in ListOps \cup {"GroupGetRecipients"}
             \/ /\ q.op \in {"TemplateGetById", "RecipientGetById", "GroupGetById"}
                /\ q.arg \in Owned(db.template, q.user) \cup Owned(db.recipient, q.user)
                               \cup Owned(db.group, q.user)
      PROVE  Succeeds(c)
  <2>1. /\ q.op \notin RemoveOps \cup MemberOps
        /\ q.op \notin MemberOps \cup {"GroupCreate", "GroupModifyGroup"}
    BY <1>3 DEF RemoveOps, MemberOps, ListOps
  <2>2. q.op \notin ListOps \cup {"GroupGetRecipients"}
            => q.user \in DOMAIN db.user /\ q.arg \in Id(db)
    BY <1>3, Owners
  <2>3. Valid(q, db)
    BY <2>1, <2>2, ValidIf
  <2>. QED  BY <1>1, <1>3, <2>1, <2>3, ReadSucceeds
<1>4. CASE TemplateGetById(c) \/ RecipientGetById(c) \/ GroupGetById(c)
  BY <1>2, <1>3, <1>4 DEF TemplateGetById, RecipientGetById, GroupGetById, At
<1>5. CASE TemplateGetAll(c) \/ RecipientGetAll(c) \/ GroupGetAll(c) \/ GroupGetActive(c)
  BY <1>3, <1>5 DEF TemplateGetAll, RecipientGetAll, GroupGetAll, GroupGetActive, At, ListOps
<1>6. CASE GroupGetRecipients(c)
  <2>1. CASE call' = [call EXCEPT ![c].pc = "list"] /\ UNCHANGED <<db, issued, log>>
    <3> DEFINE f == [call[c] EXCEPT !.pc = "list"]
    <3>1. call' = [call EXCEPT ![c] = f]
      BY <2>1
    <3> HIDE DEF f
    <3>. QED  BY <1>1, <2>1, <3>1, MoveSilent
  <2>. QED  BY <1>2, <1>6, <2>1 DEF GroupGetRecipients
<1>7. CASE ListRecipients(c)
  <2>1. q.op = "GroupGetRecipients"
    BY <1>7 DEF ListRecipients, IInv, CallSafe
  <2>. QED  BY <1>2, <1>3, <1>7, <2>1 DEF ListRecipients
<1>. QED  BY <1>4, <1>5, <1>6, <1>7

\* The store of the pre-state.
LEMMA StoreNow ==
    ASSUME IInv
    PROVE  db \in Store /\ References(db)
  BY IsStoreDef DEF IInv, TypeOK, Sound, StoreInvariant

\* The INSERT of a draft or of a group.
LEMMA CreateOrder ==
    ASSUME IInv, NEW c \in Call,
           TemplateCreate(c) \/ RecipientCreate(c) \/ GroupCreate(c)
    PROVE  Silent \/ Succeeds(c)
<1> DEFINE q == call[c].req
<1>1. /\ call[c].pc \notin Over /\ q.op \in CreateOps
      /\ q.op = "GroupCreate" <=> GroupCreate(c)
  BY DEF TemplateCreate, RecipientCreate, GroupCreate, At, Over, CreateOps
<1>2. CASE \E r \in {"ServerError", "Invalid"} : Refuse(c, r)
  BY <1>1, <1>2, RefuseSilent
<1>3. CASE /\ Answer(c, "Ok") /\ DraftsOnly(db, db') /\ issued \subseteq issued'
           /\ q.user \in DOMAIN db.user
           /\ q.op = "GroupCreate" => q.body.template \in DOMAIN db.template \cup {NULL}
  <2>1. q.op \notin RemoveOps \cup MemberOps \cup ConfirmOps
        /\ q.op \notin {"GroupModifyGroup"}
    BY <1>1 DEF RemoveOps, MemberOps, CreateOps, ConfirmOps
  <2>2. Valid(q, db)
    BY <1>1, <1>3, <2>1, ValidIf
  <2>3. /\ NoReturn(db, db', issued) /\ Removed(q, db', issued')
        /\ MemberEffect(q, db, db', issued')
    BY <1>3, <2>1, SameIds DEF DraftsOnly
  <2>. QED  BY <1>1, <1>3, <2>2, <2>3, Success
<1>4. CASE TemplateCreate(c)
  BY <1>1, <1>2, <1>3, <1>4, StoreNow, DraftFields DEF TemplateCreate, At
<1>5. CASE RecipientCreate(c)
  BY <1>1, <1>2, <1>3, <1>5, StoreNow, DraftFields DEF RecipientCreate, At
<1>6. CASE GroupCreate(c)
  <2>1. BadTemplate(q.body.template) \in {"ServerError", "Invalid"}
    BY DEF BadTemplate
  <2>. QED  BY <1>1, <1>2, <1>3, <1>6, <2>1, StoreNow, DraftFields DEF GroupCreate, At
<1>. QED  BY <1>4, <1>5, <1>6

\* The INSERT of a confirmation: its id is new.
LEMMA CommitOrder ==
    ASSUME IInv, NEW c \in Call, CommitTemplate(c) \/ CommitRecipient(c) \/ CommitGroup(c)
    PROVE  Succeeds(c)
<1> DEFINE q == call[c].req
<1>1. /\ call[c].pc \notin Over /\ call[c].pc = "commit" /\ Held(c)
      /\ Answer(c, "Ok")
  BY DEF CommitTemplate, CommitRecipient, CommitGroup, AtCommit, Over, IInv, CallSafe
<1>2. q.op \in ConfirmOps /\ q.user \in DOMAIN db.user
  BY <1>1 DEF Held
<1>3. /\ q.op \notin RemoveOps \cup MemberOps \cup CreateOps \cup ListOps
      /\ q.op \notin {"GroupCreate", "GroupModifyGroup", "GroupGetRecipients"}
  BY <1>2 DEF RemoveOps, MemberOps, ConfirmOps, CreateOps, ListOps
<1>4. Valid(q, db)
  BY <1>2, <1>3, ValidIf
<1>5. /\ issued \subseteq issued' /\ db'.user = db.user /\ db'.member = db.member
      /\ issued \cap DOMAIN db'.template \subseteq DOMAIN db.template
      /\ issued \cap DOMAIN db'.recipient \subseteq DOMAIN db.recipient
      /\ issued \cap DOMAIN db'.group \subseteq DOMAIN db.group
  <2>0. db \in Store /\ StoreInvariant(db)
    BY StoreNow DEF IInv, Sound
  <2>1. CASE CommitTemplate(c)
    <3> DEFINE t == NewId(Template)
               e == InsertTemplate(db, t, q.user, call[c].row.text)
    <3>1. /\ t \notin issued /\ issued' = issued \cup {t}
          /\ db' = DeleteTemplateDraft(e, q.user, q.arg)
      BY <2>1, NewIdIsNew DEF CommitTemplate
    <3>2. t \in Template \ issued
      BY <2>1, NewIdIsNew DEF CommitTemplate
    <3> HIDE DEF t
    <3>3. OneTemplate(db, e, t)
      BY <2>0, TemplateFields
    <3>4. e \in Store
      <4>1. call[c].row.text \in Text \cup {NULL}
        BY <1>1, <2>1 DEF Held, CommitTemplate, AtCommit, TemplateRow
      <4>2. Preserves(db, e, issued, issued \cup {t})
        BY <1>2, <3>2, <4>1, TemplateStatements DEF IInv
      <4>. QED  BY <4>2, IsStoreDef DEF Preserves, Sound, StoreInvariant
    <3> HIDE DEF e
    <3>5. DraftsOnly(e, db')
      BY <3>1, <3>4, DraftFields
    <3>. QED  BY <3>1, <3>3, <3>5 DEF DraftsOnly, OneTemplate
  <2>2. CASE CommitRecipient(c)
    <3> DEFINE r == NewId(Recipient)
               e == InsertRecipient(db, r, q.user, call[c].row.chat)
    <3>1. /\ issued' = issued \cup {r}
          /\ db' = DeleteRecipientDraft(e, q.user, q.arg)
      BY <2>2 DEF CommitRecipient
    <3>2. r \in Recipient \ issued
      BY <2>2, NewIdIsNew DEF CommitRecipient
    <3> HIDE DEF r
    <3>3. OneRecipient(db, e, r)
      BY <2>0, RecipientFields
    <3>4. e \in Store
      <4>1. call[c].row.chat \in Chat \cup {NULL}
        BY <1>1, <2>2 DEF Held, CommitRecipient, AtCommit, RecipientRow
      <4>2. Preserves(db, e, issued, issued \cup {r})
        BY <1>2, <3>2, <4>1, RecipientStatements DEF IInv
      <4>. QED  BY <4>2, IsStoreDef DEF Preserves, Sound, StoreInvariant
    <3> HIDE DEF e
    <3>5. DraftsOnly(e, db')
      BY <3>1, <3>4, DraftFields
    <3>. QED  BY <3>1, <3>2, <3>3, <3>5 DEF DraftsOnly, OneRecipient
  <2>3. CASE CommitGroup(c)
    <3> DEFINE g == NewId(Group)
               row == call[c].row
               e == InsertGroup(db, g, q.user, row.active, row.template)
    <3>1. /\ issued' = issued \cup {g}
          /\ db' = DeleteTemplateDraft(e, q.user, q.arg)
      BY <2>3 DEF CommitGroup
    <3>2. g \in Group \ issued
      BY <2>3, NewIdIsNew DEF CommitGroup
    <3> HIDE DEF g
    <3>3. OneGroup(db, e, g)
      BY <2>0, GroupFields
    <3>4. e \in Store
      <4>1. row \in GroupRow /\ row.template \in DOMAIN db.template \cup {NULL}
        BY <1>1, <2>3 DEF Held, CommitGroup, AtCommit
      <4>2. row.active \in BOOLEAN
        BY <4>1 DEF GroupRow
      <4>3. Preserves(db, e, issued, issued \cup {g})
        BY <1>2, <3>2, <4>1, <4>2, GroupStatements DEF IInv
      <4>. QED  BY <4>3, IsStoreDef DEF Preserves, Sound, StoreInvariant
    <3> HIDE DEF e
    <3>5. DraftsOnly(e, db')
      BY <3>1, <3>4, DraftFields
    <3>. QED  BY <3>1, <3>2, <3>3, <3>5 DEF DraftsOnly, OneGroup
  <2>. QED  BY <2>1, <2>2, <2>3
<1>6. /\ NoReturn(db, db', issued) /\ Removed(q, db', issued')
      /\ MemberEffect(q, db, db', issued')
  BY <1>3, <1>5, SameIds
<1>. QED  BY <1>1, <1>4, <1>5, <1>6, Success

\* An UPDATE or a DELETE of a row that the user owns.
LEMMA WriteOrder ==
    ASSUME IInv, NEW c \in Call, NEW ok \in BOOLEAN, NEW d, WriteOr404(c, ok, d),
           call[c].pc \notin Over,
           ok => /\ NoReturn(db, d, issued) /\ Valid(call[c].req, db)
                 /\ Removed(call[c].req, d, issued)
                 /\ MemberEffect(call[c].req, db, d, issued)
    PROVE  Silent \/ Succeeds(c)
<1>1. CASE ok
  <2>1. db' = d /\ Answer(c, "Ok") /\ UNCHANGED issued
    BY <1>1 DEF WriteOr404
  <2>. QED  BY <1>1, <2>1, Success
<1>2. CASE ~ok
  <2>1. Refuse(c, "NotFound")
    BY <1>2 DEF WriteOr404
  <2>. QED  BY <2>1, RefuseSilent
<1>. QED  BY <1>1, <1>2

\* The UPDATEs.
LEMMA ModifyOrder ==
    ASSUME IInv, NEW c \in Call,
           TemplateModify(c) \/ RecipientModify(c) \/ GroupModifyGroup(c)
    PROVE  Silent \/ Succeeds(c)
<1> DEFINE q == call[c].req
           own == Owned(db.template, q.user) \cup Owned(db.recipient, q.user)
                    \cup Owned(db.group, q.user)
<1>0. db \in Store /\ call[c].pc \notin Over /\ q.op \in ModifyOps
  BY StoreNow DEF TemplateModify, RecipientModify, GroupModifyGroup, At, Over, ModifyOps
<1>1. /\ q.op \notin RemoveOps \cup MemberOps \cup CreateOps \cup ListOps \cup ConfirmOps
      /\ q.op \notin {"GroupCreate", "GroupGetRecipients"}
  BY <1>0 DEF RemoveOps, MemberOps, CreateOps, ListOps, ConfirmOps, ModifyOps
<1>2. ASSUME NEW d, q.arg \in own,
             q.op = "GroupModifyGroup" => q.body.template \in DOMAIN db.template \cup {NULL},
             d.user = db.user, d.member = db.member,
             DOMAIN d.template = DOMAIN db.template,
             DOMAIN d.recipient = DOMAIN db.recipient, DOMAIN d.group = DOMAIN db.group
      PROVE  /\ NoReturn(db, d, issued) /\ Valid(q, db) /\ Removed(q, d, issued)
             /\ MemberEffect(q, db, d, issued)
  <2>1. q.user \in DOMAIN db.user /\ q.arg \in Id(db)
    BY <1>2, Owners
  <2>2. Valid(q, db)
    BY <1>1, <1>2, <2>1, ValidIf
  <2>. QED  BY <1>1, <1>2, <2>2, SameIds
<1>3. CASE TemplateModify(c)
  <2> DEFINE ok == q.arg \in Owned(db.template, q.user)
             d == UpdateTemplate(db, q.arg, q.body.text)
  <2>1. WriteOr404(c, ok, d) /\ q.op # "GroupModifyGroup"
    BY <1>3 DEF TemplateModify, At
  <2>2. ok => /\ q.arg \in own /\ d.user = db.user /\ d.member = db.member
              /\ DOMAIN d.template = DOMAIN db.template
              /\ DOMAIN d.recipient = DOMAIN db.recipient /\ DOMAIN d.group = DOMAIN db.group
    <3>1. ok => q.arg \in DOMAIN db.template
      BY DEF Owned
    <3>2. OneTemplate(db, d, q.arg)
      BY <1>0, TemplateFields
    <3> HIDE DEF d
    <3>. QED  BY <3>1, <3>2 DEF OneTemplate
  <2>3. ok \in BOOLEAN
    OBVIOUS
  <2> HIDE DEF d, ok, own
  <2>. QED  BY <1>0, <1>2, <2>1, <2>2, <2>3, WriteOrder
<1>4. CASE RecipientModify(c)
  <2> DEFINE ok == q.arg \in Owned(db.recipient, q.user)
             d == UpdateRecipient(db, q.arg, q.body.chat)
  <2>1. WriteOr404(c, ok, d) /\ q.op # "GroupModifyGroup"
    BY <1>4 DEF RecipientModify, At
  <2>2. ok => /\ q.arg \in own /\ d.user = db.user /\ d.member = db.member
              /\ DOMAIN d.template = DOMAIN db.template
              /\ DOMAIN d.recipient = DOMAIN db.recipient /\ DOMAIN d.group = DOMAIN db.group
    <3>1. ok => q.arg \in DOMAIN db.recipient
      BY DEF Owned
    <3>2. OneRecipient(db, d, q.arg)
      BY <1>0, RecipientFields
    <3> HIDE DEF d
    <3>. QED  BY <3>1, <3>2 DEF OneRecipient
  <2>3. ok \in BOOLEAN
    OBVIOUS
  <2> HIDE DEF d, ok, own
  <2>. QED  BY <1>0, <1>2, <2>1, <2>2, <2>3, WriteOrder
<1>5. CASE GroupModifyGroup(c)
  <2> DEFINE ok == q.arg \in Owned(db.group, q.user)
             d == UpdateGroup(db, q.arg, q.body.active, q.body.template)
             known == q.body.template \in DOMAIN db.template \cup {NULL}
  <2>1. CASE Refuse(c, "Invalid")
    BY <1>0, <2>1, RefuseSilent
  <2>2. CASE WriteOr404(c, ok, d) /\ (ok => known)
    <3>1. ok => /\ q.arg \in own /\ d.user = db.user /\ d.member = db.member
                /\ DOMAIN d.template = DOMAIN db.template
                /\ DOMAIN d.recipient = DOMAIN db.recipient
                /\ DOMAIN d.group = DOMAIN db.group
      <4>1. ok => q.arg \in DOMAIN db.group
        BY DEF Owned
      <4>2. OneGroup(db, d, q.arg)
        BY <1>0, GroupFields
      <4> HIDE DEF d
      <4>. QED  BY <4>1, <4>2 DEF OneGroup
    <3>2. ok \in BOOLEAN
      OBVIOUS
    <3>3. WriteOr404(c, ok, d) /\ (ok => known)
      BY <2>2
    <3> HIDE DEF d, ok, own
    <3>. QED  BY <1>0, <1>2, <3>1, <3>2, <3>3, WriteOrder
  <2>. QED  BY <1>5, <2>1, <2>2 DEF GroupModifyGroup
<1>. QED  BY <1>3, <1>4, <1>5

\* The DELETEs: the id was issued, and no row has it any more.
LEMMA DeleteOrder ==
    ASSUME IInv, NEW c \in Call,
           TemplateDelete(c) \/ RecipientDelete(c) \/ GroupDeleteGroup(c)
    PROVE  Silent \/ Succeeds(c)
<1> DEFINE q == call[c].req
           own == Owned(db.template, q.user) \cup Owned(db.recipient, q.user)
                    \cup Owned(db.group, q.user)
<1>0. db \in Store /\ call[c].pc \notin Over /\ q.op \in RemoveOps
  BY StoreNow DEF TemplateDelete, RecipientDelete, GroupDeleteGroup, At, Over, RemoveOps
<1>1. /\ q.op \notin MemberOps \cup CreateOps \cup ListOps \cup ConfirmOps
      /\ q.op \notin {"GroupCreate", "GroupModifyGroup", "GroupGetRecipients",
                      "GroupAddRecipient", "GroupDeleteRecipient"}
  BY <1>0 DEF RemoveOps, MemberOps, CreateOps, ListOps, ConfirmOps
<1>2. ASSUME NEW d, q.arg \in own, q.arg \notin Id(d), d.user = db.user,
             DOMAIN d.template \subseteq DOMAIN db.template,
             DOMAIN d.recipient \subseteq DOMAIN db.recipient,
             DOMAIN d.group \subseteq DOMAIN db.group,
             LosesMembers(db, d, issued)
      PROVE  /\ NoReturn(db, d, issued) /\ Valid(q, db) /\ Removed(q, d, issued)
             /\ MemberEffect(q, db, d, issued)
  <2>1. q.user \in DOMAIN db.user /\ q.arg \in Id(db)
    BY <1>2, Owners
  <2>2. Valid(q, db)
    BY <1>1, <1>2, <2>1, ValidIf
  <2>3. q.arg \in issued /\ q.arg # NULL
    BY <2>1, Owners, NullIsNoValue, KindsOfIds DEF Id
  <2>4. NoReturn(db, d, issued)
    BY <1>2 DEF NoReturn
  <2>5. MemberEffect(q, db, d, issued)
    BY <1>1, <1>2 DEF MemberEffect
  <2>. QED  BY <1>2, <2>2, <2>3, <2>4, <2>5 DEF Removed
<1>3. CASE TemplateDelete(c)
  <2> DEFINE ok == q.arg \in Owned(db.template, q.user)
             d == DeleteTemplate(db, q.arg)
  <2>1. WriteOr404(c, ok, d)
    BY <1>3 DEF TemplateDelete
  <2>2. ok => /\ q.arg \in own /\ q.arg \notin Id(d) /\ d.user = db.user
              /\ DOMAIN d.template \subseteq DOMAIN db.template
              /\ DOMAIN d.recipient \subseteq DOMAIN db.recipient
              /\ DOMAIN d.group \subseteq DOMAIN db.group
              /\ LosesMembers(db, d, issued)
    <3>1. ok => q.arg \in Template
      BY Owners DEF Owned
    <3>2. /\ d.user = db.user /\ d.recipient = db.recipient /\ d.member = db.member
          /\ DOMAIN d.group = DOMAIN db.group
          /\ DOMAIN d.template = DOMAIN db.template \ {q.arg}
      BY <1>0, TemplateFields
    <3> HIDE DEF d
    <3>. QED  BY <3>1, <3>2, Owners, KindsOfIds DEF Id, LosesMembers
  <2>3. ok \in BOOLEAN
    OBVIOUS
  <2> HIDE DEF d, ok, own
  <2>. QED  BY <1>0, <1>2, <2>1, <2>2, <2>3, WriteOrder
<1>4. CASE RecipientDelete(c)
  <2> DEFINE ok == q.arg \in Owned(db.recipient, q.user)
             d == DeleteRecipient(db, q.arg)
  <2>1. WriteOr404(c, ok, d)
    BY <1>4 DEF RecipientDelete
  <2>2. ok => /\ q.arg \in own /\ q.arg \notin Id(d) /\ d.user = db.user
              /\ DOMAIN d.template \subseteq DOMAIN db.template
              /\ DOMAIN d.recipient \subseteq DOMAIN db.recipient
              /\ DOMAIN d.group \subseteq DOMAIN db.group
              /\ LosesMembers(db, d, issued)
    <3>1. ok => q.arg \in Recipient /\ q.arg \in issued
      BY Owners DEF Owned
    <3>2. /\ d.user = db.user /\ d.template = db.template /\ d.group = db.group
          /\ d.member = WithoutMembers(db.member, {q.arg}, {})
          /\ DOMAIN d.recipient = DOMAIN db.recipient \ {q.arg}
      BY <1>0, RecipientFields
    <3> HIDE DEF d
    <3>3. ok => LosesMembers(db, d, issued)
      BY <3>1, <3>2 DEF LosesMembers, WithoutMembers, Gone
    <3>. QED  BY <3>1, <3>2, <3>3, Owners, KindsOfIds DEF Id
  <2>3. ok \in BOOLEAN
    OBVIOUS
  <2> HIDE DEF d, ok, own
  <2>. QED  BY <1>0, <1>2, <2>1, <2>2, <2>3, WriteOrder
<1>5. CASE GroupDeleteGroup(c)
  <2> DEFINE ok == q.arg \in Owned(db.group, q.user)
             d == DeleteGroup(db, q.arg)
  <2>1. WriteOr404(c, ok, d)
    BY <1>5 DEF GroupDeleteGroup
  <2>2. ok => /\ q.arg \in own /\ q.arg \notin Id(d) /\ d.user = db.user
              /\ DOMAIN d.template \subseteq DOMAIN db.template
              /\ DOMAIN d.recipient \subseteq DOMAIN db.recipient
              /\ DOMAIN d.group \subseteq DOMAIN db.group
              /\ LosesMembers(db, d, issued)
    <3>1. ok => q.arg \in Group /\ q.arg \in issued
      BY Owners DEF Owned
    <3>2. /\ d.user = db.user /\ d.template = db.template /\ d.recipient = db.recipient
          /\ d.member = WithoutMembers(db.member, {}, {q.arg})
          /\ DOMAIN d.group = DOMAIN db.group \ {q.arg}
      BY <1>0, GroupFields
    <3> HIDE DEF d
    <3>3. ok => LosesMembers(db, d, issued)
      BY <3>1, <3>2 DEF LosesMembers, WithoutMembers, Gone
    <3>. QED  BY <3>1, <3>2, <3>3, Owners, KindsOfIds DEF Id
  <2>3. ok \in BOOLEAN
    OBVIOUS
  <2> HIDE DEF d, ok, own
  <2>. QED  BY <1>0, <1>2, <2>1, <2>2, <2>3, WriteOrder
<1>. QED  BY <1>3, <1>4, <1>5

\* The INSERT and the DELETE of a member, after their checks.
LEMMA MemberOrder ==
    ASSUME IInv, NEW c \in Call, GroupAddRecipient(c) \/ GroupDeleteRecipient(c)
    PROVE  Silent \/ Succeeds(c)
<1> DEFINE q == call[c].req
           r == q.recipient
           g == q.arg
<1>0. /\ db \in Store /\ References(db) /\ call[c].pc \notin Over
      /\ GroupSafe(c) /\ q.op \in MemberOps
      /\ q.op = "GroupAddRecipient" <=> GroupAddRecipient(c)
      /\ q.op = "GroupDeleteRecipient" <=> GroupDeleteRecipient(c)
  BY StoreNow DEF GroupAddRecipient, GroupDeleteRecipient, AtWrite, Over, IInv, CallSafe,
                  MemberOps
<1>1. /\ q.op \notin RemoveOps \cup CreateOps \cup ListOps \cup ConfirmOps
      /\ q.op \notin {"GroupCreate", "GroupModifyGroup", "GroupGetRecipients"}
  BY <1>0 DEF RemoveOps, MemberOps, CreateOps, ListOps, ConfirmOps
<1>2. ASSUME r \in DOMAIN db.recipient, g \in DOMAIN db.group PROVE Valid(q, db)
  <2>1. q.user \in DOMAIN db.user
    BY <1>0, <1>2 DEF GroupSafe, References
  <2>2. q.arg \in Id(db)
    BY <1>2 DEF Id
  <2>. QED  BY <1>1, <1>2, <2>1, <2>2, ValidIf
<1>3. ASSUME NEW d, d.user = db.user, d.template = db.template, d.recipient = db.recipient,
             d.group = db.group
      PROVE  NoReturn(db, d, issued) /\ Removed(q, d, issued)
  BY <1>1, <1>3 DEF NoReturn, Removed
<1>4. CASE GroupAddRecipient(c)
  <2>1. CASE Refuse(c, "Conflict") \/ Refuse(c, "ServerError")
    BY <1>0, <2>1, RefuseSilent
  <2>2. CASE /\ Pair(q) \notin db.member
             /\ r \in DOMAIN db.recipient /\ g \in DOMAIN db.group
             /\ db' = InsertMember(db, r, g) /\ Answer(c, "Ok") /\ UNCHANGED issued
    <3>1. /\ db'.user = db.user /\ db'.template = db.template
          /\ db'.recipient = db.recipient /\ db'.group = db.group
          /\ db'.member = db.member \cup {Pair(q)}
      BY <1>0, <2>2, MemberFields DEF Pair
    <3>2. MemberEffect(q, db, db', issued')
      BY <1>0, <1>4, <2>2, <3>1 DEF MemberEffect
    <3>. QED  BY <1>0, <1>2, <1>3, <2>2, <3>1, <3>2, Success
  <2>. QED  BY <1>4, <2>1, <2>2 DEF GroupAddRecipient, Pair
<1>5. CASE GroupDeleteRecipient(c)
  <2> DEFINE ok == Pair(q) \in db.member
             d == DeleteMember(db, r, g)
  <2>1. WriteOr404(c, ok, d) /\ q.op = "GroupDeleteRecipient"
    BY <1>0, <1>5 DEF GroupDeleteRecipient, Pair
  <2>2. /\ d.user = db.user /\ d.template = db.template
        /\ d.recipient = db.recipient /\ d.group = db.group
        /\ d.member = db.member \ {Pair(q)}
    BY <1>0, MemberFields DEF Pair
  <2>3. ok => Valid(q, db)
    BY <1>0, <1>2 DEF References, Pair
  <2>4. ok \in BOOLEAN
    OBVIOUS
  <2> HIDE DEF d
  <2>5. ok => MemberEffect(q, db, d, issued)
    BY <2>1, <2>2 DEF MemberEffect, MemberOps
  <2> HIDE DEF ok
  <2>. QED  BY <1>0, <1>3, <2>1, <2>2, <2>3, <2>4, <2>5, WriteOrder
<1>. QED  BY <1>4, <1>5

\* The DELETE of a user, with everything that cascades.
LEMMA AccountOrder ==
    ASSUME IInv, AccountDeleted
    PROVE  \E u \in User : UserGoes(u)
<1>1. PICK u \in DOMAIN db.user : db' = DeleteUser(db, u) /\ log' = Append(log, u)
  BY DEF AccountDeleted
<1>2. UNCHANGED <<issued, call>> /\ u \in User /\ db \in Store
  BY <1>1, Owners, StoreNow DEF AccountDeleted
<1> DEFINE R == Owned(db.recipient, u)
           G == Owned(db.group, u)
<1>3. /\ DOMAIN db'.user = DOMAIN db.user \ {u}
      /\ DOMAIN db'.template \subseteq DOMAIN db.template
      /\ DOMAIN db'.recipient = DOMAIN db.recipient \ R
      /\ DOMAIN db'.group = DOMAIN db.group \ G
      /\ db'.member = WithoutMembers(db.member, R, G)
  <2> DEFINE T == Owned(db.template, u)
  <2>1. /\ db'.user = Without(db.user, {u})
        /\ db'.template = Without(db.template, T)
        /\ db'.recipient = Without(db.recipient, R)
        /\ db'.group = UnsetTemplates(Without(db.group, G), T)
        /\ db'.member = WithoutMembers(db.member, R, G)
    BY <1>1, <1>2, DeleteUserFields
  <2> HIDE DEF R, G, T
  <2>. QED  BY <2>1 DEF Without, Restrict, UnsetTemplates
<1>4. R \subseteq issued /\ G \subseteq issued
  BY Owners DEF Owned
<1> HIDE DEF R, G
<1>5. LosesMembers(db, db', issued')
  BY <1>2, <1>3, <1>4 DEF LosesMembers, WithoutMembers, Gone
<1>6. NoReturn(db, db', issued)
  BY <1>3 DEF NoReturn
<1>. QED  BY <1>1, <1>2, <1>3, <1>5, <1>6 DEF UserGoes, KeepsLogged

\* Every step is one of three kinds.
LEMMA Order ==
    ASSUME IInv, [Next]_vars
    PROVE  Silent \/ (\E c \in Call : Succeeds(c)) \/ (\E u \in User : UserGoes(u))
<1>1. ASSUME NEW c \in Call, Templates(c) PROVE Silent \/ Succeeds(c)
  BY <1>1, CreateOrder, ReadOrder, CopySilent, CommitOrder, ModifyOrder, DeleteOrder
  DEF Templates
<1>2. ASSUME NEW c \in Call, Recipients(c) PROVE Silent \/ Succeeds(c)
  BY <1>2, CreateOrder, ReadOrder, CopySilent, CommitOrder, ModifyOrder, DeleteOrder
  DEF Recipients
<1>3. ASSUME NEW c \in Call, Groups(c) PROVE Silent \/ Succeeds(c)
  BY <1>3, CreateOrder, ReadOrder, CopySilent, CommitOrder, ModifyOrder, DeleteOrder,
     CheckSilent, MemberOrder
  DEF Groups
<1>4. ASSUME NEW c \in Call,
             \/ Receive(c) \/ BadArgument(c) \/ BadBody(c) \/ VerifyJWT(c)
             \/ Reply(c) \/ Abort(c)
      PROVE  Silent
  BY <1>4, EntrySilent, EndSilent
<1>5. ASSUME UNCHANGED vars PROVE Silent
  BY <1>5 DEF vars, Silent, KeepsLogged
<1>. QED  BY <1>1, <1>2, <1>3, <1>4, <1>5, AccountOrder DEF Next, AllDone

\* The invariant of the order of the answers.
LEMMA OrderInvariance == Spec => []OrderInv
<1>1. ASSUME Init PROVE OrderInv
  <2>1. IInv /\ DOMAIN log = {}
    BY <1>1, InitSafe DEF Init
  <2>. QED  BY <2>1 DEF OrderInv, Standing, NothingAfterDeletion, MembershipAlternates,
                        CallEntries
<1>2. ASSUME OrderInv, [Next]_vars PROVE OrderInv'
  <2>1. IInv /\ IInv'
    BY <1>2, NextPreserves DEF OrderInv
  <2>2. CASE Silent
    BY <1>2, <2>1, <2>2, SilentKeeps
  <2>3. ASSUME NEW c \in Call, Succeeds(c) PROVE OrderInv'
    BY <1>2, <2>1, <2>3, SuccessKeepsStanding, SuccessKeepsDeletions,
       SuccessKeepsMembership DEF OrderInv
  <2>4. ASSUME NEW u \in User, UserGoes(u) PROVE OrderInv'
    BY <1>2, <2>1, <2>4, UserGoesKeeps
  <2>. QED  BY <1>2, <2>1, <2>2, <2>3, <2>4, Order
<1>. QED  BY <1>1, <1>2, PTL DEF Spec

\* In the order of the statements that decide the answers, after a template,
\* recipient or group was deleted no call succeeds that names it, and after an
\* account no call of its user does more than list: whatever the calls, and
\* between any two statements of the handlers.
THEOREM DeletionsAreFinal == Spec => []NothingAfterDeletion
<1>1. OrderInv => NothingAfterDeletion
  BY DEF OrderInv
<1>. QED  BY <1>1, OrderInvariance, PTL

\* GroupAddRecipient and GroupDeleteRecipient (groups.cpp:250 and :318), with two checks and
\* a write each, still answer as if one call came after the other.
THEOREM AnswersAlternate == Spec => []MembershipAlternates
<1>1. OrderInv => MembershipAlternates
  BY DEF OrderInv
<1>. QED  BY <1>1, OrderInvariance, PTL

-----------------------------------------------------------------------------
(* What the errors say.                                                    *)

\* In store d, answer r is no fault of request q: whoever or whatever it named
\* has gone, if it ever existed (its id, one of old, is not fresh).
Deserves(q, r, d, old) ==
    /\ r = "ServerError" =>
        \/ q.user \notin DOMAIN d.user
        \/ q.op = "GroupGetRecipients"
        \/ q.op = "GroupAddRecipient" /\ Gone(Pair(q), d, old)
    /\ r = "Invalid" =>
        \/ q.user \notin DOMAIN d.user
        \/ q.body = NULL
        \/ q.body.template = BadId
        \/ q.body.template \in old \ DOMAIN d.template

\* Call k has no answer before it is over, and its ids are not fresh.
Explained(k) ==
    /\ call[k].pc # "idle" => IdsIn(call[k].req) \subseteq issued
    /\ call[k].pc \notin Over => call[k].resp = "none"
    /\ Deserves(call[k].req, call[k].resp, db, issued)

ErrorInv == IInv /\ \A k \in Call : Explained(k)

\* A step of call c that leaves it explained.
Goes(c) ==
    /\ \A k \in Call : k # c => call'[k] = call[k]
    /\ IdsIn(call'[c].req) \subseteq issued'
    /\ call'[c].pc \notin Over => call'[c].resp = "none"
    /\ Deserves(call'[c].req, call'[c].resp, db, issued)

\* What an answer is no fault of stays so, as no id comes back.
LEMMA StaysDeserved ==
    ASSUME NEW q, NEW r, NEW d, NEW e, NEW old, NEW new,
           NoReturn(d, e, old), old \subseteq new, Deserves(q, r, d, old)
    PROVE  Deserves(q, r, e, new)
<1>1. Gone(Pair(q), d, old) => Gone(Pair(q), e, new)
  BY StaysGone
<1>2. q.user \notin DOMAIN d.user => q.user \notin DOMAIN e.user
  BY DEF NoReturn
<1>3. q.body.template \in old \ DOMAIN d.template
        => q.body.template \in new \ DOMAIN e.template
  BY DEF NoReturn
<1>. QED  BY <1>1, <1>2, <1>3 DEF Deserves

\* No step brings an id back.
LEMMA NothingReturns ==
    ASSUME IInv, [Next]_vars
    PROVE  NoReturn(db, db', issued) /\ issued \subseteq issued'
<1>1. Silent => NoReturn(db, db', issued) /\ issued \subseteq issued'
  BY DEF Silent, NoReturn
<1>. QED  BY <1>1, Order DEF Succeeds, UserGoes

\* Call c is answered.
LEMMA AnswerGoes ==
    ASSUME ErrorInv, NEW c \in Call, NEW r, Answer(c, r), issued \subseteq issued',
           call[c].pc # "idle", Deserves(call[c].req, r, db, issued)
    PROVE  Goes(c)
<1> DEFINE f == [call[c] EXCEPT !.pc = "reply", !.resp = r]
<1>1. call' = [call EXCEPT ![c] = f] /\ Explained(c)
  BY DEF Answer, ErrorInv
<1>2. call \in [Call -> CallState] /\ call[c] \in CallState
  BY TypeDef DEF ErrorInv, IInv
<1>3. f.pc \in Over /\ f.resp = r /\ f.req = call[c].req
  BY <1>2 DEF Over, CallState
<1> HIDE DEF f
<1>4. call'[c] = f /\ \A k \in Call : k # c => call'[k] = call[k]
  BY <1>1, <1>2
<1>. QED  BY <1>1, <1>3, <1>4 DEF Explained, Goes

\* With an answer that needs no explanation.
Plain == Response \ {"ServerError", "Invalid"}

LEMMA PlainGoes ==
    ASSUME ErrorInv, NEW c \in Call, NEW r \in Plain, Answer(c, r),
           issued \subseteq issued', call[c].pc # "idle"
    PROVE  Goes(c)
<1>1. Deserves(call[c].req, r, db, issued)
  BY DEF Plain, Deserves
<1>. QED  BY <1>1, AnswerGoes

\* Call c goes on, without an answer.
LEMMA MoveGoes ==
    ASSUME ErrorInv, NEW c \in Call, NEW f, call' = [call EXCEPT ![c] = f],
           issued \subseteq issued', call[c].pc # "idle", f.req = call[c].req,
           \/ f.resp = call[c].resp /\ (call[c].pc \in Over => f.pc \in Over)
           \/ f.resp \in Plain /\ f.pc \in Over
    PROVE  Goes(c)
<1>1. call \in [Call -> CallState] /\ Explained(c)
  BY TypeDef DEF ErrorInv, IInv
<1>2. call'[c] = f /\ \A k \in Call : k # c => call'[k] = call[k]
  BY <1>1
<1>3. f.resp \in Plain => Deserves(f.req, f.resp, db, issued)
  BY DEF Plain, Deserves
<1>. QED  BY <1>1, <1>2, <1>3 DEF Explained, Goes

\* The request comes, is examined, and the answer goes out or the call is cut.
LEMMA EntryGoes ==
    ASSUME ErrorInv, NEW c \in Call,
           \/ Receive(c) \/ BadArgument(c) \/ BadBody(c) \/ VerifyJWT(c)
           \/ Reply(c) \/ Abort(c)
    PROVE  Goes(c)
<1>0. call \in [Call -> CallState] /\ call[c] \in CallState /\ Explained(c)
  BY TypeDef DEF ErrorInv, IInv
<1>1. CASE Receive(c)
  <2>1. PICK q \in Requests : /\ call' = [call EXCEPT ![c].pc = "verify", ![c].req = q]
                              /\ issued' = issued \cup IdsIn(q)
    BY <1>1 DEF Receive
  <2> DEFINE f == [call[c] EXCEPT !.pc = "verify", !.req = q]
  <2>2. call' = [call EXCEPT ![c] = f]
    BY <2>1
  <2>3. f.pc = "verify" /\ f.req = q /\ f.resp = call[c].resp
    BY <1>0 DEF CallState
  <2> HIDE DEF f
  <2>4. call'[c] = f /\ \A k \in Call : k # c => call'[k] = call[k]
    BY <1>0, <2>2
  <2>0. call[c].pc = "idle"
    BY <1>1 DEF Receive
  <2>5. call[c].resp = "none"
    BY <1>0, <2>0 DEF Explained, Over
  <2>6. Deserves(q, "none", db, issued)
    BY DEF Deserves
  <2>. QED  BY <2>1, <2>3, <2>4, <2>5, <2>6 DEF Goes
<1>2. CASE BadArgument(c)
  BY <1>2, PlainGoes DEF BadArgument, Refuse, Plain, Response
<1>3. CASE BadBody(c)
  <2>1. Deserves(call[c].req, "Invalid", db, issued)
    BY <1>3 DEF BadBody, MissingBody, Deserves
  <2>. QED  BY <1>3, <2>1, AnswerGoes DEF BadBody, Refuse
<1>4. CASE VerifyJWT(c)
  <2> DEFINE f == [call[c] EXCEPT !.pc = "statement"]
  <2>1. f.req = call[c].req /\ f.resp = call[c].resp
    BY <1>0 DEF CallState
  <2>2. CASE Refuse(c, "Unauthorized")
    BY <1>4, <2>2, PlainGoes DEF VerifyJWT, Refuse, Plain, Response
  <2>3. CASE call' = [call EXCEPT ![c] = f] /\ UNCHANGED issued
    <3> HIDE DEF f
    <3>. QED  BY <1>4, <2>1, <2>3, MoveGoes DEF VerifyJWT, Over
  <2>4. CASE call[c].req.user = NULL /\ Refuse(c, "ServerError")
    <3>1. db \in Store
      BY TypeDef, IsStoreDef DEF ErrorInv, IInv
    <3>2. call[c].req.user \notin DOMAIN db.user
      BY <2>4, <3>1, StoreRows, NullIsNoValue
    <3>3. Deserves(call[c].req, "ServerError", db, issued)
      BY <3>2 DEF Deserves
    <3>. QED  BY <1>4, <2>4, <3>3, AnswerGoes DEF VerifyJWT, Refuse
  <2>. QED  BY <1>4, <2>2, <2>3, <2>4 DEF VerifyJWT
<1>5. CASE Reply(c) \/ Abort(c)
  <2> DEFINE f == IF Reply(c) THEN [call[c] EXCEPT !.pc = "done"]
                  ELSE [call[c] EXCEPT !.pc = "done", !.resp = "Aborted"]
  <2>1. /\ f.req = call[c].req /\ f.pc \in Over
        /\ f.resp = call[c].resp \/ f.resp \in Plain
    BY <1>0 DEF CallState, Over, Plain, Response
  <2>2. call' = [call EXCEPT ![c] = f] /\ UNCHANGED issued /\ call[c].pc # "idle"
    BY <1>5 DEF Reply, Abort
  <2> HIDE DEF f
  <2>. QED  BY <2>1, <2>2, MoveGoes
<1>. QED  BY <1>1, <1>2, <1>3, <1>4, <1>5
\* The reads.  GroupGetRecipients throws for a group without members.
LEMMA ReadGoes ==
    ASSUME ErrorInv, NEW c \in Call,
           \/ TemplateGetById(c) \/ TemplateGetAll(c)
           \/ RecipientGetById(c) \/ RecipientGetAll(c)
           \/ GroupGetById(c) \/ GroupGetActive(c) \/ GroupGetAll(c)
           \/ GroupGetRecipients(c) \/ ListRecipients(c)
    PROVE  Goes(c)
<1>0. call[c] \in CallState /\ call[c].pc # "idle" /\ call[c].pc \notin Over
  BY CallUpdate DEF ErrorInv, TemplateGetById, TemplateGetAll, RecipientGetById,
       RecipientGetAll, GroupGetById, GroupGetActive, GroupGetAll, GroupGetRecipients,
       ListRecipients, At, Over
<1>1. CASE Refuse(c, "Ok") \/ Refuse(c, "NotFound")
  BY <1>0, <1>1, PlainGoes DEF Refuse, Plain, Response
<1>2. CASE GroupGetRecipients(c)
  <2> DEFINE f == [call[c] EXCEPT !.pc = "list"]
  <2>1. f.req = call[c].req /\ f.resp = call[c].resp
    BY <1>0 DEF CallState
  <2>2. CASE call' = [call EXCEPT ![c] = f] /\ UNCHANGED issued
    <3> HIDE DEF f
    <3>. QED  BY <1>0, <2>1, <2>2, MoveGoes
  <2>. QED  BY <1>1, <1>2, <2>2 DEF GroupGetRecipients
<1>3. CASE ListRecipients(c)
  <2>1. call[c].req.op = "GroupGetRecipients"
    BY <1>3 DEF ListRecipients, ErrorInv, IInv, CallSafe
  <2>2. Deserves(call[c].req, "ServerError", db, issued)
    BY <2>1 DEF Deserves
  <2>3. CASE Refuse(c, "ServerError")
    BY <1>0, <2>2, <2>3, AnswerGoes DEF Refuse
  <2>. QED  BY <1>1, <1>3, <2>3 DEF ListRecipients
<1>. QED  BY <1>1, <1>2, <1>3 DEF TemplateGetById, TemplateGetAll, RecipientGetById,
            RecipientGetAll, GroupGetById, GroupGetActive, GroupGetAll

\* The statements of confirmations.
LEMMA ConfirmGoes ==
    ASSUME ErrorInv, NEW c \in Call, issued \subseteq issued',
           \/ TemplateConfirmCreation(c) \/ RecipientConfirmCreation(c)
           \/ GroupConfirmCreation(c)
           \/ CommitTemplate(c) \/ CommitRecipient(c) \/ CommitGroup(c)
    PROVE  Goes(c)
<1>1. call[c].pc # "idle" /\ call[c].pc \notin Over
  BY DEF TemplateConfirmCreation, RecipientConfirmCreation, GroupConfirmCreation, At,
         CommitTemplate, CommitRecipient, CommitGroup, AtCommit, Over
<1>2. CASE Answer(c, "Ok") \/ Answer(c, "NotFound")
  BY <1>1, <1>2, PlainGoes DEF Plain, Response
<1>3. ASSUME NEW drafts, CopyDraft(c, drafts) PROVE Goes(c)
  <2> DEFINE f == [call[c] EXCEPT !.pc = "commit", !.row = drafts[call[c].req.arg]]
  <2>1. f.req = call[c].req /\ f.resp = call[c].resp
    BY CallUpdate DEF ErrorInv, CallState
  <2>2. CASE call' = [call EXCEPT ![c] = f]
    <3> HIDE DEF f
    <3>. QED  BY <1>1, <2>1, <2>2, MoveGoes
  <2>. QED  BY <1>2, <1>3, <2>2 DEF CopyDraft, Refuse
<1>. QED  BY <1>2, <1>3 DEF TemplateConfirmCreation, RecipientConfirmCreation,
            GroupConfirmCreation, CommitTemplate, CommitRecipient, CommitGroup

\* The answers of UPDATEs and DELETEs, and of the INSERTs of drafts of
\* templates and recipients, whose user has gone when they fail.
LEMMA WriteGoes ==
    ASSUME ErrorInv, NEW c \in Call, issued \subseteq issued',
           \/ TemplateCreate(c) \/ RecipientCreate(c)
           \/ TemplateModify(c) \/ RecipientModify(c)
           \/ TemplateDelete(c) \/ RecipientDelete(c) \/ GroupDeleteGroup(c)
           \/ GroupDeleteRecipient(c)
    PROVE  Goes(c)
<1>1. call[c].pc # "idle"
  BY DEF TemplateCreate, RecipientCreate, TemplateModify, RecipientModify, TemplateDelete,
         RecipientDelete, GroupDeleteGroup, GroupDeleteRecipient, At, AtWrite
<1>2. CASE Answer(c, "Ok") \/ Answer(c, "NotFound")
  BY <1>1, <1>2, PlainGoes DEF Plain, Response
<1>3. ASSUME NEW ok, NEW d, WriteOr404(c, ok, d) PROVE Goes(c)
  BY <1>2, <1>3 DEF WriteOr404, Refuse
<1>4. CASE call[c].req.user \notin DOMAIN db.user /\ Refuse(c, "ServerError")
  <2>1. Deserves(call[c].req, "ServerError", db, issued)
    BY <1>4 DEF Deserves
  <2>. QED  BY <1>1, <1>4, <2>1, AnswerGoes DEF Refuse
<1>5. CASE TemplateCreate(c) \/ RecipientCreate(c)
  BY <1>2, <1>4, <1>5 DEF TemplateCreate, RecipientCreate
<1>. QED  BY <1>3, <1>5 DEF TemplateModify, RecipientModify, TemplateDelete, RecipientDelete,
            GroupDeleteGroup, GroupDeleteRecipient

\* A template id in a body that no row has, when a statement looks for it, is
\* no uuid or not fresh.
LEMMA TemplateNamed ==
    ASSUME ErrorInv, NEW c \in Call, call[c].pc = "statement",
           call[c].req.op \in {"GroupCreate", "GroupModifyGroup"}
    PROVE  /\ call[c].req.body.template \in issued \cup {BadId, NULL}
           /\ BadId \notin DOMAIN db.template
<1>1. call[c].req.body # NULL
  BY DEF ErrorInv, IInv, CallSafe, MissingBody, NeedsBody, CreateOps, ModifyOps
<1>2. IdsIn(call[c].req) \subseteq issued
  BY DEF ErrorInv, Explained
<1>3. BadId \notin DOMAIN db.template
  BY Owners, KindsOfIds DEF ErrorInv
<1>. QED  BY <1>1, <1>2, <1>3 DEF IdsIn

\* GroupCreate and GroupModify: the template of the body.
LEMMA GroupGoes ==
    ASSUME ErrorInv, NEW c \in Call, issued \subseteq issued',
           GroupCreate(c) \/ GroupModifyGroup(c)
    PROVE  Goes(c)
<1> DEFINE q == call[c].req
<1>1. /\ call[c].pc # "idle"
      /\ q.body.template \in issued \cup {BadId, NULL}
      /\ BadId \notin DOMAIN db.template
  <2>1. call[c].pc = "statement" /\ q.op \in {"GroupCreate", "GroupModifyGroup"}
    BY DEF GroupCreate, GroupModifyGroup, At
  <2>. QED  BY <2>1, TemplateNamed
<1>2. CASE Answer(c, "Ok") \/ Answer(c, "NotFound")
  BY <1>1, <1>2, PlainGoes DEF Plain, Response
<1>3. ASSUME NEW r, Refuse(c, r), Deserves(q, r, db, issued) PROVE Goes(c)
  BY <1>1, <1>3, AnswerGoes DEF Refuse
<1>4. CASE GroupCreate(c)
  <2>1. CASE Refuse(c, BadTemplate(q.body.template))
             /\ ~(q.user \in DOMAIN db.user
                    /\ q.body.template \in DOMAIN db.template \cup {NULL})
    <3>1. Deserves(q, BadTemplate(q.body.template), db, issued)
      BY <1>1, <2>1 DEF BadTemplate, Deserves
    <3>. QED  BY <1>3, <2>1, <3>1
  <2>. QED  BY <1>2, <1>4, <2>1 DEF GroupCreate
<1>5. CASE GroupModifyGroup(c)
  <2>1. CASE /\ Refuse(c, "Invalid")
             /\ \/ q.body.template = BadId
                \/ q.body.template \notin DOMAIN db.template \cup {NULL}
    <3>1. Deserves(q, "Invalid", db, issued)
      BY <1>1, <2>1 DEF Deserves
    <3>. QED  BY <1>3, <2>1, <3>1
  <2>2. ASSUME NEW ok, NEW d, WriteOr404(c, ok, d) PROVE Goes(c)
    BY <1>2, <2>2 DEF WriteOr404, Refuse
  <2>. QED  BY <1>5, <2>1, <2>2 DEF GroupModifyGroup
<1>. QED  BY <1>4, <1>5

\* The checks of a member, and its INSERT.
LEMMA AddGoes ==
    ASSUME ErrorInv, NEW c \in Call, issued \subseteq issued',
           CheckGroup(c) \/ CheckRecipient(c) \/ GroupAddRecipient(c)
    PROVE  Goes(c)
<1> DEFINE q == call[c].req
<1>1. call[c].pc # "idle" /\ call[c].pc \notin Over /\ call[c] \in CallState
  BY CallUpdate DEF ErrorInv, CheckGroup, CheckRecipient, GroupAddRecipient, AtWrite, Over
<1>2. CASE \E r \in {"Ok", "NotFound", "Conflict"} : Answer(c, r)
  BY <1>1, <1>2, PlainGoes DEF Plain, Response
<1>3. CASE CheckGroup(c)
  <2> DEFINE f == [call[c] EXCEPT !.pc = "recipient",
                     !.found = q.arg \in Owned(db.group, q.user)]
  <2>1. f.req = call[c].req /\ f.resp = call[c].resp
    BY <1>1 DEF CallState
  <2>2. call' = [call EXCEPT ![c] = f]
    BY <1>3 DEF CheckGroup
  <2> HIDE DEF f
  <2>. QED  BY <1>1, <2>1, <2>2, MoveGoes
<1>4. CASE CheckRecipient(c)
  <2> DEFINE f == [call[c] EXCEPT !.pc = "write"]
  <2>1. f.req = call[c].req /\ f.resp = call[c].resp
    BY <1>1 DEF CallState
  <2>2. CASE call' = [call EXCEPT ![c] = f]
    <3> HIDE DEF f
    <3>. QED  BY <1>1, <2>1, <2>2, MoveGoes
  <2>. QED  BY <1>2, <1>4, <2>2 DEF CheckRecipient, Refuse
<1>5. CASE GroupAddRecipient(c)
  <2>1. CASE /\ Refuse(c, "ServerError")
             /\ q.recipient \notin DOMAIN db.recipient \/ q.arg \notin DOMAIN db.group
    <3>1. GroupSafe(c) /\ RecipientSafe(c) /\ q.op = "GroupAddRecipient"
      BY <1>5 DEF GroupAddRecipient, AtWrite, ErrorInv, IInv, CallSafe
    <3>2. Deserves(q, "ServerError", db, issued)
      BY <2>1, <3>1 DEF GroupSafe, RecipientSafe, Deserves, Gone, Pair
    <3>. QED  BY <1>1, <2>1, <3>2, AnswerGoes DEF Refuse
  <2>. QED  BY <1>2, <1>5, <2>1 DEF GroupAddRecipient, Refuse
<1>. QED  BY <1>3, <1>4, <1>5

\* Every step is one of one call, or of none.
LEMMA StepGoes ==
    ASSUME ErrorInv, [Next]_vars
    PROVE  (\E c \in Call : Goes(c)) \/ UNCHANGED call
<1>0. issued \subseteq issued'
  BY NothingReturns DEF ErrorInv
<1>1. ASSUME NEW c \in Call, Templates(c) PROVE Goes(c)
  BY <1>0, <1>1, ReadGoes, ConfirmGoes, WriteGoes DEF Templates
<1>2. ASSUME NEW c \in Call, Recipients(c) PROVE Goes(c)
  BY <1>0, <1>2, ReadGoes, ConfirmGoes, WriteGoes DEF Recipients
<1>3. ASSUME NEW c \in Call, Groups(c) PROVE Goes(c)
  BY <1>0, <1>3, ReadGoes, ConfirmGoes, WriteGoes, GroupGoes, AddGoes DEF Groups
<1>4. ASSUME NEW c \in Call,
             \/ Receive(c) \/ BadArgument(c) \/ BadBody(c) \/ VerifyJWT(c)
             \/ Reply(c) \/ Abort(c)
      PROVE  Goes(c)
  BY <1>4, EntryGoes
<1>5. AccountDeleted \/ AllDone \/ UNCHANGED vars => UNCHANGED call
  BY DEF AccountDeleted, AllDone, vars
<1>. QED  BY <1>1, <1>2, <1>3, <1>4, <1>5 DEF Next

LEMMA ErrorInvariance == Spec => []ErrorInv
<1>1. ASSUME Init PROVE ErrorInv
  <2>1. ASSUME NEW k \in Call PROVE Explained(k)
    BY <1>1 DEF Init, Idle, Explained, Deserves
  <2>. QED  BY <1>1, <2>1, InitSafe DEF ErrorInv
<1>2. ASSUME ErrorInv, [Next]_vars PROVE ErrorInv'
  <2>1. NoReturn(db, db', issued) /\ issued \subseteq issued' /\ IInv'
    BY <1>2, NothingReturns, NextPreserves DEF ErrorInv
  <2>2. ASSUME NEW k \in Call, call'[k] = call[k] PROVE Explained(k)'
    <3>1. Explained(k)
      BY <1>2 DEF ErrorInv
    <3>. QED  BY <2>1, <2>2, <3>1, StaysDeserved DEF Explained
  <2>3. ASSUME NEW k \in Call, Goes(k) PROVE Explained(k)'
    BY <2>1, <2>3, StaysDeserved DEF Explained, Goes
  <2>4. \A k \in Call : Explained(k)'
    <3>1. CASE UNCHANGED call
      BY <2>2, <3>1
    <3>2. ASSUME NEW c \in Call, Goes(c) PROVE \A k \in Call : Explained(k)'
      BY <2>2, <2>3, <3>2 DEF Goes
    <3>. QED  BY <1>2, <3>1, <3>2, StepGoes
  <2>. QED  BY <2>1, <2>4 DEF ErrorInv
<1>. QED  BY <1>1, <1>2, PTL DEF Spec

\* A client whose request has a body is told that it is wrong (groups.cpp:43
\* and :245), or gets an exception that nobody caught (groups.cpp:286), only if
\* its account, or a row that it named, is not there, and the answer stays
\* true: whichever calls and deletions come between the statements.
THEOREM ErrorsExplained == Spec => []ErrorsAreExplained
<1>1. ErrorInv => ErrorsAreExplained
  <2> SUFFICES ASSUME ErrorInv, NEW c \in Call PROVE
        LET r == call[c].req
        IN  /\ call[c].resp = "ServerError" =>
                    \/ r.user \notin DOMAIN db.user
                    \/ r.op = "GroupGetRecipients"
                    \/ /\ r.op = "GroupAddRecipient"
                       /\ r.recipient \notin DOMAIN db.recipient \/ r.arg \notin DOMAIN db.group
            /\ call[c].resp = "Invalid" =>
                    \/ r.user \notin DOMAIN db.user
                    \/ r.body = NULL
                    \/ r.body.template \notin DOMAIN db.template
    BY DEF ErrorsAreExplained
  <2>1. Deserves(call[c].req, call[c].resp, db, issued)
    BY DEF ErrorInv, Explained
  <2>2. BadId \notin DOMAIN db.template
    BY Owners, KindsOfIds DEF ErrorInv
  <2>. QED  BY <2>1, <2>2 DEF Deserves, Gone, Pair
<1>. QED  BY <1>1, ErrorInvariance, PTL
=============================================================================
