------------------------------- MODULE Catalog -------------------------------
(***************************************************************************)
(* Templates, recipients and recipient groups: the handlers of             *)
(* src/templates, src/recipients and src/groups and the manager methods    *)
(* they call, with one action per statement where a handler runs several.  *)
(* Calls run concurrently, any call may be cut short, and accounts are     *)
(* deleted in between.                                                     *)
(*                                                                         *)
(* A transaction that ends with its only writing statement is one action:  *)
(* nobody sees what it wrote before the COMMIT, and whoever waits for its  *)
(* locks goes on after it.  ConfirmCreation writes twice and is two: what  *)
(* its INSERT read and the locks it took are kept until the COMMIT.        *)
(***************************************************************************)
EXTENDS EnsStore, Sequences

CONSTANTS
    Call,           \* requests the clients make, one each
    Requests,       \* what a client may ask for
    InitialStores,  \* the databases the service may be started on
    BadId           \* a template id that is no uuid

CreateOps == {"TemplateCreate", "RecipientCreate", "GroupCreate"}
ConfirmOps == {"TemplateConfirmCreation", "RecipientConfirmCreation", "GroupConfirmCreation"}
ModifyOps == {"TemplateModify", "RecipientModify", "GroupModifyGroup"}
MemberOps == {"GroupAddRecipient", "GroupDeleteRecipient"}
ListOps == {"TemplateGetAll", "RecipientGetAll", "GroupGetAll", "GroupGetActive"}
OneRowOps == {"TemplateGetById", "RecipientGetById", "GroupGetById", "GroupGetRecipients",
              "TemplateDelete", "RecipientDelete", "GroupDeleteGroup"}

Ops == CreateOps \cup ConfirmOps \cup ModifyOps \cup MemberOps \cup ListOps \cup OneRowOps

TemplateData == [text : Text \cup {NULL}]
RecipientData == [chat : Chat \cup {NULL}]
GroupData == [active : BOOLEAN, template : Template \cup {NULL, BadId}]

\* The handlers that take an id from the query string, and those that take
\* a JSON body.
NeedsId(op) == op \notin CreateOps \cup ListOps
NeedsBody(op) == op \in CreateOps \cup ModifyOps

IdsOf(op) ==
    CASE op \in {"TemplateGetById", "TemplateModify", "TemplateDelete"} -> Template
      [] op \in {"RecipientGetById", "RecipientModify", "RecipientDelete"} -> Recipient
      [] op \in ConfirmOps -> Draft
      [] op \in MemberOps \cup {"GroupGetById", "GroupGetRecipients", "GroupModifyGroup",
                              "GroupDeleteGroup"} -> Group
      [] OTHER -> {}

BodiesOf(op) ==
    CASE op \in {"TemplateCreate", "TemplateModify"} -> TemplateData
      [] op \in {"RecipientCreate", "RecipientModify"} -> RecipientData
      [] op \in {"GroupCreate", "GroupModifyGroup"} -> GroupData
      [] OTHER -> {}

\* A request: user is whom the token names, NULL when it does not verify; arg
\* and recipient are the ids in the query string, NULL when absent or no uuid;
\* body is NULL when it is not the JSON object the handler expects.
IsRequest(q) ==
    /\ q = [op |-> q.op, user |-> q.user, arg |-> q.arg, recipient |-> q.recipient,
            body |-> q.body]
    /\ q.op \in Ops
    /\ q.user \in User \cup {NULL}
    /\ q.arg \in IdsOf(q.op) \cup {NULL}
    /\ q.recipient \in IF q.op \in MemberOps THEN Recipient \cup {NULL} ELSE {NULL}
    /\ q.body \in BodiesOf(q.op) \cup {NULL}

ASSUME CallsAreNotUsers == Call \cap User = {}

\* The generator makes each id once, for one table; NULL and BadId are none of
\* them.
ASSUME KindsOfIds ==
    /\ Template \cap Recipient = {} /\ Template \cap Group = {} /\ Recipient \cap Group = {}
    /\ NULL \notin Recipient \cup Group
    /\ BadId \notin Template

ASSUME CatalogRequestsAssumption == \A q \in Requests : IsRequest(q)

ASSUME CatalogStoresAssumption ==
    \A d \in InitialStores : StoreInvariant(d) /\ DraftReferences(d)

VARIABLES
    db,         \* the store
    issued,     \* ids that the generators have returned or a request has named
    call,       \* the state of each call
    log         \* history: the calls answered Ok, and the users whose account
                \* was deleted, in the order of their last statement

vars == <<db, issued, call, log>>

PC == {"idle", "verify", "statement", "recipient", "write", "list", "commit", "reply",
       "done"}

Response == {"none", "Ok", "NotFound", "Invalid", "Conflict", "Unauthorized",
             "ServerError", "Aborted"}

\* A row that an INSERT has written and no COMMIT has shown yet.
PendingRow == TemplateRow \cup RecipientRow \cup GroupRow

TypeOK ==
    /\ IsStore(db)
    /\ call = [c \in Call |-> call[c]]
    /\ \A c \in Call :
        /\ call[c] = [pc |-> call[c].pc, req |-> call[c].req, found |-> call[c].found,
                      row |-> call[c].row, resp |-> call[c].resp]
        /\ call[c].pc \in PC
        /\ IsRequest(call[c].req)
        /\ call[c].found \in BOOLEAN
        /\ call[c].row \in PendingRow \cup {NULL}
        /\ call[c].resp \in Response
    /\ log \in Seq(Call \cup User)
    /\ Keys(db) \subseteq issued

NoRequest == [op |-> "TemplateGetAll", user |-> NULL, arg |-> NULL, recipient |-> NULL,
              body |-> NULL]

Idle == [pc |-> "idle", req |-> NoRequest, found |-> FALSE, row |-> NULL, resp |-> "none"]

Init ==
    /\ db \in InitialStores
    /\ issued = Keys(db)
    /\ call = [c \in Call |-> Idle]
    /\ log = << >>

\* The next id of the generator: it has never been returned before, and nobody
\* has guessed it.
NewId(S) == CHOOSE i \in S : i \notin issued

-----------------------------------------------------------------------------
(* Answers.                                                                *)

\* The handler has computed its answer (or an exception became one).
Answer(c, r) ==
    /\ call' = [call EXCEPT ![c].pc = "reply", ![c].resp = r]
    /\ log' = IF r = "Ok" THEN Append(log, c) ELSE log

\* Nothing is written and the answer is r.
Refuse(c, r) == Answer(c, r) /\ UNCHANGED <<db, issued>>

\* The transaction of an UPDATE or a DELETE: it leaves store d when it affects
\* a row (ok), and an exception that becomes a 404 rolls it back when not.
WriteOr404(c, ok, d) ==
    \/ ok /\ db' = d /\ Answer(c, "Ok") /\ UNCHANGED issued
    \/ ~ok /\ Refuse(c, "NotFound")

\* Call c is at the first statement of handler op.
At(c, op) == call[c].pc = "statement" /\ call[c].req.op = op

-----------------------------------------------------------------------------
(* What every handler does first.                                          *)

\* The ids that a request names, whether they exist or not.
IdsIn(q) ==
    ({q.arg, q.recipient}
        \cup (IF q.op \in {"GroupCreate", "GroupModifyGroup"} /\ q.body # NULL
              THEN {q.body.template} ELSE {})) \ {NULL, BadId}

Receive(c) ==
    /\ call[c].pc = "idle"
    /\ \E q \in Requests :
        /\ call' = [call EXCEPT ![c].pc = "verify", ![c].req = q]
        /\ issued' = issued \cup IdsIn(q)
    /\ UNCHANGED <<db, log>>

MissingId(q) ==
    \/ NeedsId(q.op) /\ q.arg = NULL
    \/ q.op \in MemberOps /\ q.recipient = NULL

MissingBody(q) == NeedsBody(q.op) /\ q.body = NULL

\* boost::bad_lexical_cast, raised before anything else is looked at.
BadArgument(c) ==
    /\ call[c].pc = "verify"
    /\ MissingId(call[c].req)
    /\ Refuse(c, "NotFound")

\* formats::json::Exception, raised before the token is looked at.
BadBody(c) ==
    /\ call[c].pc = "verify"
    /\ ~MissingId(call[c].req) /\ MissingBody(call[c].req)
    /\ Refuse(c, "Invalid")

\* JWTManager::VerifyJWT: the token decodes, verifies and names a user that
\* exists at this moment; the handler goes on with that user's id.  Nobody
\* catches what jwt-cpp throws at a token that is not base64 or JSON, or that
\* has no user_id.
VerifyJWT(c) ==
    /\ call[c].pc = "verify"
    /\ ~MissingId(call[c].req) /\ ~MissingBody(call[c].req)
    /\ \/ /\ call[c].req.user \in DOMAIN db.user
          /\ call' = [call EXCEPT ![c].pc = "statement"]
          /\ UNCHANGED <<db, issued, log>>
       \/ /\ call[c].req.user \notin DOMAIN db.user
          /\ Refuse(c, "Unauthorized")
       \/ call[c].req.user = NULL /\ Refuse(c, "ServerError")

-----------------------------------------------------------------------------
(* Locks.  The INSERT of a confirmation locks, until its COMMIT, the rows  *)
(* its foreign keys refer to: the user, and a group's template.            *)

UserLocked(u) == \E c \in Call : call[c].pc = "commit" /\ call[c].req.user = u

TemplateLocked(t) ==
    \E c \in Call : /\ call[c].pc = "commit"
                    /\ call[c].req.op = "GroupConfirmCreation"
                    /\ call[c].row.template = t

-----------------------------------------------------------------------------
(* ConfirmCreation: an INSERT from the draft, then its DELETE.             *)

\* INSERT ... SELECT ... FROM <drafts> WHERE master_id = u AND <draft id> = arg.
CopyDraft(c, drafts) ==
    \/ /\ call[c].req.arg \in Owned(drafts, call[c].req.user)
       /\ call' = [call EXCEPT ![c].pc = "commit", ![c].row = drafts[call[c].req.arg]]
       /\ UNCHANGED <<db, issued, log>>
    \/ /\ call[c].req.arg \notin Owned(drafts, call[c].req.user)
       /\ Refuse(c, "NotFound")

AtCommit(c, op) == call[c].pc = "commit" /\ call[c].req.op = op

-----------------------------------------------------------------------------
(* Templates.                                                              *)

\* The INSERT breaks the foreign key when the user is gone by now; nothing
\* catches that.
TemplateCreate(c) ==
    /\ At(c, "TemplateCreate")
    /\ \/ /\ call[c].req.user \in DOMAIN db.user
          /\ Draft \ issued # {}
          /\ db' = InsertTemplateDraft(db, NewId(Draft), call[c].req.user,
                                       call[c].req.body.text)
          /\ issued' = issued \cup {NewId(Draft)}
          /\ Answer(c, "Ok")
       \/ call[c].req.user \notin DOMAIN db.user /\ Refuse(c, "ServerError")

TemplateGetById(c) ==
    /\ At(c, "TemplateGetById")
    /\ Refuse(c, IF call[c].req.arg \in Owned(db.template, call[c].req.user)
                 THEN "Ok" ELSE "NotFound")

TemplateGetAll(c) == At(c, "TemplateGetAll") /\ Refuse(c, "Ok")

TemplateConfirmCreation(c) ==
    At(c, "TemplateConfirmCreation") /\ CopyDraft(c, db.templateDraft)

\* The row count of the DELETE, zero when another confirmation has deleted the
\* draft since the INSERT, is not looked at.
CommitTemplate(c) ==
    /\ AtCommit(c, "TemplateConfirmCreation")
    /\ Template \ issued # {}
    /\ LET u == call[c].req.user
       IN  db' = DeleteTemplateDraft(
                     InsertTemplate(db, NewId(Template), u, call[c].row.text),
                     u, call[c].req.arg)
    /\ issued' = issued \cup {NewId(Template)}
    /\ Answer(c, "Ok")

TemplateModify(c) ==
    /\ At(c, "TemplateModify")
    /\ WriteOr404(c, call[c].req.arg \in Owned(db.template, call[c].req.user),
                  UpdateTemplate(db, call[c].req.arg, call[c].req.body.text))

\* A fault: the INSERT of a group does not lock its template.
TemplateDeleteUnlocked(c) ==
    /\ At(c, "TemplateDelete")
    /\ WriteOr404(c, call[c].req.arg \in Owned(db.template, call[c].req.user),
                  DeleteTemplate(db, call[c].req.arg))

TemplateDelete(c) ==
    /\ At(c, "TemplateDelete")
    /\ ~TemplateLocked(call[c].req.arg)
    /\ WriteOr404(c, call[c].req.arg \in Owned(db.template, call[c].req.user),
                  DeleteTemplate(db, call[c].req.arg))

-----------------------------------------------------------------------------
(* Recipients.                                                             *)

RecipientCreate(c) ==
    /\ At(c, "RecipientCreate")
    /\ \/ /\ call[c].req.user \in DOMAIN db.user
          /\ Draft \ issued # {}
          /\ db' = InsertRecipientDraft(db, NewId(Draft), call[c].req.user,
                                        call[c].req.body.chat)
          /\ issued' = issued \cup {NewId(Draft)}
          /\ Answer(c, "Ok")
       \/ call[c].req.user \notin DOMAIN db.user /\ Refuse(c, "ServerError")

RecipientGetById(c) ==
    /\ At(c, "RecipientGetById")
    /\ Refuse(c, IF call[c].req.arg \in Owned(db.recipient, call[c].req.user)
                 THEN "Ok" ELSE "NotFound")

RecipientGetAll(c) == At(c, "RecipientGetAll") /\ Refuse(c, "Ok")

RecipientConfirmCreation(c) ==
    At(c, "RecipientConfirmCreation") /\ CopyDraft(c, db.recipientDraft)

\* A fault: the DELETE names the wrong table.
CommitRecipientWrongTable(c) ==
    /\ AtCommit(c, "RecipientConfirmCreation")
    /\ Recipient \ issued # {}
    /\ LET u == call[c].req.user
       IN  db' = DeleteTemplateDraft(
                     InsertRecipient(db, NewId(Recipient), u, call[c].row.chat),
                     u, call[c].req.arg)
    /\ issued' = issued \cup {NewId(Recipient)}
    /\ Answer(c, "Ok")

CommitRecipient(c) ==
    /\ AtCommit(c, "RecipientConfirmCreation")
    /\ Recipient \ issued # {}
    /\ LET u == call[c].req.user
       IN  db' = DeleteRecipientDraft(
                     InsertRecipient(db, NewId(Recipient), u, call[c].row.chat),
                     u, call[c].req.arg)
    /\ issued' = issued \cup {NewId(Recipient)}
    /\ Answer(c, "Ok")

RecipientModify(c) ==
    /\ At(c, "RecipientModify")
    /\ WriteOr404(c, call[c].req.arg \in Owned(db.recipient, call[c].req.user),
                  UpdateRecipient(db, call[c].req.arg, call[c].req.body.chat))

RecipientDelete(c) ==
    /\ At(c, "RecipientDelete")
    /\ WriteOr404(c, call[c].req.arg \in Owned(db.recipient, call[c].req.user),
                  DeleteRecipient(db, call[c].req.arg))

-----------------------------------------------------------------------------
(* Groups.                                                                 *)

\* A fault: nothing catches the violation.
BadTemplateUncaught(template) == "ServerError"

\* The answer to a foreign key violation, which is put down to the template:
\* when there is none the handler throws while it makes up the message.
BadTemplate(template) == IF template = NULL THEN "ServerError" ELSE "Invalid"

\* A fault: the template id of the body is taken as it is.
GroupCreateUnconverted(c) ==
    /\ At(c, "GroupCreate")
    /\ LET u == call[c].req.user
           body == call[c].req.body
           ok == u \in DOMAIN db.user
       IN  \/ /\ ok
              /\ Draft \ issued # {}
              /\ db' = InsertGroupDraft(db, NewId(Draft), u, body.active, body.template)
              /\ issued' = issued \cup {NewId(Draft)}
              /\ Answer(c, "Ok")
           \/ ~ok /\ Refuse(c, BadTemplate(body.template))

GroupCreate(c) ==
    /\ At(c, "GroupCreate")
    /\ LET u == call[c].req.user
           body == call[c].req.body
           ok == u \in DOMAIN db.user /\ body.template \in DOMAIN db.template \cup {NULL}
       IN  \/ /\ ok
              /\ Draft \ issued # {}
              /\ db' = InsertGroupDraft(db, NewId(Draft), u, body.active, body.template)
              /\ issued' = issued \cup {NewId(Draft)}
              /\ Answer(c, "Ok")
           \/ ~ok /\ Refuse(c, BadTemplate(body.template))

GroupGetById(c) ==
    /\ At(c, "GroupGetById")
    /\ Refuse(c, IF call[c].req.arg \in Owned(db.group, call[c].req.user)
                 THEN "Ok" ELSE "NotFound")

\* Two SELECTs without a transaction.
GroupGetRecipients(c) ==
    /\ At(c, "GroupGetRecipients")
    /\ \/ /\ call[c].req.arg \in Owned(db.group, call[c].req.user)
          /\ call' = [call EXCEPT ![c].pc = "list"]
          /\ UNCHANGED <<db, issued, log>>
       \/ /\ call[c].req.arg \notin Owned(db.group, call[c].req.user)
          /\ Refuse(c, "NotFound")

\* The LEFT JOINs give a group without members one line of NULLs, and taking
\* a recipient_id from it throws.
ListRecipients(c) ==
    /\ call[c].pc = "list"
    /\ LET g == call[c].req.arg
       IN  Refuse(c, IF /\ g \in Owned(db.group, call[c].req.user)
                        /\ \A p \in db.member : p[2] # g
                     THEN "ServerError" ELSE "Ok")

GroupGetActive(c) == At(c, "GroupGetActive") /\ Refuse(c, "Ok")

GroupGetAll(c) == At(c, "GroupGetAll") /\ Refuse(c, "Ok")

GroupConfirmCreation(c) ==
    At(c, "GroupConfirmCreation") /\ CopyDraft(c, db.groupDraft)

\* The DELETE names the table of the template drafts.
CommitGroup(c) ==
    /\ AtCommit(c, "GroupConfirmCreation")
    /\ Group \ issued # {}
    /\ LET u == call[c].req.user
           row == call[c].row
       IN  db' = DeleteTemplateDraft(
                     InsertGroup(db, NewId(Group), u, row.active, row.template),
                     u, call[c].req.arg)
    /\ issued' = issued \cup {NewId(Group)}
    /\ Answer(c, "Ok")

\* A template that is no uuid is found out before the UPDATE runs, one that
\* does not exist only when there is a row to update.
GroupModifyGroup(c) ==
    /\ At(c, "GroupModifyGroup")
    /\ LET g == call[c].req.arg
           body == call[c].req.body
           known == body.template \in DOMAIN db.template \cup {NULL}
       IN  IF \/ body.template = BadId
              \/ g \in Owned(db.group, call[c].req.user) /\ ~known
           THEN Refuse(c, "Invalid")
           ELSE WriteOr404(c, g \in Owned(db.group, call[c].req.user),
                           UpdateGroup(db, g, body.active, body.template))

GroupDeleteGroup(c) ==
    /\ At(c, "GroupDeleteGroup")
    /\ WriteOr404(c, call[c].req.arg \in Owned(db.group, call[c].req.user),
                  DeleteGroup(db, call[c].req.arg))

-----------------------------------------------------------------------------
(* Members of groups: two SELECT EXISTS, which are looked at after both,   *)
(* and a write, each with a snapshot of its own.                           *)

CheckGroup(c) ==
    /\ call[c].pc = "statement" /\ call[c].req.op \in MemberOps
    /\ call' = [call EXCEPT
                  ![c].pc = "recipient",
                  ![c].found = call[c].req.arg \in Owned(db.group, call[c].req.user)]
    /\ UNCHANGED <<db, issued, log>>

\* A fault: the SELECT does not look at master_id.
CheckAnyRecipient(c) ==
    /\ call[c].pc = "recipient"
    /\ \/ /\ call[c].found /\ call[c].req.recipient \in DOMAIN db.recipient
          /\ call' = [call EXCEPT ![c].pc = "write"]
          /\ UNCHANGED <<db, issued, log>>
       \/ /\ ~call[c].found \/ call[c].req.recipient \notin DOMAIN db.recipient
          /\ Refuse(c, "NotFound")

CheckRecipient(c) ==
    /\ call[c].pc = "recipient"
    /\ LET exists == call[c].req.recipient \in Owned(db.recipient, call[c].req.user)
       IN  \/ /\ call[c].found /\ exists
              /\ call' = [call EXCEPT ![c].pc = "write"]
              /\ UNCHANGED <<db, issued, log>>
           \/ ~(call[c].found /\ exists) /\ Refuse(c, "NotFound")

AtWrite(c, op) == call[c].pc = "write" /\ call[c].req.op = op

\* Faults: the table has no foreign keys; ON CONFLICT DO NOTHING.
AddRecipientWithoutKeys(c) ==
    /\ AtWrite(c, "GroupAddRecipient")
    /\ LET p == <<call[c].req.recipient, call[c].req.arg>>
       IN  \/ p \in db.member /\ Refuse(c, "Conflict")
           \/ /\ p \notin db.member
              /\ db' = InsertMember(db, p[1], p[2])
              /\ Answer(c, "Ok")
              /\ UNCHANGED issued

AddRecipientIfAbsent(c) ==
    /\ AtWrite(c, "GroupAddRecipient")
    /\ LET p == <<call[c].req.recipient, call[c].req.arg>>
           keys == p[1] \in DOMAIN db.recipient /\ p[2] \in DOMAIN db.group
       IN  \/ ~keys /\ Refuse(c, "ServerError")
           \/ /\ keys
              /\ db' = InsertMember(db, p[1], p[2])
              /\ Answer(c, "Ok")
              /\ UNCHANGED issued

\* A unique violation is a 409; a foreign key violation nobody catches.
GroupAddRecipient(c) ==
    /\ AtWrite(c, "GroupAddRecipient")
    /\ LET p == <<call[c].req.recipient, call[c].req.arg>>
           keys == p[1] \in DOMAIN db.recipient /\ p[2] \in DOMAIN db.group
       IN  \/ p \in db.member /\ Refuse(c, "Conflict")
           \/ p \notin db.member /\ ~keys /\ Refuse(c, "ServerError")
           \/ /\ p \notin db.member /\ keys
              /\ db' = InsertMember(db, p[1], p[2])
              /\ Answer(c, "Ok")
              /\ UNCHANGED issued

GroupDeleteRecipient(c) ==
    /\ AtWrite(c, "GroupDeleteRecipient")
    /\ LET r == call[c].req.recipient
           g == call[c].req.arg
       IN  WriteOr404(c, <<r, g>> \in db.member, DeleteMember(db, r, g))

-----------------------------------------------------------------------------

Reply(c) ==
    /\ call[c].pc = "reply"
    /\ call' = [call EXCEPT ![c].pc = "done"]
    /\ UNCHANGED <<db, issued, log>>

\* The process stops, the database refuses a statement (a foreign key that
\* breaks between the snapshot and the check of one, a timeout), or the client
\* is cut off: an open transaction is rolled back.
Abort(c) ==
    /\ call[c].pc \notin {"idle", "done"}
    /\ call' = [call EXCEPT ![c].pc = "done", ![c].resp = "Aborted"]
    /\ UNCHANGED <<db, issued, log>>

\* A fault: a group's template may go with its owner while the group is being
\* confirmed by another user.
AccountDeletedUnlocked ==
    /\ \E u \in DOMAIN db.user :
        /\ ~UserLocked(u)
        /\ db' = DeleteUser(db, u)
        /\ log' = Append(log, u)
    /\ UNCHANGED <<issued, call>>

\* UserManager::DeleteUser, for any user.  It waits for the locks of the row,
\* and of the templates that go with it: a group of another user may use them.
AccountDeleted ==
    /\ \E u \in DOMAIN db.user :
        /\ ~UserLocked(u)
        /\ \A t \in Owned(db.template, u) : ~TemplateLocked(t)
        /\ db' = DeleteUser(db, u)
        /\ log' = Append(log, u)
    /\ UNCHANGED <<issued, call>>

Templates(c) ==
    \/ TemplateCreate(c) \/ TemplateGetById(c) \/ TemplateGetAll(c)
    \/ TemplateConfirmCreation(c) \/ CommitTemplate(c)
    \/ TemplateModify(c) \/ TemplateDelete(c)

Recipients(c) ==
    \/ RecipientCreate(c) \/ RecipientGetById(c) \/ RecipientGetAll(c)
    \/ RecipientConfirmCreation(c) \/ CommitRecipient(c)
    \/ RecipientModify(c) \/ RecipientDelete(c)

Groups(c) ==
    \/ GroupCreate(c) \/ GroupGetById(c) \/ GroupGetRecipients(c) \/ ListRecipients(c)
    \/ GroupGetActive(c) \/ GroupGetAll(c)
    \/ GroupConfirmCreation(c) \/ CommitGroup(c)
    \/ GroupModifyGroup(c) \/ GroupDeleteGroup(c)
    \/ CheckGroup(c) \/ CheckRecipient(c) \/ GroupAddRecipient(c) \/ GroupDeleteRecipient(c)

\* Every call has been answered: nothing is left for this component to do.
AllDone == (\A c \in Call : call[c].pc = "done") /\ UNCHANGED vars

Next ==
    \/ \E c \in Call :
        \/ Receive(c) \/ BadArgument(c) \/ BadBody(c) \/ VerifyJWT(c)
        \/ Templates(c) \/ Recipients(c) \/ Groups(c)
        \/ Reply(c) \/ Abort(c)
    \/ AccountDeleted
    \/ AllDone

Spec == Init /\ [][Next]_vars

-----------------------------------------------------------------------------
(* Safety.                                                                 *)

\* Between any two statements every foreign key holds, in the drafts too, and
\* a group has only members of its own user, which no key of the schema asks
\* for: the checks of GroupAddRecipient stay good until its INSERT, whatever
\* is deleted, confirmed or added in between.
StoreConsistent ==
    /\ References(db)
    /\ DraftReferences(db)
    /\ MembersShareMaster(db)
    /\ NotificationsShareMaster(db)

\* What a confirmation holds between its INSERT and its COMMIT can still be
\* committed: its user, and its group's template, exist, and the user owns
\* the row, although both may have been asked to go in the meantime.
PendingRowsAreSafe ==
    \A c \in Call : call[c].pc = "commit" =>
        /\ call[c].row.master = call[c].req.user
        /\ call[c].req.user \in DOMAIN db.user
        /\ call[c].req.op = "GroupConfirmCreation"
            => call[c].row.template \in DOMAIN db.template \cup {NULL}

CallEntries == {i \in DOMAIN log : log[i] \in Call}

\* The request of the i-th entry.
Req(i) == call[log[i]].req

\* A template or recipient draft that was confirmed is gone: whoever asks
\* after the COMMIT gets the 404 that recipients-confirmCreation.yaml gives.
ConfirmedDraftsAreGone ==
    \A i \in CallEntries :
        /\ Req(i).op = "TemplateConfirmCreation"
            => Req(i).arg \notin DOMAIN db.templateDraft
        /\ Req(i).op = "RecipientConfirmCreation"
            => Req(i).arg \notin DOMAIN db.recipientDraft

\* The templates, recipients and groups that a request names.
NamedBy(q) ==
    IF q.op \in ConfirmOps THEN {}
    ELSE {q.arg, q.recipient} \cup
           (IF q.op \in {"GroupCreate", "GroupModifyGroup"} THEN {q.body.template} ELSE {})

RemoveOps == {"TemplateDelete", "RecipientDelete", "GroupDeleteGroup"}

\* In the order of the statements that decided the answers: after a template,
\* recipient or group was deleted no call succeeds that names it, and after an
\* account was deleted no call of its user does more than list.  The two
\* SELECTs of GroupGetRecipients are no such statement.
NothingAfterDeletion ==
    \A i \in DOMAIN log, j \in CallEntries : i < j =>
        /\ (log[i] \in Call /\ Req(i).op \in RemoveOps /\ Req(j).op # "GroupGetRecipients")
            => Req(i).arg \notin NamedBy(Req(j))
        /\ log[i] = Req(j).user => Req(j).op \in ListOps \cup {"GroupGetRecipients"}

\* The entries that went through op for the recipient and the group of entry i.
SameMember(i, op) ==
    {k \in CallEntries : /\ Req(k).op = op
                         /\ Req(k).recipient = Req(i).recipient
                         /\ Req(k).arg = Req(i).arg}

\* Of two calls that both add a recipient to a group, or both remove it, and
\* are both told they did, another call has undone the first before the
\* second: the answers of concurrent calls are those of some order of them.
MembershipAlternates ==
    \A i \in CallEntries :
        /\ \A j \in SameMember(i, "GroupAddRecipient") :
            (Req(i).op = "GroupAddRecipient" /\ i < j)
                => \E k \in SameMember(i, "GroupDeleteRecipient") : i < k /\ k < j
        /\ \A j \in SameMember(i, "GroupDeleteRecipient") :
            (Req(i).op = "GroupDeleteRecipient" /\ i < j)
                => \E k \in SameMember(i, "GroupAddRecipient") : i < k /\ k < j

\* The checks of a handler and its write are statements of their own, and a
\* foreign key violation is put down to the template (groups.cpp:43).  Still a
\* client is told that its body is wrong, or gets an exception that nobody
\* caught, only if what it named is not there, its account or a row (if it
\* was, it was deleted while the call lasted), and that answer stays true.
\* Not in question here: a token that does not decode names no account; texts
\* that no column takes are the subject of Documents; and GroupGetRecipients
\* throws for every group without members (groups.cpp:111).
ErrorsAreExplained ==
    \A c \in Call :
        LET r == call[c].req
        IN  /\ call[c].resp = "ServerError" =>
                    \/ r.user \notin DOMAIN db.user
                    \/ r.op = "GroupGetRecipients"
                    \/ /\ r.op = "GroupAddRecipient"
                       /\ r.recipient \notin DOMAIN db.recipient \/ r.arg \notin DOMAIN db.group
            /\ call[c].resp = "Invalid" =>
                    \/ r.user \notin DOMAIN db.user
                    \/ r.body = NULL
                    \/ r.body.template \notin DOMAIN db.template

-----------------------------------------------------------------------------
(* What the documentation says and the code does not do.                   *)

\* groups-confirmCreation.yaml: "Draft not found".  A group draft that was
\* confirmed is gone.
ConfirmedGroupDraftsAreGone ==
    \A i \in CallEntries : Req(i).op = "GroupConfirmCreation"
        => Req(i).arg \notin DOMAIN db.groupDraft
=============================================================================
