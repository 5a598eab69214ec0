---------------------------- MODULE Notifications ----------------------------
(***************************************************************************)
(* The notifications component: the six HTTP handlers of                   *)
(* src/notifications/handlers.cpp and the NotificationsManager methods they *)
(* call (src/notifications/notifications.cpp), with one action per SQL     *)
(* transaction and per HTTP attempt to Telegram.  Calls run concurrently,  *)
(* any call may be cut short, and the other components change the shared   *)
(* tables between any two steps.                                           *)
(***************************************************************************)
EXTENDS EnsStore, Naturals, FiniteSets

CONSTANTS
    Call,           \* requests the clients make, one each
    Requests,       \* what a client may ask for
    InitialStores,  \* the databases the service may be started on
    Tries,          \* attempts of one SendMessage (RequestOptions::retries)
    MaxEdits        \* bound on the statements of other components

Ops == {"CreateBatch", "SendBatch", "CancelNotification", "GetById", "GetAll",
        "GetPending"}

\* A request: user is whom the token names, NULL when it does not verify; arg
\* is the id in the query string, NULL when it is absent or not a uuid.
Request == [op : Ops, user : User \cup {NULL}, arg : Batch \cup Notification \cup {NULL}]

\* A line of the query SendBatch loops over, as far as the loop uses it.
Row == [group : Group, recipient : Recipient, chat : Chat, text : Text]

ASSUME NullIsNoRow == NULL \notin Row

ASSUME RequestsAssumption ==
    /\ Requests \subseteq Request
    /\ \A q \in Requests :
        q.arg \in {NULL} \cup CASE q.op = "SendBatch" -> Batch
                                [] q.op \in {"CancelNotification", "GetById"} -> Notification
                                [] OTHER -> {}

ASSUME BoundsAssumption == Tries \in Nat \ {0} /\ MaxEdits \in Nat

\* A database that was filled by this program: the keys hold, batches that
\* have notifications are marked.
ASSUME InitialStoresAssumption ==
    \A d \in InitialStores : StoreInvariant(d)

VARIABLES
    db,         \* the store
    issued,     \* ids the generators have returned
    call,       \* the state of each call
    edits,      \* statements other components have run
    origin,     \* history: who recorded a notification, and for which line
    delivered   \* history: how many times its message reached the chat

vars == <<db, issued, call, edits, origin, delivered>>

PC == {"idle", "verify", "insert", "check", "mark", "info", "loop", "send",
       "delete", "read", "reply", "done"}

Response == {"none", "Ok", "NotFound", "Unauthorized", "ServerError", "Aborted"}

CallState ==
    [pc : PC, req : Request, rows : SUBSET Row, todo : SUBSET Row,
     row : Row \cup {NULL}, notification : Notification \cup {NULL}, tries : Nat,
     ids : SUBSET Notification, resp : Response]

Origin == [call : Call, batch : Batch, row : Row]

TypeOK ==
    /\ IsStore(db)
    /\ call \in [Call -> CallState]
    /\ edits \in 0 .. MaxEdits
    /\ IsTable(origin, Notification, Origin)
    /\ delivered \in [Notification -> Nat]
    /\ Keys(db) \subseteq issued
    /\ DOMAIN origin \subseteq issued

NoRequest == [op |-> "GetAll", user |-> NULL, arg |-> NULL]

Idle == [pc |-> "idle", req |-> NoRequest, rows |-> {}, todo |-> {}, row |-> NULL,
         notification |-> NULL, tries |-> 0, ids |-> {}, resp |-> "none"]

Init ==
    /\ db \in InitialStores
    /\ issued = Keys(db)
    /\ call = [c \in Call |-> Idle]
    /\ edits = 0
    /\ origin = [n \in {} |-> NULL]
    /\ delivered = [n \in Notification |-> 0]

\* The next id of the generator: it has never been returned before.
NewId(S) == CHOOSE i \in S : i \notin issued

\* The handler has computed its answer (or an exception became one).
Answer(c, r) == call' = [call EXCEPT ![c].pc = "reply", ![c].resp = r]

-----------------------------------------------------------------------------
(* What every handler does first.                                          *)

FirstStep(op) ==
    CASE op = "CreateBatch" -> "insert"
      [] op = "SendBatch" -> "check"
      [] op = "CancelNotification" -> "delete"
      [] OTHER -> "read"

Receive(c) ==
    /\ call[c].pc = "idle"
    /\ \E q \in Requests : call' = [call EXCEPT ![c].pc = "verify", ![c].req = q]
    /\ UNCHANGED <<db, issued, edits, origin, delivered>>

\* The handlers that turn an argument of the request into a uuid.
NeedsId(op) == op \in {"SendBatch", "CancelNotification", "GetById"}

\* boost::bad_lexical_cast, raised before the token is looked at.
BadArgument(c) ==
    /\ call[c].pc = "verify"
    /\ NeedsId(call[c].req.op) /\ call[c].req.arg = NULL
    /\ Answer(c, "NotFound")
    /\ UNCHANGED <<db, issued, edits, origin, delivered>>

\* JWTManager::VerifyJWT: the token decodes, verifies and names a user that
\* exists at this moment; the handler goes on with that user's id.  Nobody
\* catches what jwt-cpp throws at a token that is not base64 or JSON, or that
\* has no user_id.
VerifyJWT(c) ==
    /\ call[c].pc = "verify"
    /\ NeedsId(call[c].req.op) => call[c].req.arg # NULL
    /\ \/ /\ call[c].req.user \in DOMAIN db.user
          /\ call' = [call EXCEPT ![c].pc = FirstStep(call[c].req.op)]
       \/ call[c].req.user \notin DOMAIN db.user /\ Answer(c, "Unauthorized")
       \/ call[c].req.user = NULL /\ Answer(c, "ServerError")
    /\ UNCHANGED <<db, issued, edits, origin, delivered>>

-----------------------------------------------------------------------------
(* CreateBatch, CancelNotification and the three readers.                  *)

\* The INSERT breaks the foreign key when the user is gone by now; nothing
\* catches that.
CreateBatch(c) ==
    /\ call[c].pc = "insert"
    /\ IF call[c].req.user \in DOMAIN db.user
       THEN /\ Batch \ issued # {}
            /\ db' = InsertBatch(db, NewId(Batch), call[c].req.user)
            /\ issued' = issued \cup {NewId(Batch)}
            /\ Answer(c, "Ok")
       ELSE /\ Answer(c, "ServerError")
            /\ UNCHANGED <<db, issued>>
    /\ UNCHANGED <<edits, origin, delivered>>

\* completion_timestamp IS NULL holds of every row this program inserts.
Cancellable(u) ==
    {n \in NotificationsOf(db, u) : ~db.notification[n].completed}

CancelNotification(c) ==
    /\ call[c].pc = "delete"
    /\ IF call[c].req.arg \in Cancellable(call[c].req.user)
       THEN /\ db' = DeleteNotification(db, call[c].req.arg)
            /\ Answer(c, "Ok")
       ELSE /\ Answer(c, "NotFound")
            /\ UNCHANGED db
    /\ UNCHANGED <<issued, edits, origin, delivered>>

\* The columns the readers select, and those they then take from a row.
SelectedColumns == {"notification_id", "batch_id", "recipient_id", "group_id", "type",
                    "creation_timestamp", "completion_timestamp"}
FetchedColumns == {"notification_id", "batch_id", "recipient_id", "group_id",
                   "message_type", "creation_timestamp", "completion_timestamp"}

\* Taking a column that was not selected throws, for any row there is.
ReadResponse(rows) ==
    IF rows = {} \/ FetchedColumns \subseteq SelectedColumns THEN "Ok" ELSE "ServerError"

ReadNotifications(c) ==
    /\ call[c].pc = "read"
    /\ LET u == call[c].req.user
           n == call[c].req.arg
       IN  \/ /\ call[c].req.op = "GetById"
              /\ Answer(c, IF n \in NotificationsOf(db, u)
                           THEN ReadResponse({n}) ELSE "NotFound")
           \/ /\ call[c].req.op = "GetAll"
              /\ Answer(c, ReadResponse(NotificationsOf(db, u)))
           \/ /\ call[c].req.op = "GetPending"
              /\ Answer(c, ReadResponse(Cancellable(u)))
    /\ UNCHANGED <<db, issued, edits, origin, delivered>>

-----------------------------------------------------------------------------
(* SendBatch.                                                              *)

\* A fault: the SELECT does not look at master_id.
CheckAnyBatch(c) ==
    /\ call[c].pc = "check"
    /\ IF call[c].req.arg \in DOMAIN db.batch /\ ~db.batch[call[c].req.arg].sent
       THEN call' = [call EXCEPT ![c].pc = "mark"]
       ELSE Answer(c, "NotFound")
    /\ UNCHANGED <<db, issued, edits, origin, delivered>>

\* SELECT EXISTS (... AND NOT sent), outside any transaction.
CheckBatch(c) ==
    /\ call[c].pc = "check"
    /\ IF /\ call[c].req.arg \in Owned(db.batch, call[c].req.user)
          /\ ~db.batch[call[c].req.arg].sent
       THEN call' = [call EXCEPT ![c].pc = "mark"]
       ELSE Answer(c, "NotFound")
    /\ UNCHANGED <<db, issued, edits, origin, delivered>>

\* A fault: the transaction of the UPDATE is not committed.
MarkRolledBack(c) ==
    /\ call[c].pc = "mark"
    /\ call' = [call EXCEPT ![c].pc = "info"]
    /\ UNCHANGED <<db, issued, edits, origin, delivered>>

\* The UPDATE, whose row count is not looked at.
MarkBatch(c) ==
    /\ call[c].pc = "mark"
    /\ db' = SetBatchSent(db, call[c].req.user, call[c].req.arg)
    /\ call' = [call EXCEPT ![c].pc = "info"]
    /\ UNCHANGED <<issued, edits, origin, delivered>>

\* A fault: the loop does not look whether a line has a text.
SendableWithoutText(d, u) ==
    {[group |-> p[2], recipient |-> p[1], chat |-> d.recipient[p[1]].chat,
      text |-> d.template[d.group[p[2]].template].text] :
        p \in {m \in d.member :
                /\ m[2] \in Owned(d.group, u)
                /\ d.group[m[2]].active
                /\ d.group[m[2]].template # NULL
                /\ Subscribed(d, d.recipient[m[1]].chat)}}

\* A fault: the loop does not look at the flag of a contact.
SendableToStopped(d, u) ==
    {[group |-> p[2], recipient |-> p[1], chat |-> d.recipient[p[1]].chat,
      text |-> d.template[d.group[p[2]].template].text] :
        p \in {m \in d.member :
                /\ m[2] \in Owned(d.group, u)
                /\ d.group[m[2]].active
                /\ d.group[m[2]].template # NULL
                /\ d.recipient[m[1]].chat \in DOMAIN d.contact
                /\ d.template[d.group[m[2]].template].text # NULL}}

\* The members of the active groups of u that have a template, joined with
\* the recipients' telegram contacts, less the lines the loop skips: those
\* without an active contact or without a text.
Sendable(d, u) ==
    {[group |-> p[2], recipient |-> p[1], chat |-> d.recipient[p[1]].chat,
      text |-> d.template[d.group[p[2]].template].text] :
        p \in {m \in d.member :
                /\ m[2] \in Owned(d.group, u)
                /\ d.group[m[2]].active
                /\ d.group[m[2]].template # NULL
                /\ Subscribed(d, d.recipient[m[1]].chat)
                /\ d.template[d.group[m[2]].template].text # NULL}}

SelectRows(c) ==
    /\ call[c].pc = "info"
    /\ LET rows == Sendable(db, call[c].req.user)
       IN  call' = [call EXCEPT ![c].pc = "loop", ![c].rows = rows, ![c].todo = rows]
    /\ UNCHANGED <<db, issued, edits, origin, delivered>>

\* CreateNotification for one of the lines left: a transaction of its own,
\* with a batch, recipient and group read earlier.
RecordNotification(c) ==
    /\ call[c].pc = "loop"
    /\ \E row \in call[c].todo :
        LET b == call[c].req.arg
            n == NewId(Notification)
        IN  /\ NotificationKeysExist(db, b, row.recipient, row.group)
            /\ Notification \ issued # {}
            /\ db' = InsertNotification(db, n, b, row.recipient, row.group)
            /\ issued' = issued \cup {n}
            /\ origin' = With(origin, n, [call |-> c, batch |-> b, row |-> row])
            /\ call' = [call EXCEPT ![c] =
                  [call[c] EXCEPT !.pc = "send", !.todo = @ \ {row}, !.row = row,
                            !.notification = n, !.tries = 0, !.ids = @ \cup {n}]]
    /\ UNCHANGED <<edits, delivered>>

\* Something a line refers to is gone: a foreign key violation nobody
\* catches ends the whole call.
RecordFails(c) ==
    /\ call[c].pc = "loop"
    /\ \E row \in call[c].todo :
        ~NotificationKeysExist(db, call[c].req.arg, row.recipient, row.group)
    /\ Answer(c, "ServerError")
    /\ UNCHANGED <<db, issued, edits, origin, delivered>>

\* An attempt of SendMessage that succeeds.
MessageSent(c) ==
    /\ call[c].pc = "send"
    /\ delivered' = [delivered EXCEPT ![call[c].notification] = @ + 1]
    /\ call' = [call EXCEPT ![c].pc = "loop"]
    /\ UNCHANGED <<db, issued, edits, origin>>

\* Faults: one attempt too many; the attempts start again from the first.
OneAttemptTooMany(c) ==
    /\ call[c].pc = "send"
    /\ \E reached \in {0, 1} :
        delivered' = [delivered EXCEPT ![call[c].notification] = @ + reached]
    /\ call' = [call EXCEPT
                  ![c].tries = @ + 1,
                  ![c].pc = IF call[c].tries = Tries THEN "reply" ELSE "send",
                  ![c].resp = IF call[c].tries = Tries THEN "ServerError" ELSE @]
    /\ UNCHANGED <<db, issued, edits, origin>>

RetryForever(c) ==
    /\ call[c].pc = "send"
    /\ call' = [call EXCEPT ![c].tries = (@ + 1) % Tries]
    /\ UNCHANGED <<db, issued, edits, origin, delivered>>

\* A timeout or a server error: Telegram may have taken the message all the
\* same.  The client tries again until it has used up its attempts, then the
\* exception ends the whole call.
AttemptFails(c) ==
    /\ call[c].pc = "send"
    /\ \E reached \in {0, 1} :
        delivered' = [delivered EXCEPT ![call[c].notification] = @ + reached]
    /\ call' = [call EXCEPT
                  ![c].tries = @ + 1,
                  ![c].pc = IF call[c].tries + 1 = Tries THEN "reply" ELSE "send",
                  ![c].resp = IF call[c].tries + 1 = Tries THEN "ServerError" ELSE @]
    /\ UNCHANGED <<db, issued, edits, origin>>

\* A fault: the loop goes on to the next line.
RefusalSkipped(c) ==
    /\ call[c].pc = "send"
    /\ call' = [call EXCEPT ![c].pc = "loop"]
    /\ UNCHANGED <<db, issued, edits, origin, delivered>>

\* Telegram refuses the message (the user has blocked the bot, no such chat).
MessageRefused(c) ==
    /\ call[c].pc = "send"
    /\ Answer(c, "ServerError")
    /\ UNCHANGED <<db, issued, edits, origin, delivered>>

\* A fault: the first line to be skipped ends the loop.
FinishEarly(c) ==
    /\ call[c].pc = "loop"
    /\ Answer(c, "Ok")
    /\ UNCHANGED <<db, issued, edits, origin, delivered>>

FinishBatch(c) ==
    /\ call[c].pc = "loop"
    /\ call[c].todo = {}
    /\ Answer(c, "Ok")
    /\ UNCHANGED <<db, issued, edits, origin, delivered>>

-----------------------------------------------------------------------------

Reply(c) ==
    /\ call[c].pc = "reply"
    /\ call' = [call EXCEPT ![c].pc = "done"]
    /\ UNCHANGED <<db, issued, edits, origin, delivered>>

\* The process stops, the database refuses a statement or runs into its
\* timeout, or the client is cut off: the call ends where it is.  A message
\* on its way may still arrive.
Abort(c) ==
    /\ call[c].pc \notin {"idle", "done"}
    /\ call' = [call EXCEPT ![c].pc = "done", ![c].resp = "Aborted"]
    /\ IF call[c].pc = "send"
       THEN \E reached \in {0, 1} :
              delivered' = [delivered EXCEPT ![call[c].notification] = @ + reached]
       ELSE UNCHANGED delivered
    /\ UNCHANGED <<db, issued, edits, origin>>

Step(c) ==
    \/ BadArgument(c) \/ VerifyJWT(c)
    \/ CreateBatch(c) \/ CancelNotification(c) \/ ReadNotifications(c)
    \/ CheckBatch(c) \/ MarkBatch(c) \/ SelectRows(c)
    \/ RecordNotification(c) \/ RecordFails(c)
    \/ MessageSent(c) \/ AttemptFails(c) \/ MessageRefused(c)
    \/ FinishBatch(c) \/ Reply(c)

-----------------------------------------------------------------------------
(* What the other components commit to the tables SendBatch reads: one     *)
(* statement of their handlers, or of the bot.  u is the user of the call. *)

Edit == edits < MaxEdits /\ edits' = edits + 1 /\ UNCHANGED <<call, origin, delivered>>

\* UserManager::ModifyUser is left out: no step here reads names or passwords.
EditAccount ==
    /\ Edit
    /\ \/ /\ User \ issued # {}
          /\ \E name \in Name, password \in Password :
                /\ ~NameTaken(db, name)
                /\ db' = InsertUser(db, NewId(User), name, password)
          /\ issued' = issued \cup {NewId(User)}
       \/ /\ \E u \in DOMAIN db.user : db' = DeleteUser(db, u)
          /\ UNCHANGED issued

EditTemplate ==
    /\ Edit
    /\ \E u \in DOMAIN db.user, text \in Text \cup {NULL} :
        \/ /\ Template \ issued # {}
           /\ db' = InsertTemplate(db, NewId(Template), u, text)
           /\ issued' = issued \cup {NewId(Template)}
        \/ /\ \E t \in Owned(db.template, u) :
                db' = UpdateTemplate(db, t, text) \/ db' = DeleteTemplate(db, t)
           /\ UNCHANGED issued

EditRecipient ==
    /\ Edit
    /\ \E u \in DOMAIN db.user, chat \in Chat \cup {NULL} :
        \/ /\ Recipient \ issued # {}
           /\ db' = InsertRecipient(db, NewId(Recipient), u, chat)
           /\ issued' = issued \cup {NewId(Recipient)}
        \/ /\ \E r \in Owned(db.recipient, u) :
                db' = UpdateRecipient(db, r, chat) \/ db' = DeleteRecipient(db, r)
           /\ UNCHANGED issued

EditGroup ==
    /\ Edit
    /\ \E u \in DOMAIN db.user, active \in BOOLEAN,
          template \in DOMAIN db.template \cup {NULL} :
        \/ /\ Group \ issued # {}
           /\ db' = InsertGroup(db, NewId(Group), u, active, template)
           /\ issued' = issued \cup {NewId(Group)}
        \/ /\ \E g \in Owned(db.group, u) :
                db' = UpdateGroup(db, g, active, template) \/ db' = DeleteGroup(db, g)
           /\ UNCHANGED issued

EditMember ==
    /\ Edit
    /\ \E u \in DOMAIN db.user :
        \E r \in Owned(db.recipient, u), g \in Owned(db.group, u) :
            db' = InsertMember(db, r, g) \/ db' = DeleteMember(db, r, g)
    /\ UNCHANGED issued

EditContact ==
    /\ Edit
    /\ \E chat \in Chat, active \in BOOLEAN : db' = SetContact(db, chat, active)
    /\ UNCHANGED issued

OtherComponents ==
    \/ EditAccount \/ EditTemplate \/ EditRecipient \/ EditGroup \/ EditMember
    \/ EditContact

\* Every call has been answered: nothing is left for this component to do.
AllDone == (\A c \in Call : call[c].pc = "done") /\ UNCHANGED vars

Next ==
    \/ \E c \in Call : Receive(c) \/ Step(c) \/ Abort(c)
    \/ OtherComponents
    \/ AllDone

Spec == Init /\ [][Next]_vars

\* A coroutine that has a database answer, a Telegram answer or their
\* timeouts to go on with does go on; clients, failures and the other
\* components owe nothing.
FairSpec == Spec /\ \A c \in Call : WF_vars(Step(c))

-----------------------------------------------------------------------------
(* Safety.                                                                 *)

\* The notifications of call c.
RecordedBy(c) == {n \in DOMAIN origin : origin[n].call = c}

\* Between any two steps the foreign keys hold, and everything a
\* notification refers to exists and belongs to one user: no interleaving of
\* SendBatch with the deletion of accounts, groups, recipients and batches
\* leaves a notification of one user's batch on another's recipient, or one
\* whose batch_id was set to NULL (the readers and CancelNotification, which
\* join on the batch, would never see it again).
StoreConsistent ==
    /\ References(db)
    /\ MembersShareMaster(db)
    /\ NotificationsShareMaster(db)

\* A batch that is not marked sent has never had a notification recorded:
\* however late a SendBatch looks, it never finds a batch unsent that an
\* earlier call has already begun to send (or has sent and cancelled).
UnsentMeansUntouched ==
    \A b \in DOMAIN db.batch : ~db.batch[b].sent =>
        /\ \A n \in DOMAIN origin : origin[n].batch # b
        /\ \A n \in DOMAIN db.notification : db.notification[n].batch # b

\* The reads of SendBatch are old by the time it uses them: whatever other
\* calls and components did meanwhile, the batch and the lines it holds are
\* gone or still its user's, and the batch, once past the UPDATE, is marked.
CarriedStateIsSafe ==
    \A c \in Call : call[c].pc \in {"mark", "info", "loop", "send"} =>
        LET u == call[c].req.user
            b == call[c].req.arg
        IN  /\ b \in issued
            /\ b \in DOMAIN db.batch =>
                /\ db.batch[b].master = u
                /\ call[c].pc # "mark" => db.batch[b].sent
            /\ call[c].pc \in {"loop", "send"} => \A row \in call[c].todo :
                /\ row.recipient \in issued /\ row.group \in issued
                /\ row.recipient \in DOMAIN db.recipient
                        => db.recipient[row.recipient].master = u
                /\ row.group \in DOMAIN db.group => db.group[row.group].master = u

\* SendBatch answers 200 only when it went through every line it selected:
\* the ids in the answer are its notifications, one for each line, and the
\* message of each has been accepted by Telegram at least once.
OkMeansAllDelivered ==
    \A c \in Call : call[c].req.op = "SendBatch" /\ call[c].resp = "Ok" =>
        /\ call[c].ids = RecordedBy(c)
        /\ {origin[n].row : n \in call[c].ids} = call[c].rows
        /\ \A n \in call[c].ids : delivered[n] >= 1

\* Wherever a call fails, at most one of its notifications is on record
\* without a message, and that is the last one: the others were delivered.
AtMostOneUndelivered ==
    \A c \in Call : \A n \in RecordedBy(c) :
        delivered[n] = 0 => n = call[c].notification /\ call[c].pc # "loop"

\* One call never sends a recipient of a group more than Tries messages: it
\* records a line once and repeats a message only after a failed attempt.
BoundedRepeats ==
    \A c \in Call : \A n, m \in RecordedBy(c) :
        /\ delivered[n] <= Tries
        /\ origin[n].row = origin[m].row => n = m

-----------------------------------------------------------------------------
(* What SendBatch promises.                                                *)

Sends(c) == call[c].req.op = "SendBatch"

\* A call counts as answered when its answer has left, and as failed as soon
\* as it cannot be Ok any more.
StateOf(c) ==
    CASE ~Sends(c) \/ call[c].pc \notin {"loop", "send", "reply", "done"} -> "waiting"
      [] Sends(c) /\ call[c].pc \in {"loop", "send"} -> "sending"
      [] Sends(c) /\ call[c].pc = "reply" /\ call[c].resp = "Ok" -> "sending"
      [] Sends(c) /\ call[c].pc = "done" /\ call[c].resp = "Ok" -> "Ok"
      [] OTHER -> "Failed"

\* The messages of the lines call c has put on record.
MessagesOf(c) ==
    [row \in {origin[n].row : n \in RecordedBy(c)} |->
        delivered[CHOOSE n \in RecordedBy(c) : origin[n].row = row]]

\* The line whose message call c is sending.
CurrentOf(c) == IF call[c].pc = "send" THEN call[c].row ELSE NULL

Promise == INSTANCE Delivery WITH
    Line <- Row,
    state <- [c \in Call |-> StateOf(c)],
    lines <- [c \in Call |-> call[c].rows],
    messages <- [c \in Call |-> MessagesOf(c)],
    current <- [c \in Call |-> CurrentOf(c)]

\* SendBatch, in its many steps and with whatever it meets, does what Delivery
\* says: each line is on record once and before its first message, the lines
\* follow each other, repeats are bounded, and Ok is never said too early.
DeliversLines == Promise!Spec

-----------------------------------------------------------------------------
(* Liveness.                                                               *)

\* Every request gets an answer: the loop over the lines and the attempts
\* for each of them come to an end whatever fails.
EveryCallAnswered ==
    \A c \in Call : (call[c].pc = "verify") ~> (call[c].pc = "done")

-----------------------------------------------------------------------------
(* What the documentation says and the code does not do.                   *)

\* notifications-sendBatch.yaml: "Batch has already been sent" is an error.
\* Of the calls that name a batch at most one sends it.
BatchSentByOneCall ==
    \A n, m \in DOMAIN origin : origin[n].batch = origin[m].batch
        => origin[n].call = origin[m].call

\* notifications-cancelNotification.yaml: "Notification was delivered" is an
\* error.  A notification is cancelled only while its message is not out.
CancelOnlyUndelivered ==
    [][\A c \in Call, n \in DOMAIN db.notification :
        (/\ call[c].pc = "delete" /\ call'[c].resp = "Ok" /\ call[c].req.arg = n)
            => delivered[n] = 0]_vars
=============================================================================
