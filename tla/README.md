# Emergency notification system: TLA+ specifications and proofs

The service keeps accounts, message templates, recipients and recipient groups
in one PostgreSQL database, offers them through HTTP handlers, and sends batches
of Telegram messages to the members of a user's active groups. A Telegram bot in
the same process lets people subscribe and unsubscribe. This directory holds
TLA+ models of all of that, TLC configurations that check them on small
instances, and TLAPS proofs of the properties that matter most.

## 1. The system

| Part | Source | State | Operations | Modelled by |
|---|---|---|---|---|
| Database | `postgresql/schemas/db_1.sql` | eleven tables, their keys and `ON DELETE` actions | the SQL of the managers | `EnsStore` |
| Notifications | `src/notifications/{notifications,handlers}.cpp` | batches, notifications | CreateBatch, SendBatch, CancelNotification, GetById, GetAll, GetPending | `Notifications` |
| Templates | `src/templates/` | templates and drafts | Create, GetById, GetAll, ConfirmCreation, Modify, Delete | `Catalog`, `Documents` |
| Recipients | `src/recipients/` | recipients and drafts | the same six | `Catalog`, `Documents` |
| Groups | `src/groups/` | groups, drafts, members | the same, GetRecipients, GetActive, AddRecipient, DeleteRecipient | `Catalog`, `Documents` |
| Generated schemas, `utils.cpp` | `src/schemas/`, `src/utils/` | none | parsers of bodies, serialisers of answers, conversions of optional ids | `Schemas`, `Documents` |
| Accounts and tokens | `src/user/` | users | Create, Login, ModifyUser, RefreshToken, DeleteUser, VerifyJWT | `Accounts`, `Registry` |
| Bot and long poller | `src/notifications/telegram/`, `third_party/haufont-telegram/.../long_poller.cpp` | `telegram_contact`, `offset_`, one detached task per update | poll, /help, /send_notifications, /stop_notifications | `TelegramBot` |
| Telegram requests | `third_party/haufont-telegram/.../requests/` | none | sendMessage, getUpdates with timeout and attempts | in `Notifications` and `TelegramBot` |
| The service as one process | `src/notifications/` with the bot | `telegram_contact` | SendBatch reads what the bot's tasks write; a restart ends both | `Service` |

(The sources are relative to the repository, whose own C++ lives in `src/`.)

**How the parts meet.** Handlers and bot tasks are coroutines of one process.
They share no memory that changes; all they share is the database, statement by
statement. Every handler first turns its arguments into uuids or parses its
body, then calls `VerifyJWT` (a SELECT on `user`), then runs its statements.
Nothing keeps the account, or anything else a statement found, alive until the
next one. `SendBatch` calls the bot's `SendMessage` once per selected line.
The static configuration names a single database host, so that reads sent to
`kSlave` go to the host that is written: there is no replication lag to model.

**What is hard.** Reads that are old when they are used; transactions that
interleave; requests cut short anywhere (a crash, a lost connection, a statement
that the database refuses); messages whose answer is lost and that are tried
again; polls that are lost, and updates delivered again after a restart; detached
tasks of one chat running in any order. The repository's tests call one endpoint
after another and have none for notifications and the bot. The full list, with
the line of each hazard and the property that watches it, is in `PROJECT.json`.

## 2. Modules

**`EnsStore`** is the database: a store is a record of tables, a table a function
from keys to rows, and every SQL statement an operator from a store to the next
one. `DeleteUser`, `DeleteGroup` and so on carry out the cascades and the SET NULLs.
`StoreInvariant` is what the schema and the managers together guarantee: `References`
(every foreign key), `MembersShareMaster` and `NotificationsShareMaster` (a group, its
members, and a notification's batch, recipient and group belong to one user,
which no key asks for), and `NotifiedBatchesAreSent`. `DraftReferences` and
`UniqueNames` are kept apart because only `Catalog` and `Accounts` need them.

**`Notifications`** has one call per request, with a program counter. The actions
are those of the code, in its order: `Receive`, `BadArgument`, `VerifyJWT`; for
`SendBatch` the SELECT (`CheckBatch`), the transaction that marks the batch (`MarkBatch`),
the query (`SelectRows`), then for each line the INSERT (`RecordNotification`, or
`RecordFails` on a foreign key violation) and the attempts of the message (`MessageSent`,
`AttemptFails`, `MessageRefused`); `FinishBatch`; `Reply`. `Abort` may end a call at
any point. `OtherComponents` is what accounts, templates, recipients, groups and the
bot may do to the same tables between two steps. `origin` and `delivered` are history
variables: who recorded a notification for which line, and how often its message arrived.

**`Delivery`** is the abstract specification of what a caller of `SendBatch` may count on: lines are
put on record one at a time, each before its first message and once, get at most `Tries`
messages, and Ok is the answer only when Telegram has taken a message for each. It knows
no tokens, batches, statements or other components. `Notifications` implements it (`DeliversLines`): a
call's selected lines are those on record and those to come, its current line is the one
whose message Telegram has not confirmed, and all the statements before the loop are stutters.

**`Catalog`** has the 22 operations of templates, recipients and groups the same way.
A transaction that ends with its only write is one action. `ConfirmCreation` writes
twice and is two: its INSERT (`CopyDraft`) keeps the row it copied and the locks its
foreign keys take (`UserLocked`, `TemplateLocked`), the DELETE and the COMMIT follow
(`CommitTemplate`, `CommitRecipient`, `CommitGroup`). A group may use a template of another user
(no statement asks whose it is), so the deletion of an account waits for the locks on its row and
for those on the templates that go with it (`AccountDeleted`). `GroupAddRecipient` and
`GroupDeleteRecipient` run two SELECTs and a write: `CheckGroup`, `CheckRecipient`, and the
write. `log` is a history of answered calls and deleted accounts in the order of the
statements that decided them. `issued` holds the ids that are not fresh: those that the generators returned
and those that a request has named, for no generator returns what somebody has guessed.

**`Schemas`** has the JSON documents: the structs, the parsers that read bodies and the serialisers that
write answers. **`Documents`** follows the contents of one object of each kind from the body of a
request through a draft and a row to an answer: parsers, the conversions of template ids, the
VARCHAR columns, `INSERT ... SELECT`, the foreign keys and the serialisers. Every request is one action there, for
its subject is what a request does to the contents; `Catalog` has what overlapping requests do to each other.
A text may be too long for its column, or hold what PostgreSQL takes into no text (U+0000, which JSON can write):
`Refusal` has both as errors that nobody catches. `shown` is history: the answer that showed the user the last draft.

**`Accounts`** has the operations on accounts, with `Login` in two steps (the SELECT and
the comparison) and token checks apart from what follows them. A token is the user it
names. **`Registry`** is the abstract specification: each call takes effect and gets its answer
in one step. `Accounts` implements it under the mapping at the end of the module: a
`Login` takes effect at its SELECT, a `RefreshToken` at `VerifyJWT`, the others at
their statement.

**`TelegramBot`** has the poller (`FetchAndHandleUpdates`, `FetchFails`), Telegram as far as it
matters (`inbox`, and `kept`, below which it has forgotten), a task per update, with one
action per statement or transaction and per attempt of the answer, and `Restart`. An update
without a message (an edited message, say) has a null pointer where the message is expected:
`ReadNoMessage` is what comes of it: the process ends and is started again. An answer whose attempt has timed out is
lost or still on its way (`late`): `LateAnswer` lets it arrive at any time, also behind the answers to later commands and
more than once when it was tried again. `heard`,
`told` and `taken` are history: which updates' answers arrived, the last one about its
subscription a chat got, and how often an update was given to a task.

**`Service`** composes `Notifications` and `TelegramBot` on one `telegram_contact` table: the tasks of the bot
change contacts between the steps of a call, a restart ends tasks and calls together, and answers on their way arrive
when they like (`AnswerArrives`).
`selected` is history: what the chats knew when a call selected its lines.

`MC_*` modules give each of them a small database and the requests for TLC.
`EnsStoreProofs`, `NotificationsProofs`, `DeliveryProofs`, `CatalogProofs`, `AccountsProofs`,
`TelegramBotProofs`, `ServiceProofs` and `DocumentsProofs` hold the proofs. Definitions whose comment begins with "A fault" are not part of any
specification: they are plausible bugs, each of which breaks a property when it takes
the place of the definition it stands next to.

## 3. What the runs check

| Run | Instance | Properties | What it shows |
|---|---|---|---|
| `notify_send` | 2 calls on one batch with two lines, 2 attempts | `UnsentMeansUntouched`, `OkMeansAllDelivered`, `AtMostOneUndelivered`, `BoundedRepeats`, `EveryCallAnswered`, `DeliversLines` | the mark of a batch, an answer and a record tell the truth about the messages, with lost answers, refusals, retries and crashes; every call ends, whatever fails; `Notifications` implements `Delivery` |
| `notify_edits` | 1 call, 2 statements of others, all operations | `TypeOK`, `StoreConsistent`, `CarriedStateIsSafe` | stale reads of SendBatch never make a record of one user's batch on another's recipient |
| `catalog_all` | 2 calls, all operations, a group draft on another user's template | `TypeOK`, `StoreConsistent`, `PendingRowsAreSafe`, `ErrorsAreExplained` | keys and owners hold between any two statements; confirmations can be committed; a request gets a 422 or a server error only if what it named is not there, or was deleted while the call lasted, or if its token cannot be decoded |
| `catalog_order` | 3 calls on the same rows | `ConfirmedDraftsAreGone`, `NothingAfterDeletion`, `MembershipAlternates` | the answers agree with an order of the calls |
| `accounts` | 3 calls, all operations | `TypeOK`, `NamesAreUnique`, `DeletedForGood`, `AnswersAreAtomic` | accounts implement the registry |
| `bot_all` | 1 chat that does not wait and never asks to stop, 3 updates, 2 attempts, late answers, 1 restart | `TypeOK`, `ForgottenWasTaken`, `TakenOncePerStart`, `SubscriptionLasts` | no update is skipped, or taken twice without a restart; races undo no subscription |
| `bot_live` | a chat that waits and one that does not, 3 messages, late answers | `AnswersHold`, `UpdatesAreHandled` | the last answer about a subscription is true for a chat that writes again only when its last command is done with and no answer to it can arrive any more; every message is handled |
| `service` | 1 call to two chats, 2 messages to the bot, late answers, 1 restart | `SubscribersAreReached`, `StoppedChatsAreLeftAlone` | what the bot tells a chat is what a later batch does |
| `documents` | each kind of object, bodies with every sort of mistake, 2 templates | `AnswersCanBeSentBack`, `ConfirmedAsShown`, `ErrorsAreEarned`, `DraftsCanBeConfirmed` | contents survive the way into the database and back; what is confirmed is what the draft showed; a body is refused for a reason; drafts can be confirmed |

Three more runs end with a counterexample to something the documentation says;
`PROJECT.json` quotes it under "findings":

| Run | What happens |
|---|---|
| `sent_by_two` | two overlapping `SendBatch` both pass the check of NOT sent, and both send |
| `cancel_delivered` | a notification is cancelled although its message was delivered |
| `group_draft_stays` | a confirmed group draft can be confirmed again |

Some more behaviours of the code, which nothing written rules out plainly and which
are among those of the models, are worth knowing: `GetAll` and `GetPending` of notifications are server errors once there
is a row (`ReadResponse`), as are the recipients of a group without any (`ListRecipients`); `GetById` of a group that has a template reads
the uuid as a text, so that the answer is a server error or holds bytes that are no JSON (`GroupGetById` of `Documents`; `groups.yaml` promises
the group, and `GetAll` has it); a text too long for its column is a server
error, while spaces too many at its end are cut off; a text with the character U+0000 is a server error; so is a token that is
not base64 and JSON or has no `user_id`, which jwt-cpp answers with exceptions that `VerifyJWT` does not list; an answer of the bot that
Telegram carries out after its timeout can be the last one a chat gets, though it is about an older command; the answer to a new group draft spells the template's
id as the client did, later answers do not; a `SendBatch` that fails before its first
message leaves the batch marked, and nobody can send it any more; a chat that was told "Stopped"
still gets the messages of a batch that was selected before; two overlapping confirmations of a
draft make two recipients (or templates) of it; an account deleted while its group draft is
being created is reported as a wrong template; two commands a chat sends without waiting, and
updates that are delivered again after a restart, can leave it with a last answer that is not true.

**Bounds.** Every request is a call of its own, so the number of calls bounds the length
of a behaviour as well as its concurrency. Two calls are enough for every race of two
statements; the properties about orders of answers need a third call between two others
(an addition, a removal and another addition), so `catalog_order` and `accounts` have three.
`service` needs one call only, because its properties are about a call and the bot:
with one attempt, one update a poll, two messages, late answers and one restart it still has a subscription that is
answered, lost, repeated or undone while the call is anywhere. The texts of `documents` lie on both sides of each column's
limit (32, 64, 512, 1024), with and without spaces at the end, one (`zero`) is such as PostgreSQL takes into none, and ids come in two spellings of one
template, the spelling of another, and that of none; one object of each kind is enough, since no request
there reads another. Two lines tell "the rest of the batch" from the line at hand. `Tries = 2` is the code's own
default number of attempts (`RequestOptions::retries`); `notify_edits` and `bot_live` set it to 1 because
retries are the subject of `notify_send` and `bot_all`. `MaxEdits = 2` allows the deletion of something and its
re-creation by others between two steps of a call. Ids are never reused: there is a fresh one for
each INSERT a run can make. In `TelegramBot`, `Limit = 2` stands for the 100 updates of
a poll (less than the updates there are), three messages allow a subscription, a cancellation
and a subscription again, and one restart suffices to deliver an update twice. The chat of `bot_all` sends no
/stop_notifications, which keeps two attempts and late answers within reach and is what `SubscriptionLasts` is about;
`bot_live` and `service` have that command.

**Fairness.** `notify_send` assumes weak fairness of `Step(c)`, what
the coroutine of call `c` does next: the coroutine scheduler and the timeouts of the
database driver and of the HTTP client let no coroutine wait for ever, and every failure is one
of the steps. (Its safety properties do not depend on that: fairness removes no finite
behaviour.) `bot_live` assumes weak fairness of `HandleUpdate(i)`, for the same reason, and of
`FetchAndHandleUpdates`: the periodic task polls for ever, and not every poll fails while
updates are waiting. Clients, people, failures, late answers and restarts owe nothing: an update without a message may end the process, so such updates are
not among those of `bot_live`. `bot_live` has
no restarts: a restart may lose a task whose update is confirmed already (state "lost"),
and nothing promises that it is handled. `Catalog` and `Accounts` have no liveness property:
no handler of theirs loops. Nothing is claimed about how long their locks make others wait.

## 4. What is proved

Every invariant and action property of the passing runs is a theorem; only the two liveness properties
are not (fairness and ENABLED are beyond the prover). The theorems hold for all values of the constants: any number of
calls, users, rows, chats, messages, restarts, attempts and texts. They rest on the named assumptions of the modules only,
which TLC evaluates in the runs:

- `NULL` is no id, no line, no message and no text; bounds are naturals; requests and commands are of the form the handlers see.
- The initial databases satisfy `StoreInvariant` (and `DraftReferences` for the catalog, `UniqueNames` for accounts):
  they were filled by this program.
- `KindsOfIds` (`Catalog`): a generated uuid is made once, for one table. `ServiceAssumption` (`Service`): the chats
  that wait are chats, and the bot's bounds and messages are of the right kind.
- `ContentsAssumption` (`Documents`): a text has a length; every template's id has a spelling, which spells that
  template; the members of a body that is an object are JSON values of a type. It says nothing about which texts there are, how long
  they are, or how many spellings an id has.

**`EnsStoreProofs`**: each statement preserves `StoreInvariant`, with the precondition its caller
establishes, and the rows of ids that were issued before only evolve (a row stays its user's
or goes, a batch never becomes unsent). The cascades are where the work is.

**`NotificationsProofs`** (`TypeCorrect`, `StoreConsistency`, `CarriedStateSafety`,
`UnsentIsUntouched`): `StoreConsistent` is not inductive. The INSERT of a notification is sound only
if the batch, the recipient and the group that the call holds from earlier reads have one owner, and
that the batch is marked only if it was never unmarked since. `IInv` therefore joins the types,
`StoreInvariant`, `CarriedStateIsSafe` (for every call in its sending part, what it holds is gone or
still its user's), `UnsentMeansUntouched`, and that origins have issued ids. Ids that are never
issued twice are what makes stale reads harmless, so "issued" occurs in all of them.

**`DeliveryProofs`** (`OkIsEarned`, `OneUndelivered`, `RepeatsBounded`): an answer that is earned at the
end needs to be earned all along. `Progress` says so for every call that sends: the lines it selected are
those it has recorded (each by one notification, and these are its `ids`) and those it has left; every
recorded line but the one at hand was delivered; and the deliveries of that one are at most the attempts
used up.

`SendBatchDelivers` (`Spec => DeliversLines`) is in the same module. `View` is what `Delivery` sees of one call. With
the invariant of the promises, `PInv`, every action of `Notifications` leaves each view alone or changes that of one call in the way
of an action of `Delivery`; what other components do to the store no view can see.

**`CatalogProofs`** (`TypeCorrect`, `StoreConsistency`, `PendingRowsSafety`, `ConfirmedDraftsStayGone`): `IInv` joins the
types and `StoreInvariant` with `DraftReferences`; that everything in a table has an id that was issued; for every call
what its earlier statements found (`CallSafe`: behind `CheckGroup` the group is its user's or gone, behind
`CheckRecipient` the recipient too, and the row of an open confirmation has the user and the template its
locks hold); and for every logged confirmation that its call is over and its draft gone (`Confirmed`),
which stays true because ids are never issued twice. That the locks on templates must stop the deletion of
another user's account came out of this proof: without that guard of `AccountDeleted` the induction step
fails, and TLC finds the state once a group draft uses another user's template.

*The order of the answers* (`DeletionsAreFinal`, `AnswersAlternate`). `OrderInv` adds to `IInv` what the log says of the store
(`Standing`): a deleted user or row is not there and its id is not fresh; the pair of a logged addition is a member,
unless its recipient or group has gone or a later entry removed it, and the other way round. `Order` shows that every step is one
of three: it decides no answer and writes nothing (`Silent`), it decides an Ok, and then what the request names existed
and the store changed as the request asks (`Succeeds`), or a user goes (`UserGoes`). The invariance
is proved once for each of these instead of for each of thirty actions. This is where it
matters that `GroupDeleteRecipient` looks at the number of rows and that `GroupAddRecipient` has its unique
key: the checks before them say nothing about other calls.

*The errors* (`ErrorsExplained`). `Explained` says of each call that the ids it named are not fresh and that its
error is deserved in a form that cannot become false: what it named has gone for ever (`Deserves`), since no step brings an id back
(`NothingReturns`). The first attempt failed, with reason: a template id that nobody had
made yet gets a 422, and the generator of the model could make it afterwards, which a generator of
128-bit ids does not. Hence the ids in a request are in `issued`, and a request of `catalog_all` names
such an id (`tnew1`), with which TLC finds the violation if they are not.

**`AccountsProofs`** (`TypeCorrect`, `UniqueNamesAlways`, `DeletedStaysDeleted`, `AnswersAtomic`):
`IInv` says for every place of a call what the rest of its state is (`CallInv`), and that names are
unique, which makes the SELECT of `Login` the registry's choice. Each action gets a lemma that it
preserves `IInv` and is a step or a stutter of `Registry`; the theorem combines them.

**`TelegramBotProofs`** (`TypeCorrect`, `NothingForgotten`, `NothingTakenTwice`): that an update is
taken at most `restarts + 1` times needs to know that what the next poll may return has been taken at
most `restarts` times: the offset is in front of everything taken since the last restart.

*What a chat was told* (`AnswersTrue`, `SubscriptionsLast`). `ToldInv` has three parts. Each task knows what it is
going to answer only after the statement that makes it true (`TaskInv`). A chat that never asks to stop and was told Success, or has that answer on its way, is
subscribed (`YesIsTrue`): its tasks can only insert and activate, also when they run again, and an answer that comes late says
nothing that is not true any more. And until the
first restart (`Orderly`) no task is lost, and a chat that waits has one command under way at most, counting the answers
that are on their way (`OneAtATime`), so that
nobody can undo what the last answer says before the next message is sent. After a restart that part is false,
and the property does not claim it.

**`ServiceProofs`** (`BotAlone`, `SendingIsSafe`, `SubscribersReached`, `StoppedLeftAlone`): the steps of a call are
stutters of the bot, and the steps of the bot are steps that `Notifications` allows to other components, so the invariants of
both carry over (`BotAlone` is `ServiceSpec => Bot!Spec`). `SInv` joins `PInv` and `ToldInv` with `SelectedInv`: while a call has lines
selected, these include the lines of every chat that could count on being subscribed at the SELECT, and none of
a chat that could count on being stopped. `ToldIsTrue`, from `ToldInv`, establishes that at the SELECT; afterwards templates, recipients
and groups do not change in `Service`, and `Progress` turns "selected" into "delivered" or "on record".

**`DocumentsProofs`** (`AnswersRoundTrip`, `ConfirmedAsTheyWereShown`, `RefusalsEarned`, `ConfirmationsSucceed`): the parsers, the
serialisers and the SQL are shown to fit each other by lemmas on the operators. `ParsesDocumented`:
a parser accepts exactly the documents of its schema. `CutFits` and `WritesFit`: what the columns
make of the texts of a request fits them, and `RowsFit`: it goes through the next table unchanged. `RoundTrip`: an answer without its ids, parsed, gives the columns of the row it was made of.
The invariant `RowsInv` says that draft and row are well formed and name a template that exists or none, which the
SET NULL of the foreign key keeps up. `RefusalIsEarned` goes through the exceptions of a request in the order they are met;
with it the last two properties, about what a request does, follow from `RowsInv` at each of the requests.
`ConfirmedAsShown` relates two answers that may be far apart: `ShownInv` says that what the draft holds is what its
answer showed (`Shows`), member by member (`Keeps`), but for spaces and for templates that have gone; creations
establish it, deletions of templates change both sides of it, and at a confirmation it meets `StructOfRow`.

**Only model-checked**: `EveryCallAnswered` and `UpdatesAreHandled`, which need fairness; and the three runs that end
with a counterexample.

## 5. What is not modelled

- The contents of answers in `Notifications`, `Accounts` and `Catalog`, beyond their code, whose token it is and the
  ids that matter: texts decide nothing there. Of templates, recipients and groups, `Documents` has them.
  Texts and numbers are abstract in it, a word with a length: no code looks into one, except for ids.
- Of the generated schemas: parsers of the documents the service returns and serialisers of bodies (never called),
  the lists of notifications (their readers throw before anything is serialised), and `User` and `JWTPair`,
  whose members are the names and passwords of `Accounts`.
- Salts, hashes, signatures, and the times in a token. A token that does not verify, for whatever
  reason, is `NULL`; whether it decodes, which decides between a 401 and a 500, is left open.
- Texts in `Accounts`, beyond names that are the same or not: a name that is too long or has a U+0000 is an exception that nobody
  catches, which an `Abort` covers there.
- What becomes of a message of `SendBatch` when its attempt has timed out: `delivered` counts it, if it ever
  arrives, at the timeout, for only the number of messages matters in `Notifications`. For the bot's answers the order matters,
  and `late` has it.
- Deadlocks that PostgreSQL detects (an `Abort` may end any call that waits, so the models can show none),
  serialization of its locks beyond the ones above, timeouts:
  each is an exception at a statement, which is `Abort` or `TaskFails`.
- Telegram's types and the requests that are never made (vendored), `main.cpp` and the configuration: no state.

## 6. Plan

1. Done: all modules above, their runs and the proofs of section 4: every safety property that a run checks is proved.
2. Next: `SendBatchDelivers` for `Service`, where a restart ends all calls at once (each view takes the step of an `Abort`, but
   together, which `Delivery` would have to allow).
3. A specification of `Catalog` with one step per operation, which the order of the answers suggests: `OrderInv` has
   the facts that its refinement needs, but the two SELECTs of `GroupGetRecipients` and a
   confirmation's two statements are not atomic, and the specification has to say how.
4. The leads-to properties by hand, from the variants that bound a call's steps (the lines left and the attempts left).
