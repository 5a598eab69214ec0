----------------------------- MODULE TelegramBot -----------------------------
(***************************************************************************)
(* The Telegram bot: the long poller, which fetches the messages people    *)
(* write to the bot and starts a detached task for each, the tasks, which  *)
(* subscribe and unsubscribe chats (table telegram_contact) and answer,    *)
(* and the part of Telegram they meet: the updates it keeps until a poll   *)
(* confirms them.  One action per poll, per SQL statement or transaction   *)
(* and per attempt of an answer; an answer the bot has given up waiting    *)
(* for may still arrive, at any time after that or never; the process may  *)
(* be restarted at any time.                                               *)
(*                                                                         *)
(* Updates are numbered from 1 in the order Telegram receives them.        *)
(***************************************************************************)
EXTENDS Naturals, Sequences

CONSTANTS
    Chat,           \* telegram ids of the chats
    Patient,        \* the chats that wait until a command is done with (see Write)
    Commands,       \* the kinds of messages people send
    Limit,          \* updates one poll may return
    Tries,          \* attempts of one SendMessage (RequestOptions::retries)
    MaxUpdates,     \* bound on the messages people send
    MaxRestarts,    \* bound on the restarts of the process
    NULL

\* A message is a command, has no text, or (an edited message, which people
\* make of one they have sent) is no message at all.
AllCommands == {"help", "send_notifications", "stop_notifications", "no_text", "no_message"}

Messages == {"Help", "Success", "Already subscribed", "Stopped", "Not subscribed"}

ASSUME BotAssumption ==
    /\ Patient \subseteq Chat
    /\ Commands \subseteq AllCommands
    /\ Limit \in Nat \ {0} /\ Tries \in Nat \ {0}
    /\ MaxUpdates \in Nat /\ MaxRestarts \in Nat
    /\ NULL \notin Chat \cup Messages

VARIABLES
    contact,    \* telegram_contact: the chats that have a row, and if active
    inbox,      \* the updates Telegram has received
    kept,       \* the first of them that Telegram still keeps
    offset,     \* TelegramBotLongPoller::offset_
    task,       \* the task of each update
    late,       \* the answers on their way whose attempt has timed out
    restarts,   \* restarts of the process so far
    taken,      \* history: how many times an update was given to a task
    heard,      \* history: the updates whose answer reached the chat
    told        \* history: the last answer about its subscription a chat got

vars == <<contact, inbox, kept, offset, task, late, restarts, taken, heard, told>>

Update == [chat : Chat, command : Commands]

Ids == 1 .. MaxUpdates

TaskPC == {"none", "start", "insert", "update", "answer", "done", "lost"}

TaskState == [pc : TaskPC, msg : Messages \cup {NULL}, tries : Nat]

NoTask == [pc |-> "none", msg |-> NULL, tries |-> 0]

TypeOK ==
    /\ contact = [c \in DOMAIN contact |-> contact[c]]
    /\ DOMAIN contact \subseteq Chat
    /\ \A c \in DOMAIN contact : contact[c] \in BOOLEAN
    /\ inbox \in Seq(Update) /\ Len(inbox) <= MaxUpdates
    /\ kept \in Nat /\ offset \in Nat /\ restarts \in Nat
    /\ task \in [Ids -> TaskState]
    /\ \A i \in Ids : task[i].pc # "none" => i <= Len(inbox)
    /\ late \in [Ids -> SUBSET (Messages \cup {NULL})]
    /\ taken \in [Ids -> Nat]
    /\ heard \subseteq Ids
    /\ told \in [Chat -> Messages \cup {NULL}]

Init ==
    /\ \E C \in SUBSET Chat : contact \in [C -> BOOLEAN]
    /\ inbox = << >>
    /\ kept = 1
    /\ offset = 0
    /\ task = [i \in Ids |-> NoTask]
    /\ late = [i \in Ids |-> {}]
    /\ restarts = 0
    /\ taken = [i \in Ids |-> 0]
    /\ heard = {}
    /\ told = [c \in Chat |-> NULL]

Larger(a, b) == IF a < b THEN b ELSE a

\* The updates of chat c.
From(c) == {i \in 1 .. Len(inbox) : inbox[i].chat = c}

Subscribed(c) == c \in DOMAIN contact /\ contact[c]

-----------------------------------------------------------------------------
(* People and Telegram.                                                    *)

\* Someone writes to the bot.  A chat that waits does so until each of its
\* commands has been handled and no answer to it can arrive any more.
Write ==
    /\ Len(inbox) < MaxUpdates
    /\ \E c \in Chat, command \in Commands :
        /\ c \in Patient => \A i \in From(c) : task[i].pc = "done" /\ late[i] = {}
        /\ inbox' = Append(inbox, [chat |-> c, command |-> command])
    /\ UNCHANGED <<contact, kept, offset, task, late, restarts, taken, heard, told>>

\* getUpdates confirms, and Telegram forgets, what is below its offset.
Confirmed == Larger(kept, offset)

-----------------------------------------------------------------------------
(* The poller: one coroutine, one poll at a time.                          *)

\* The updates first .. last go to tasks.
StartTasks(first, last) ==
    /\ task' = [i \in Ids |-> IF i \in first .. last THEN [NoTask EXCEPT !.pc = "start"]
                              ELSE task[i]]
    /\ taken' = [i \in Ids |-> IF i \in first .. last THEN taken[i] + 1 ELSE taken[i]]

\* Faults: offset_ is the last id plus two, or the last id; more updates are
\* handled than Telegram has received.
PollSkipsOne ==
    /\ kept' = Confirmed
    /\ \E last \in Confirmed .. Len(inbox) :
        /\ last - Confirmed < Limit
        /\ StartTasks(Confirmed, last)
        /\ offset' = last + 2
    /\ UNCHANGED <<contact, inbox, late, restarts, heard, told>>

PollAgain ==
    /\ kept' = Confirmed
    /\ \E last \in Confirmed .. Len(inbox) :
        /\ last - Confirmed < Limit
        /\ StartTasks(Confirmed, last)
        /\ offset' = Larger(offset, last)
    /\ UNCHANGED <<contact, inbox, late, restarts, heard, told>>

PollBeyond ==
    /\ kept' = Confirmed
    /\ StartTasks(Confirmed, Confirmed + Limit - 1)
    /\ offset' = Confirmed + Limit
    /\ UNCHANGED <<contact, inbox, late, restarts, heard, told>>

\* FetchAndHandleUpdates: Telegram returns some of the updates from offset on,
\* each goes to a task of its own, and offset_ moves past the last of them.
\* (The tasks may run while the loop that starts them does; what they do is
\* the same as if they ran after it.)
FetchAndHandleUpdates ==
    /\ kept' = Confirmed
    /\ \E last \in Confirmed .. Len(inbox) :
        /\ last - Confirmed < Limit
        /\ StartTasks(Confirmed, last)
        /\ offset' = Larger(offset, last + 1)
    /\ UNCHANGED <<contact, inbox, late, restarts, heard, told>>

\* There is nothing to return, or the answer is lost: Telegram has seen the
\* offset all the same.
FetchFails ==
    /\ kept' = Confirmed
    /\ UNCHANGED <<contact, inbox, offset, task, late, restarts, taken, heard, told>>

-----------------------------------------------------------------------------
(* The task of update i.                                                   *)

At(i, pc, command) == task[i].pc = pc /\ inbox[i].command = command

Running(i) == task[i].pc \in {"start", "insert", "update", "answer"}

\* The task goes on to SendMessage(chat, msg).
Say(i, msg) == task' = [task EXCEPT ![i].pc = "answer", ![i].msg = msg]

HandleHelp(i) ==
    /\ At(i, "start", "help")
    /\ Say(i, "Help")
    /\ UNCHANGED <<contact, inbox, kept, offset, late, restarts, taken, heard, told>>

\* HandleUpdate returns when the message has no text.
IgnoreUpdate(i) ==
    /\ At(i, "start", "no_text")
    /\ task' = [task EXCEPT ![i].pc = "done"]
    /\ UNCHANGED <<contact, inbox, kept, offset, late, restarts, taken, heard, told>>

\* HandleSendNotifications: the SELECT EXISTS, outside the transaction.
CheckContact(i) ==
    /\ At(i, "start", "send_notifications")
    /\ task' = [task EXCEPT
                  ![i].pc = IF inbox[i].chat \in DOMAIN contact THEN "update" ELSE "insert"]
    /\ UNCHANGED <<contact, inbox, kept, offset, late, restarts, taken, heard, told>>

SetContact(c, active) ==
    contact' = [x \in DOMAIN contact \cup {c} |-> IF x = c THEN active ELSE contact[x]]

\* There was no row: the INSERT fails when another task has made one since.
InsertContact(i) ==
    /\ task[i].pc = "insert"
    /\ \/ /\ inbox[i].chat \notin DOMAIN contact
          /\ SetContact(inbox[i].chat, TRUE)
          /\ Say(i, "Success")
       \/ /\ inbox[i].chat \in DOMAIN contact
          /\ task' = [task EXCEPT ![i].pc = "done"]
          /\ UNCHANGED contact
    /\ UNCHANGED <<inbox, kept, offset, late, restarts, taken, heard, told>>

\* A fault: the transaction of the UPDATE is rolled back.
UpdateRolledBack(i) ==
    /\ task[i].pc = "update"
    /\ Say(i, IF Subscribed(inbox[i].chat) THEN "Already subscribed" ELSE "Success")
    /\ UNCHANGED <<contact, inbox, kept, offset, late, restarts, taken, heard, told>>

\* There was a row: the UPDATE changes it unless it is active.
UpdateContact(i) ==
    /\ task[i].pc = "update"
    /\ \/ /\ ~Subscribed(inbox[i].chat)
          /\ SetContact(inbox[i].chat, TRUE)
          /\ Say(i, "Success")
       \/ /\ Subscribed(inbox[i].chat)
          /\ Say(i, "Already subscribed")
          /\ UNCHANGED contact
    /\ UNCHANGED <<inbox, kept, offset, late, restarts, taken, heard, told>>

\* A fault: the transaction is not committed.
StopRolledBack(i) ==
    /\ At(i, "start", "stop_notifications")
    /\ Say(i, IF Subscribed(inbox[i].chat) THEN "Stopped" ELSE "Not subscribed")
    /\ UNCHANGED <<contact, inbox, kept, offset, late, restarts, taken, heard, told>>

HandleStopNotifications(i) ==
    /\ At(i, "start", "stop_notifications")
    /\ LET c == inbox[i].chat
       IN  \/ /\ Subscribed(c)
              /\ SetContact(c, FALSE)
              /\ Say(i, "Stopped")
           \/ /\ ~Subscribed(c)
              /\ Say(i, "Not subscribed")
              /\ UNCHANGED contact
    /\ UNCHANGED <<inbox, kept, offset, late, restarts, taken, heard, told>>

\* Answer msg to update i reaches the chat.
Hear(i, msg) ==
    /\ heard' = heard \cup {i}
    /\ told' = IF msg = "Help" THEN told ELSE [told EXCEPT ![inbox[i].chat] = msg]

AnswerSent(i) ==
    /\ task[i].pc = "answer"
    /\ Hear(i, task[i].msg)
    /\ task' = [task EXCEPT ![i].pc = "done"]
    /\ UNCHANGED <<contact, inbox, kept, offset, late, restarts, taken>>

\* A timeout or a server error: the answer is on its way all the same or never
\* left, and is tried again while there are attempts left.
AnswerFails(i) ==
    /\ task[i].pc = "answer"
    /\ late' \in {late, [late EXCEPT ![i] = late[i] \cup {task[i].msg}]}
    /\ task' = [task EXCEPT
                  ![i].tries = @ + 1,
                  ![i].pc = IF task[i].tries + 1 = Tries THEN "done" ELSE "answer"]
    /\ UNCHANGED <<contact, inbox, kept, offset, restarts, taken, heard, told>>

\* An answer on its way arrives, whatever the bot has answered since; when
\* several attempts were, it may do so again.
LateAnswer(i) ==
    /\ \E msg \in late[i] :
        /\ Hear(i, msg)
        /\ late' \in {late, [late EXCEPT ![i] = late[i] \ {msg}]}
    /\ UNCHANGED <<contact, inbox, kept, offset, task, restarts, taken>>

\* The database or Telegram refuses something: the exception ends the task,
\* and with it an open transaction, and goes no further.
TaskFails(i) ==
    /\ Running(i) /\ inbox[i].command # "no_message"
    /\ task' = [task EXCEPT ![i].pc = "done"]
    /\ UNCHANGED <<contact, inbox, kept, offset, late, restarts, taken, heard, told>>

\* The process stops, by itself or by OnAllComponentsAreStopping, which cancels
\* the tasks, and starts again: offset_ and the tasks were only in memory.
Restart ==
    /\ restarts < MaxRestarts
    /\ restarts' = restarts + 1
    /\ offset' = 0
    /\ task' = [i \in Ids |-> IF Running(i) THEN [NoTask EXCEPT !.pc = "lost"] ELSE task[i]]
    /\ UNCHANGED <<contact, inbox, kept, late, taken, heard, told>>

\* HandleUpdate reads the text of a message that is a null pointer: the process
\* is killed, with every task in it, and started again by whoever runs it.
\* The update comes back with the next poll unless one has confirmed it.
ReadNoMessage(i) == At(i, "start", "no_message") /\ Restart

\* HandleUpdate of update i goes on.
HandleUpdate(i) ==
    \/ HandleHelp(i) \/ IgnoreUpdate(i)
    \/ CheckContact(i) \/ InsertContact(i) \/ UpdateContact(i)
    \/ HandleStopNotifications(i)
    \/ AnswerSent(i) \/ AnswerFails(i) \/ TaskFails(i)

Next ==
    \/ Write
    \/ FetchAndHandleUpdates \/ FetchFails
    \/ \E i \in Ids : HandleUpdate(i) \/ LateAnswer(i) \/ ReadNoMessage(i)
    \/ Restart

Spec == Init /\ [][Next]_vars

\* The periodic task polls for ever, and of the polls that have something to
\* fetch not all fail; a task that has an answer or a timeout to go on with
\* does go on.  People, failures and restarts owe nothing.
FairSpec ==
    /\ Spec
    /\ WF_vars(FetchAndHandleUpdates)
    /\ \A i \in Ids : WF_vars(HandleUpdate(i))

-----------------------------------------------------------------------------
(* Safety.                                                                 *)

\* Telegram forgets an update only after some task was given it, and the
\* poller is never ahead of what it was given: no answer that is lost, no
\* restart and no limit on the size of an answer makes the bot skip a message.
ForgottenWasTaken ==
    /\ \A i \in 1 .. Len(inbox) : i < kept \/ i < offset => taken[i] > 0
    /\ kept <= Len(inbox) + 1 /\ offset <= Len(inbox) + 1

\* An update goes to a task once, and once more for every restart at most, so
\* a command is carried out again only when a restart came before the poll
\* that confirms it.
TakenOncePerStart ==
    \A i \in 1 .. Len(inbox) : taken[i] <= restarts + 1

\* All that the chat has written has been handled, and answered.
Quiet(c) == \A i \in From(c) : task[i].pc = "done" /\ i \in heard

\* telegram_bot.cpp:57 and :91: the last answer a chat got about its
\* subscription says how things are once nothing it wrote is left to handle,
\* if it waits with a command until the one before has been handled and no
\* answer to it is on its way, and the process was not restarted.  What other
\* chats do makes no difference.  (Tasks of a chat that does not wait, and
\* those of updates that come again after a restart, run and answer in any
\* order; an answer that comes late is heard after the one to the next command.)
AnswersHold ==
    restarts = 0 => \A c \in Patient : Quiet(c) =>
        /\ told[c] \in {"Success", "Already subscribed"} => Subscribed(c)
        /\ told[c] \in {"Stopped", "Not subscribed"} => ~Subscribed(c)

\* A chat that has never asked to stop and has been told that it is subscribed
\* stays so: neither the INSERT that fails because two tasks found no row, nor
\* a task cut short or run again after a restart, undoes a subscription.
SubscriptionLasts ==
    \A c \in Chat :
        (/\ \A i \in From(c) : inbox[i].command # "stop_notifications"
         /\ \E i \in From(c) : inbox[i].command = "send_notifications" /\ task[i].msg # NULL)
            => Subscribed(c)

-----------------------------------------------------------------------------
(* Liveness.                                                               *)

\* Without restarts, every message is taken and its handling ends, however
\* many others come and whatever fails.
UpdatesAreHandled ==
    \A i \in Ids : (i <= Len(inbox)) ~> (task[i].pc = "done")
=============================================================================
