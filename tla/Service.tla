------------------------------- MODULE Service -------------------------------
(***************************************************************************)
(* The service that sends: SendBatch of Notifications and the bot of       *)
(* TelegramBot in one process, on one telegram_contact table.  The bot's   *)
(* tasks change contacts while calls are under way, and a restart ends the *)
(* tasks and the calls together.  The other components keep still here:    *)
(* Notifications is about them.                                            *)
(***************************************************************************)
EXTENDS Notifications

CONSTANTS
    Patient,        \* chats that wait until a command is done with
    Commands,       \* the kinds of messages people send
    Limit,          \* updates one poll may return
    MaxUpdates,     \* bound on the messages people send
    MaxRestarts     \* bound on the restarts of the process

VARIABLES
    inbox, kept, offset, task, late, restarts, taken, heard, told, \* as in TelegramBot
    selected    \* history: what chats knew when a call selected its lines

botVars == <<inbox, kept, offset, task, late, restarts, taken, heard, told>>

serviceVars == <<vars, botVars, selected>>

\* The bot sees the contacts through this.
Bot == INSTANCE TelegramBot WITH
    contact <- [chat \in DOMAIN db.contact |-> db.contact[chat].active]

ASSUME ServiceAssumption ==
    /\ Patient \subseteq Chat /\ Commands \subseteq Bot!AllCommands
    /\ Limit \in Nat \ {0} /\ MaxUpdates \in Nat /\ MaxRestarts \in Nat
    /\ NULL \notin Bot!Messages

ServiceInit ==
    /\ Init
    /\ Bot!Init
    /\ selected = [c \in Call |-> [on |-> {}, off |-> {}]]

-----------------------------------------------------------------------------

\* The chats that may count on what they were told: those that waited with
\* every command until no answer to the one before could arrive any more, and
\* have an answer to each, while the process was not restarted; and those that
\* never asked to stop, however late their answers come.
Certain(chat) ==
    \/ chat \in Patient /\ Bot!Quiet(chat) /\ restarts = 0
    \/ \A i \in Bot!From(chat) : inbox[i].command # "stop_notifications"

ToldOn == {chat \in Chat : /\ Certain(chat)
                           /\ told[chat] \in {"Success", "Already subscribed"}}

ToldOff == {chat \in Chat : /\ chat \in Patient /\ Bot!Quiet(chat) /\ restarts = 0
                            /\ told[chat] \in {"Stopped", "Not subscribed"}}

\* A step of a call; the history is written down when it selects its lines.
CallSteps(c) ==
    /\ Receive(c) \/ Step(c) \/ Abort(c)
    /\ selected' = IF call[c].pc = "info" /\ call'[c].pc = "loop"
                   THEN [selected EXCEPT ![c] = [on |-> ToldOn, off |-> ToldOff]]
                   ELSE selected
    /\ UNCHANGED botVars

PeopleWrite == UNCHANGED vars /\ Bot!Write /\ UNCHANGED selected

Polls ==
    /\ UNCHANGED vars
    /\ Bot!FetchAndHandleUpdates \/ Bot!FetchFails
    /\ UNCHANGED selected

\* What one statement of the bot for the chat of update i can leave.
ContactWrites(i) == {db} \cup {SetContact(db, inbox[i].chat, active) : active \in BOOLEAN}

AnswerArrives(i) == UNCHANGED vars /\ Bot!LateAnswer(i) /\ UNCHANGED selected

TaskSteps(i) ==
    /\ i \in DOMAIN inbox
    /\ \E d \in ContactWrites(i) : db' = d
    /\ UNCHANGED <<issued, call, edits, origin, delivered>>
    /\ Bot!HandleUpdate(i)
    /\ UNCHANGED selected

\* The process stops: every call under way ends as it does in Abort.
ServiceRestart ==
    /\ call' = [c \in Call |->
                  IF call[c].pc \in {"idle", "done"} THEN call[c]
                  ELSE [call[c] EXCEPT !.pc = "done", !.resp = "Aborted"]]
    /\ \E S \in SUBSET {call[c].notification : c \in {k \in Call : call[k].pc = "send"}} :
        delivered' = [n \in Notification |->
                        IF n \in S THEN delivered[n] + 1 ELSE delivered[n]]
    /\ UNCHANGED <<db, issued, edits, origin>>
    /\ Bot!Restart
    /\ UNCHANGED selected

ServiceNext ==
    \/ \E c \in Call : CallSteps(c)
    \/ PeopleWrite \/ Polls
    \/ \E i \in 1 .. MaxUpdates : TaskSteps(i) \/ AnswerArrives(i)
    \/ ServiceRestart

ServiceSpec == ServiceInit /\ [][ServiceNext]_serviceVars

-----------------------------------------------------------------------------
(* Safety.                                                                 *)

\* The lines u's groups have for a chat, whether it is subscribed or not.
LinesFor(u, chat) ==
    {p \in db.member : /\ p[2] \in Owned(db.group, u)
                       /\ db.group[p[2]].active
                       /\ db.group[p[2]].template # NULL
                       /\ db.template[db.group[p[2]].template].text # NULL
                       /\ db.recipient[p[1]].chat = chat}

\* telegram_bot.cpp:57 to the loop of SendBatch: a chat that has been told it
\* is subscribed, and may count on it, is not forgotten.  Whatever the poller loses, whichever tasks
\* fail, and however the commands of other chats and a restart come in
\* between, a call that selects its lines after that and answers 200 has
\* delivered every line the chat is due.
SubscribersAreReached ==
    \A c \in Call : Sends(c) /\ call[c].resp = "Ok" =>
        \A chat \in selected[c].on : \A p \in LinesFor(call[c].req.user, chat) :
            \E n \in RecordedBy(c) :
                /\ origin[n].row.recipient = p[1] /\ origin[n].row.group = p[2]
                /\ delivered[n] >= 1

\* telegram_bot.cpp:91: a chat that has been told it gets no more messages,
\* and has waited as Certain says, gets them from calls alone that had selected
\* their lines before (the flag is read once, notifications.cpp:175), never from
\* a later one.
StoppedChatsAreLeftAlone ==
    \A c \in Call : \A n \in RecordedBy(c) : origin[n].row.chat \notin selected[c].off
=============================================================================
