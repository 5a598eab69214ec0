-------------------------- MODULE TelegramBotProofs --------------------------
(***************************************************************************)
(* Proofs about TelegramBot, for all values of the constants: its type     *)
(* invariant, that Telegram forgets no update the bot was not given, that  *)
(* an update is given to a task at most once per start of the process, and *)
(* that what the chats were told of their subscriptions is true.           *)
(***************************************************************************)
EXTENDS TelegramBot, TLAPS

\* What the poller still has to fetch has never been fetched since the last
\* start, and what it has passed was fetched.
IInv ==
    /\ TypeOK
    /\ kept >= 1 /\ kept <= Len(inbox) + 1 /\ offset <= Len(inbox) + 1
    /\ \A i \in Ids : i < kept \/ i < offset => taken[i] > 0
    /\ \A i \in Ids : taken[i] <= restarts + 1
    /\ \A i \in Ids : i >= Confirmed => taken[i] <= restarts

\* IInv holds initially.
LEMMA InitIInv == Init => IInv
<1> SUFFICES ASSUME Init PROVE IInv
  OBVIOUS
<1> USE BotAssumption
<1>1. PICK C \in SUBSET Chat : contact \in [C -> BOOLEAN]
  BY DEF Init
<1>2. /\ contact = [c \in DOMAIN contact |-> contact[c]]
      /\ DOMAIN contact \subseteq Chat
      /\ \A c \in DOMAIN contact : contact[c] \in BOOLEAN
  BY <1>1
<1>3. NoTask \in TaskState
  BY DEF NoTask, TaskState, TaskPC
<1>4. task \in [Ids -> TaskState] /\ \A i \in Ids : task[i].pc = "none"
  BY <1>3 DEF Init, NoTask
<1>5. inbox \in Seq(Update) /\ Len(inbox) = 0
  BY DEF Init
<1>6. /\ taken \in [Ids -> Nat] /\ told \in [Chat -> Messages \cup {NULL}]
      /\ late \in [Ids -> SUBSET (Messages \cup {NULL})]
  BY DEF Init
<1>7. TypeOK
  BY <1>2, <1>4, <1>5, <1>6 DEF TypeOK, Init
<1>8. QED
  BY <1>5, <1>7 DEF IInv, Init, Ids, Confirmed, Larger

\* Where only contact, the tasks and their answers change, IInv is kept if the
\* types are.
LEMMA TasksOnly ==
  ASSUME IInv, UNCHANGED <<inbox, kept, offset, restarts, taken>>,
         contact' = [c \in DOMAIN contact' |-> contact'[c]],
         DOMAIN contact' \subseteq Chat,
         \A c \in DOMAIN contact' : contact'[c] \in BOOLEAN,
         task' \in [Ids -> TaskState],
         \A i \in Ids : task'[i].pc # "none" => i <= Len(inbox),
         late' \in [Ids -> SUBSET (Messages \cup {NULL})],
         heard' \subseteq Ids,
         told' \in [Chat -> Messages \cup {NULL}]
  PROVE  IInv'
BY DEF IInv, TypeOK, Confirmed, Larger

\* A task that is somewhere belongs to an update that was received.
LEMMA TaskHasUpdate ==
  ASSUME IInv, NEW i \in Ids, task[i].pc # "none"
  PROVE  /\ i \in 1 .. Len(inbox)
         /\ inbox[i].chat \in Chat
<1>1. i \in 1 .. Len(inbox)
  BY BotAssumption DEF IInv, TypeOK, Ids
<1>2. inbox \in Seq(Update)
  BY DEF IInv, TypeOK
<1>3. inbox[i] \in Update
  BY <1>1, <1>2
<1>4. QED
  BY <1>1, <1>3 DEF Update

\* What SetContact makes is a table of chats again.
LEMMA SetContactType ==
  ASSUME IInv, NEW c \in Chat, NEW active \in BOOLEAN, SetContact(c, active)
  PROVE  /\ contact' = [x \in DOMAIN contact' |-> contact'[x]]
         /\ DOMAIN contact' \subseteq Chat
         /\ \A x \in DOMAIN contact' : contact'[x] \in BOOLEAN
<1>1. contact' = [x \in DOMAIN contact \cup {c} |-> IF x = c THEN active ELSE contact[x]]
  BY DEF SetContact
<1>2. DOMAIN contact' = DOMAIN contact \cup {c}
  BY <1>1
<1>3. \A x \in DOMAIN contact' : contact'[x] \in BOOLEAN
  BY <1>1, <1>2 DEF IInv, TypeOK
<1>4. contact' = [x \in DOMAIN contact' |-> contact'[x]]
  BY <1>1, <1>2
<1>5. QED
  BY <1>2, <1>3, <1>4 DEF IInv, TypeOK

\* Say keeps the type of the tasks.
LEMMA SayType ==
  ASSUME IInv, NEW i \in Ids, task[i].pc # "none", NEW msg \in Messages, Say(i, msg)
  PROVE  /\ task' \in [Ids -> TaskState]
         /\ \A j \in Ids : task'[j].pc # "none" => j <= Len(inbox)
<1>1. i <= Len(inbox) /\ task[i] \in TaskState /\ task \in [Ids -> TaskState]
  BY DEF IInv, TypeOK
<1>2. task' = [task EXCEPT ![i] = [task[i] EXCEPT !.pc = "answer", !.msg = msg]]
  BY <1>1 DEF Say, TaskState
<1>3. [task[i] EXCEPT !.pc = "answer", !.msg = msg] \in TaskState
  BY <1>1 DEF TaskState, TaskPC
<1>4. QED
  BY <1>1, <1>2, <1>3 DEF IInv, TypeOK

\* So does an assignment to the program counter of a task.
LEMMA MoveType ==
  ASSUME IInv, NEW i \in Ids, task[i].pc # "none", NEW pc \in TaskPC,
         task' = [task EXCEPT ![i].pc = pc]
  PROVE  /\ task' \in [Ids -> TaskState]
         /\ \A j \in Ids : task'[j].pc # "none" => j <= Len(inbox)
<1>1. i <= Len(inbox) /\ task[i] \in TaskState /\ task \in [Ids -> TaskState]
  BY DEF IInv, TypeOK
<1>2. [task[i] EXCEPT !.pc = pc] \in TaskState
  BY <1>1 DEF TaskState
<1>3. QED
  BY <1>1, <1>2 DEF IInv, TypeOK

\* And what a chat hears is a message.
LEMMA HearType ==
  ASSUME IInv, NEW i \in Ids, NEW msg \in Messages \cup {NULL}, Hear(i, msg)
  PROVE  heard' \subseteq Ids /\ told' \in [Chat -> Messages \cup {NULL}]
BY DEF Hear, IInv, TypeOK

\* No step of a task breaks IInv.
LEMMA HandleUpdateIInv ==
  ASSUME IInv, NEW i \in Ids, HandleUpdate(i)
  PROVE  IInv'
<1> USE DEF Messages
<1>t. /\ contact = [c \in DOMAIN contact |-> contact[c]]
      /\ DOMAIN contact \subseteq Chat
      /\ \A c \in DOMAIN contact : contact[c] \in BOOLEAN
      /\ late \in [Ids -> SUBSET (Messages \cup {NULL})]
      /\ heard \subseteq Ids /\ told \in [Chat -> Messages \cup {NULL}]
      /\ task[i].msg \in Messages \cup {NULL}
  BY DEF IInv, TypeOK, TaskState
<1>p. task[i].pc # "none"
  BY DEF HandleUpdate, HandleHelp, IgnoreUpdate, CheckContact, InsertContact,
         UpdateContact, HandleStopNotifications, AnswerSent, AnswerFails, TaskFails,
         At, Running
<1>c. inbox[i].chat \in Chat
  BY <1>p, TaskHasUpdate
<1> DEFINE TaskType == /\ task' \in [Ids -> TaskState]
                       /\ \A j \in Ids : task'[j].pc # "none" => j <= Len(inbox)
           ContactType == /\ contact' = [c \in DOMAIN contact' |-> contact'[c]]
                          /\ DOMAIN contact' \subseteq Chat
                          /\ \A c \in DOMAIN contact' : contact'[c] \in BOOLEAN
           HeardType == /\ late' \in [Ids -> SUBSET (Messages \cup {NULL})]
                        /\ heard' \subseteq Ids /\ told' \in [Chat -> Messages \cup {NULL}]
           Poller == UNCHANGED <<inbox, kept, offset, restarts, taken>>
<1>q. ASSUME TaskType, ContactType, HeardType, Poller PROVE IInv'
  BY <1>q, TasksOnly
<1>s. ASSUME NEW msg \in Messages, Say(i, msg) PROVE TaskType
  BY <1>s, <1>p, SayType
<1>m. ASSUME NEW pc \in TaskPC, task' = [task EXCEPT ![i].pc = pc] PROVE TaskType
  BY <1>m, <1>p, MoveType
<1>w. ASSUME NEW active \in BOOLEAN, SetContact(inbox[i].chat, active) PROVE ContactType
  BY <1>w, <1>c, SetContactType
<1>u. ASSUME UNCHANGED contact PROVE ContactType
  BY <1>u, <1>t
<1>v. ASSUME UNCHANGED <<late, heard, told>> PROVE HeardType
  BY <1>v, <1>t
<1>x. Poller
  BY DEF HandleUpdate, HandleHelp, IgnoreUpdate, CheckContact, InsertContact,
         UpdateContact, HandleStopNotifications, AnswerSent, AnswerFails, TaskFails
<1>d. "done" \in TaskPC /\ "insert" \in TaskPC /\ "update" \in TaskPC
  BY DEF TaskPC
<1> HIDE DEF TaskType, ContactType, HeardType, Poller
<1>1. CASE HandleHelp(i)
  BY <1>1, <1>q, <1>s, <1>u, <1>v, <1>x DEF HandleHelp
<1>2. CASE IgnoreUpdate(i)
  BY <1>2, <1>q, <1>m, <1>d, <1>u, <1>v, <1>x DEF IgnoreUpdate
<1>3. CASE CheckContact(i)
  <2>1. TaskType
    BY <1>3, <1>m, <1>d DEF CheckContact
  <2>2. QED
    BY <1>3, <2>1, <1>q, <1>u, <1>v, <1>x DEF CheckContact
<1>4. CASE InsertContact(i)
  <2>1. TaskType
    BY <1>4, <1>s, <1>m, <1>d DEF InsertContact
  <2>2. ContactType
    BY <1>4, <1>w, <1>u DEF InsertContact
  <2>3. QED
    BY <1>4, <2>1, <2>2, <1>q, <1>v, <1>x DEF InsertContact
<1>5. CASE UpdateContact(i)
  <2>1. TaskType
    BY <1>5, <1>s DEF UpdateContact
  <2>2. ContactType
    BY <1>5, <1>w, <1>u DEF UpdateContact
  <2>3. QED
    BY <1>5, <2>1, <2>2, <1>q, <1>v, <1>x DEF UpdateContact
<1>6. CASE HandleStopNotifications(i)
  <2>1. TaskType
    BY <1>6, <1>s DEF HandleStopNotifications
  <2>2. ContactType
    BY <1>6, <1>w, <1>u DEF HandleStopNotifications
  <2>3. QED
    BY <1>6, <2>1, <2>2, <1>q, <1>v, <1>x DEF HandleStopNotifications
<1>7. CASE AnswerSent(i)
  <2>1. HeardType
    BY <1>7, <1>t, HearType DEF AnswerSent, HeardType
  <2>2. QED
    BY <1>7, <2>1, <1>q, <1>m, <1>d, <1>u, <1>x DEF AnswerSent
<1>8. CASE AnswerFails(i)
  <2>1. HeardType
    BY <1>8, <1>t DEF AnswerFails, HeardType
  <2>2. TaskType
    <3> DEFINE pc == IF task[i].tries + 1 = Tries THEN "done" ELSE "answer"
    <3>1. i <= Len(inbox) /\ task[i] \in TaskState /\ task \in [Ids -> TaskState]
      BY <1>p DEF IInv, TypeOK
    <3>2. task' = [task EXCEPT ![i] = [task[i] EXCEPT !.tries = task[i].tries + 1, !.pc = pc]]
      BY <1>8, <3>1 DEF AnswerFails, TaskState
    <3>7. task[i].tries \in Nat
      BY <3>1 DEF TaskState
    <3>3. task[i].tries + 1 \in Nat
      BY <3>7
    <3>6. pc \in TaskPC
      BY DEF TaskPC
    <3>4. [task[i] EXCEPT !.tries = task[i].tries + 1, !.pc = pc] \in TaskState
      BY <3>1, <3>3, <3>6 DEF TaskState
    <3>5. QED
      BY <3>1, <3>2, <3>4 DEF TaskType, IInv, TypeOK
  <2>3. QED
    BY <1>8, <2>1, <2>2, <1>q, <1>u, <1>x DEF AnswerFails
<1>9. CASE TaskFails(i)
  BY <1>9, <1>q, <1>m, <1>d, <1>u, <1>v, <1>x DEF TaskFails
<1>10. QED
  BY <1>1, <1>2, <1>3, <1>4, <1>5, <1>6, <1>7, <1>8, <1>9 DEF HandleUpdate

\* An answer that comes late is a message like any other.
LEMMA LateAnswerIInv ==
  ASSUME IInv, NEW i \in Ids, LateAnswer(i)
  PROVE  IInv'
<1>1. PICK msg \in late[i] :
        Hear(i, msg) /\ late' \in {late, [late EXCEPT ![i] = late[i] \ {msg}]}
  BY DEF LateAnswer
<1>2. /\ late \in [Ids -> SUBSET (Messages \cup {NULL})]
      /\ UNCHANGED <<contact, inbox, kept, offset, task, restarts, taken>>
  BY DEF IInv, TypeOK, LateAnswer
<1>3. heard' \subseteq Ids /\ told' \in [Chat -> Messages \cup {NULL}]
  BY <1>1, <1>2, HearType
<1>4. late' \in [Ids -> SUBSET (Messages \cup {NULL})]
  BY <1>1, <1>2
<1>5. QED
  BY <1>2, <1>3, <1>4 DEF IInv, TypeOK, Confirmed, Larger

\* A new update is one the poller has not passed.
LEMMA WriteIInv ==
  ASSUME IInv, Write
  PROVE  IInv'
<1> USE BotAssumption
<1>1. PICK c \in Chat, command \in Commands :
        inbox' = Append(inbox, [chat |-> c, command |-> command])
  BY DEF Write
<1>2. [chat |-> c, command |-> command] \in Update
  BY DEF Update
<1>3. inbox' \in Seq(Update) /\ Len(inbox') = Len(inbox) + 1
  BY <1>1, <1>2 DEF IInv, TypeOK
<1>4. Len(inbox) \in Nat
  BY DEF IInv, TypeOK
<1>5. Len(inbox') <= MaxUpdates
  BY <1>3, <1>4 DEF Write
<1>6. UNCHANGED <<contact, kept, offset, task, late, restarts, taken, heard, told>>
  BY DEF Write
<1>7. \A i \in Ids : task'[i].pc # "none" => i <= Len(inbox')
  BY <1>3, <1>4, <1>6 DEF IInv, TypeOK, Ids
<1>8. TypeOK'
  BY <1>3, <1>5, <1>6, <1>7 DEF IInv, TypeOK
<1>9. QED
  BY <1>3, <1>4, <1>6, <1>8 DEF IInv, TypeOK, Confirmed, Larger

\* What a poll passes it has given to tasks, and that for the first time.
LEMMA FetchIInv ==
  ASSUME IInv, FetchAndHandleUpdates
  PROVE  IInv'
<1> USE BotAssumption
<1>1. PICK last \in Confirmed .. Len(inbox) :
        /\ StartTasks(Confirmed, last)
        /\ offset' = Larger(offset, last + 1)
  BY DEF FetchAndHandleUpdates
<1>2. /\ kept' = Confirmed
      /\ UNCHANGED <<contact, inbox, late, restarts, heard, told>>
  BY DEF FetchAndHandleUpdates
<1>3. /\ kept \in Nat /\ offset \in Nat /\ restarts \in Nat /\ Len(inbox) \in Nat
      /\ taken \in [Ids -> Nat] /\ task \in [Ids -> TaskState]
      /\ \A i \in Ids : task[i].pc # "none" => i <= Len(inbox)
  BY DEF IInv, TypeOK
<1>4. /\ Confirmed \in Nat /\ Confirmed >= 1 /\ Confirmed <= Len(inbox) + 1
      /\ last \in Nat /\ last <= Len(inbox) /\ Confirmed <= last
      /\ kept <= Confirmed /\ offset <= Confirmed
      /\ Confirmed = kept \/ Confirmed = offset
  BY <1>1, <1>3 DEF IInv, Confirmed, Larger
<1>5. offset' = last + 1 /\ offset' \in Nat
  BY <1>1, <1>3, <1>4 DEF Larger
<1>6. [NoTask EXCEPT !.pc = "start"] \in TaskState
  BY DEF NoTask, TaskState, TaskPC
<1>7. /\ task' \in [Ids -> TaskState]
      /\ \A i \in Ids : task'[i].pc # "none" => i <= Len(inbox)
  <2>1. task' = [i \in Ids |-> IF i \in Confirmed .. last
                              THEN [NoTask EXCEPT !.pc = "start"] ELSE task[i]]
    BY <1>1 DEF StartTasks
  <2>2. task' \in [Ids -> TaskState]
    BY <2>1, <1>3, <1>6
  <2>3. ASSUME NEW i \in Ids, task'[i].pc # "none" PROVE i <= Len(inbox)
    <3>1. CASE i \in Confirmed .. last
      BY <3>1, <1>4 DEF Ids
    <3>2. CASE i \notin Confirmed .. last
      BY <3>2, <2>1, <2>3, <1>3
    <3>3. QED
      BY <3>1, <3>2
  <2>4. QED
    BY <2>2, <2>3
<1>8. \A i \in Ids : taken'[i] = IF i \in Confirmed .. last THEN taken[i] + 1 ELSE taken[i]
  BY <1>1 DEF StartTasks
<1>9. taken' \in [Ids -> Nat]
  BY <1>1, <1>3 DEF StartTasks
<1>10. TypeOK'
  BY <1>2, <1>4, <1>5, <1>7, <1>9 DEF IInv, TypeOK
<1>11. \A i \in Ids : i < kept' \/ i < offset' => taken'[i] > 0
  BY <1>2, <1>3, <1>4, <1>5, <1>8 DEF IInv, Ids
<1>12. \A i \in Ids : taken'[i] <= restarts' + 1
  <2>1. /\ \A i \in Ids : i >= Confirmed => taken[i] <= restarts
        /\ \A i \in Ids : taken[i] <= restarts + 1 /\ taken[i] \in Nat
    BY <1>3 DEF IInv
  <2>2. QED
    BY <1>2, <1>3, <1>4, <1>8, <2>1
<1>13. \A i \in Ids : i >= Confirmed' => taken'[i] <= restarts'
  <2>1. kept' <= last /\ kept' \in Nat /\ offset' = last + 1
    BY <1>2, <1>4, <1>5
  <2>3. Confirmed' = last + 1
    BY <2>1, <1>4 DEF Confirmed, Larger
  <2>4. \A i \in Ids : i >= last + 1 => i >= Confirmed /\ taken'[i] = taken[i]
    BY <1>4, <1>8 DEF Ids
  <2>2. QED
    BY <2>3, <2>4, <1>2 DEF IInv
<1>14. QED
  BY <1>2, <1>4, <1>5, <1>10, <1>11, <1>12, <1>13 DEF IInv

\* A poll that brings nothing only confirms.
LEMMA FetchFailsIInv ==
  ASSUME IInv, FetchFails
  PROVE  IInv'
<1>1. /\ kept' = Confirmed
      /\ UNCHANGED <<contact, inbox, offset, task, late, restarts, taken, heard, told>>
  BY DEF FetchFails
<1>2. /\ kept \in Nat /\ offset \in Nat /\ Len(inbox) \in Nat
      /\ taken \in [Ids -> Nat]
  BY DEF IInv, TypeOK
<1>3. /\ Confirmed \in Nat /\ Confirmed >= 1 /\ Confirmed <= Len(inbox) + 1
      /\ Confirmed' = Confirmed
      /\ \A i \in Ids : i < Confirmed => i < kept \/ i < offset
  BY <1>1, <1>2 DEF IInv, Confirmed, Larger, Ids
<1>4. TypeOK'
  BY <1>1, <1>3 DEF IInv, TypeOK
<1>5. QED
  BY <1>1, <1>2, <1>3, <1>4 DEF IInv, Ids

\* A restart forgets the offset and counts.
LEMMA RestartIInv ==
  ASSUME IInv, Restart
  PROVE  IInv'
<1>1. /\ restarts' = restarts + 1 /\ offset' = 0
      /\ task' = [i \in Ids |-> IF Running(i) THEN [NoTask EXCEPT !.pc = "lost"] ELSE task[i]]
      /\ UNCHANGED <<contact, inbox, kept, late, taken, heard, told>>
  BY DEF Restart
<1>2. /\ restarts \in Nat /\ Len(inbox) \in Nat /\ kept \in Nat
      /\ taken \in [Ids -> Nat] /\ task \in [Ids -> TaskState]
      /\ \A i \in Ids : task[i].pc # "none" => i <= Len(inbox)
  BY DEF IInv, TypeOK
<1>3. [NoTask EXCEPT !.pc = "lost"] \in TaskState
  BY DEF NoTask, TaskState, TaskPC
<1>4. /\ task' \in [Ids -> TaskState]
      /\ \A i \in Ids : task'[i].pc # "none" => i <= Len(inbox)
  BY <1>1, <1>2, <1>3 DEF Running
<1>5. restarts' \in Nat /\ offset' \in Nat
  BY <1>1, <1>2
<1>7. TypeOK'
  BY <1>1, <1>4, <1>5 DEF IInv, TypeOK
<1>8. Confirmed' = kept
  BY <1>1, <1>2 DEF Confirmed, Larger, IInv
<1>6. QED
  BY <1>1, <1>2, <1>7, <1>8 DEF IInv, Ids

\* IInv is an invariant.
LEMMA Invariance == Spec => []IInv
<1>1. ASSUME IInv, [Next]_vars PROVE IInv'
  <2>1. CASE Write
    BY <1>1, <2>1, WriteIInv
  <2>2. CASE FetchAndHandleUpdates
    BY <1>1, <2>2, FetchIInv
  <2>3. CASE FetchFails
    BY <1>1, <2>3, FetchFailsIInv
  <2>4. CASE \E i \in Ids : HandleUpdate(i)
    BY <1>1, <2>4, HandleUpdateIInv
  <2>9. CASE \E i \in Ids : LateAnswer(i)
    BY <1>1, <2>9, LateAnswerIInv
  <2>5. CASE Restart
    BY <1>1, <2>5, RestartIInv
  <2>6. ASSUME NEW i \in Ids, ReadNoMessage(i) PROVE IInv'
    BY <1>1, <2>6, RestartIInv DEF ReadNoMessage
  <2>7. CASE UNCHANGED vars
    BY <1>1, <2>7 DEF vars, IInv, TypeOK, Confirmed, Larger
  <2>8. QED
    BY <1>1, <2>1, <2>2, <2>3, <2>4, <2>5, <2>6, <2>7, <2>9 DEF Next
<1>2. QED
  BY <1>1, InitIInv, PTL DEF Spec

\* The updates received are among those numbered.
LEMMA ReceivedIds == ASSUME TypeOK PROVE 1 .. Len(inbox) \subseteq Ids
BY BotAssumption DEF TypeOK, Ids

\* The variables of the bot, the poller and Telegram have their types.
THEOREM TypeCorrect == Spec => []TypeOK
<1>1. IInv => TypeOK
  BY DEF IInv
<1>2. QED
  BY <1>1, Invariance, PTL

\* Telegram forgets only updates that a task was given (offset_ of the long
\* poller), whatever polls are lost and however often the process restarts.
THEOREM NothingForgotten == Spec => []ForgottenWasTaken
<1>1. IInv => ForgottenWasTaken
  BY ReceivedIds DEF IInv, ForgottenWasTaken
<1>2. QED
  BY <1>1, Invariance, PTL

\* An update is carried out once, and once more for every restart at most.
THEOREM NothingTakenTwice == Spec => []TakenOncePerStart
<1>1. IInv => TakenOncePerStart
  BY ReceivedIds DEF IInv, TakenOncePerStart
<1>2. QED
  BY <1>1, Invariance, PTL
-----------------------------------------------------------------------------
(* What chats were told.                                                   *)

On == {"Success", "Already subscribed"}
Off == {"Stopped", "Not subscribed"}

\* Where a task has not decided what to answer.
Undecided == {"none", "start", "insert", "update", "lost"}

NeverStops(c) == \A i \in From(c) : inbox[i].command # "stop_notifications"

\* A task was started by a poll; it has no answer before it has decided, and a
\* /send_notifications that has decided says yes.  Answers on their way are
\* those to updates that were received.
TaskInv(i) ==
    /\ task[i].pc # "none" => taken[i] > 0
    /\ task[i].pc \in Undecided => task[i].msg = NULL
    /\ i <= Len(inbox) /\ inbox[i].command = "send_notifications"
            => task[i].msg \in On \cup {NULL}
    /\ late[i] # {} => i <= Len(inbox)

\* A yes that a task has ready, that is on its way or that has arrived is true
\* for a chat that has never asked to stop.
YesIsTrue(c) ==
    (/\ NeverStops(c)
     /\ \/ \E i \in From(c) : task[i].msg \in On \/ late[i] \cap On # {}
        \/ told[c] \in On)
        => Subscribed(c)

\* A chat that waits has one update at most, its last, that is unfinished or
\* has an answer on its way.
OneAtATime(c) == \A i, j \in From(c) : i < j => task[i].pc = "done" /\ late[i] = {}

\* Nothing its updates have decided after update i is about its subscription.
LastWord(c, i) == \A j \in From(c) : i < j => task[j].msg \in {"Help", NULL}

\* The last of its tasks to decide about its subscription has set it.
LastWordHolds(c) ==
    \A i \in From(c) : LastWord(c, i) =>
        /\ task[i].msg \in On => Subscribed(c)
        /\ task[i].msg \in Off => ~Subscribed(c)

\* What it was told comes from one of its tasks, and of the later ones it has
\* heard nothing but help.
ToldByTask(c) ==
    told[c] = NULL \/ \E i \in From(c) :
        /\ told[c] = task[i].msg
        /\ \A j \in From(c) : i < j /\ j \in heard => task[j].msg = "Help"

\* Until the first restart.
Orderly ==
    /\ \A i \in Ids : task[i].pc # "lost"
    /\ \A i \in heard : task[i].pc \in {"answer", "done"}
    /\ \A i \in Ids : late[i] # {} =>
            task[i].pc \in {"answer", "done"} /\ late[i] \subseteq {task[i].msg}
    /\ \A c \in Patient : OneAtATime(c) /\ LastWordHolds(c) /\ ToldByTask(c)

\* The invariant behind AnswersHold and SubscriptionLasts.
ToldInv ==
    /\ IInv
    /\ \A i \in Ids : TaskInv(i)
    /\ \A c \in Chat : YesIsTrue(c)
    /\ restarts = 0 => Orderly

-----------------------------------------------------------------------------
(* What a step of a task does.                                             *)

\* Chat c is subscribed in table t.
Active(t, c) == c \in DOMAIN t /\ t[c]

\* Task i goes on, and no other.
OnlyTask(i) ==
    /\ UNCHANGED <<inbox, restarts, taken>>
    /\ task[i].pc \in {"start", "insert", "update", "answer"}
    /\ \A j \in Ids : j # i => task'[j] = task[j] /\ late'[j] = late[j]
    /\ \A c \in Chat : c # inbox[i].chat => (Active(contact', c) <=> Active(contact, c))

\* It decides what to answer, and sets the subscription of its chat to that.
Decides(i) ==
    /\ task[i].pc \in Undecided /\ task'[i].pc = "answer"
    /\ UNCHANGED <<late, heard, told>>
    /\ LET c == inbox[i].chat
       IN  \/ /\ task'[i].msg = "Help" /\ inbox[i].command = "help"
              /\ Active(contact', c) <=> Active(contact, c)
           \/ task'[i].msg \in On /\ Active(contact', c)
           \/ /\ task'[i].msg \in Off /\ inbox[i].command = "stop_notifications"
              /\ ~Active(contact', c)

\* It neither writes nor says anything.
Moves(i) ==
    /\ task'[i].msg = task[i].msg
    /\ task'[i].pc \in {"insert", "update", "done"}
    /\ task'[i].pc \in Undecided => task[i].pc \in Undecided
    /\ UNCHANGED <<contact, late, heard, told>>

\* Its answer arrives, is on its way, or is lost.
Speaks(i) ==
    /\ task[i].pc = "answer" /\ task'[i].pc \in {"answer", "done"}
    /\ task'[i].msg = task[i].msg
    /\ UNCHANGED contact
    /\ \/ Hear(i, task[i].msg) /\ UNCHANGED late
       \/ /\ UNCHANGED <<heard, told>>
          /\ late'[i] \in {late[i], late[i] \cup {task[i].msg}}

\* Say and an assignment to the program counter, seen from outside.
LEMMA TaskUpdate ==
    ASSUME IInv, NEW i \in Ids
    PROVE  /\ \A msg : Say(i, msg) =>
                task'[i].pc = "answer" /\ task'[i].msg = msg
                /\ \A j \in Ids : j # i => task'[j] = task[j]
           /\ \A pc : task' = [task EXCEPT ![i].pc = pc] =>
                task'[i].pc = pc /\ task'[i].msg = task[i].msg
                /\ \A j \in Ids : j # i => task'[j] = task[j]
           /\ \A pc, n : task' = [task EXCEPT ![i].tries = n, ![i].pc = pc] =>
                task'[i].pc = pc /\ task'[i].msg = task[i].msg
                /\ \A j \in Ids : j # i => task'[j] = task[j]
<1>1. task \in [Ids -> TaskState] /\ task[i] \in TaskState
  BY DEF IInv, TypeOK
<1>2. ASSUME NEW msg, Say(i, msg)
      PROVE  task'[i].pc = "answer" /\ task'[i].msg = msg
             /\ \A j \in Ids : j # i => task'[j] = task[j]
  BY <1>1, <1>2 DEF Say, TaskState
<1>3. ASSUME NEW pc, task' = [task EXCEPT ![i].pc = pc]
      PROVE  task'[i].pc = pc /\ task'[i].msg = task[i].msg
             /\ \A j \in Ids : j # i => task'[j] = task[j]
  BY <1>1, <1>3 DEF TaskState
<1>4. ASSUME NEW pc, NEW n, task' = [task EXCEPT ![i].tries = n, ![i].pc = pc]
      PROVE  task'[i].pc = pc /\ task'[i].msg = task[i].msg
             /\ \A j \in Ids : j # i => task'[j] = task[j]
  BY <1>1, <1>4 DEF TaskState
<1>. QED  BY <1>2, <1>3, <1>4

\* SetContact changes the subscription of one chat.
LEMMA ContactUpdate ==
    ASSUME NEW c, NEW active \in BOOLEAN, SetContact(c, active)
    PROVE  /\ Active(contact', c) <=> active
           /\ \A x \in Chat : x # c => (Active(contact', x) <=> Active(contact, x))
<1>1. contact' = [x \in DOMAIN contact \cup {c} |-> IF x = c THEN active ELSE contact[x]]
  BY DEF SetContact
<1>2. DOMAIN contact' = DOMAIN contact \cup {c} /\ contact'[c] = active
      /\ \A x \in DOMAIN contact : x # c => contact'[x] = contact[x]
  BY <1>1
<1>. QED  BY <1>2 DEF Active

\* What an action of HandleUpdate does is one of the three.
LEMMA TaskEffect ==
    ASSUME IInv, NEW i \in Ids, HandleUpdate(i)
    PROVE  OnlyTask(i) /\ (Decides(i) \/ Moves(i) \/ Speaks(i))
<1> DEFINE c == inbox[i].chat
           Rest == \A j \in Ids : j # i => task'[j] = task[j]
           Late == \A j \in Ids : j # i => late'[j] = late[j]
           Away == \A x \in Chat : x # c => (Active(contact', x) <=> Active(contact, x))
<1>1. /\ UNCHANGED <<inbox, restarts, taken>>
      /\ task[i].pc \in {"start", "insert", "update", "answer"}
  BY DEF HandleUpdate, HandleHelp, IgnoreUpdate, CheckContact, InsertContact,
         UpdateContact, HandleStopNotifications, AnswerSent, AnswerFails, TaskFails,
         At, Running
<1>l. Late
  BY DEF HandleUpdate, HandleHelp, IgnoreUpdate, CheckContact, InsertContact,
         UpdateContact, HandleStopNotifications, AnswerSent, AnswerFails, TaskFails,
         IInv, TypeOK
<1>2. ASSUME Rest, Away PROVE OnlyTask(i)
  BY <1>1, <1>2, <1>l DEF OnlyTask
<1>3. ASSUME UNCHANGED contact
      PROVE  Away /\ (Active(contact', c) <=> Active(contact, c))
  BY <1>3 DEF Active
<1> HIDE DEF Rest, Away, Late
<1>4. CASE HandleHelp(i)
  <2>1. /\ Say(i, "Help") /\ UNCHANGED <<contact, late, heard, told>>
        /\ task[i].pc = "start" /\ inbox[i].command = "help"
    BY <1>4 DEF HandleHelp, At
  <2>2. task'[i].pc = "answer" /\ task'[i].msg = "Help" /\ Rest
    BY <2>1, TaskUpdate DEF Rest
  <2>. QED  BY <1>2, <1>3, <2>1, <2>2 DEF Decides, Undecided
<1>5. CASE IgnoreUpdate(i) \/ CheckContact(i) \/ TaskFails(i)
  <2>1. PICK pc \in {"insert", "update", "done"} :
          /\ task' = [task EXCEPT ![i].pc = pc]
          /\ pc \in {"insert", "update"} => task[i].pc = "start"
    BY <1>5 DEF IgnoreUpdate, CheckContact, TaskFails, At
  <2>2. UNCHANGED <<contact, late, heard, told>>
    BY <1>5 DEF IgnoreUpdate, CheckContact, TaskFails
  <2>3. task'[i].pc = pc /\ task'[i].msg = task[i].msg /\ Rest
    BY <2>1, TaskUpdate DEF Rest
  <2>. QED  BY <1>2, <1>3, <2>1, <2>2, <2>3 DEF Moves, Undecided
<1>6. CASE InsertContact(i)
  <2>1. UNCHANGED <<late, heard, told>> /\ task[i].pc = "insert"
    BY <1>6 DEF InsertContact
  <2>2. CASE SetContact(c, TRUE) /\ Say(i, "Success")
    <3>1. task'[i].pc = "answer" /\ task'[i].msg \in On /\ Rest
      BY <2>2, TaskUpdate DEF Rest, On
    <3>2. Active(contact', c) /\ Away
      BY <2>2, ContactUpdate DEF Away
    <3>. QED  BY <1>2, <2>1, <3>1, <3>2 DEF Decides, Undecided
  <2>3. CASE task' = [task EXCEPT ![i].pc = "done"] /\ UNCHANGED contact
    <3>1. task'[i].pc = "done" /\ task'[i].msg = task[i].msg /\ Rest
      BY <2>3, TaskUpdate DEF Rest
    <3>. QED  BY <1>2, <1>3, <2>1, <2>3, <3>1 DEF Moves, Undecided
  <2>. QED  BY <1>6, <2>2, <2>3 DEF InsertContact
<1>7. CASE UpdateContact(i)
  <2>1. UNCHANGED <<late, heard, told>> /\ task[i].pc = "update"
    BY <1>7 DEF UpdateContact
  <2>2. PICK msg \in On : Say(i, msg)
    BY <1>7 DEF UpdateContact, On
  <2>3. task'[i].pc = "answer" /\ task'[i].msg \in On /\ Rest
    BY <2>2, TaskUpdate DEF Rest
  <2>4. Active(contact', c) /\ Away
    <3>1. CASE SetContact(c, TRUE)
      BY <3>1, ContactUpdate DEF Away
    <3>2. CASE Active(contact, c) /\ UNCHANGED contact
      BY <1>3, <3>2
    <3>. QED  BY <1>7, <3>1, <3>2 DEF UpdateContact, Subscribed, Active
  <2>. QED  BY <1>2, <2>1, <2>3, <2>4 DEF Decides, Undecided
<1>8. CASE HandleStopNotifications(i)
  <2>1. /\ UNCHANGED <<late, heard, told>> /\ task[i].pc = "start"
        /\ inbox[i].command = "stop_notifications"
    BY <1>8 DEF HandleStopNotifications, At
  <2>2. PICK msg \in Off : Say(i, msg)
    BY <1>8 DEF HandleStopNotifications, Off
  <2>3. task'[i].pc = "answer" /\ task'[i].msg \in Off /\ Rest
    BY <2>2, TaskUpdate DEF Rest
  <2>4. ~Active(contact', c) /\ Away
    <3>1. CASE SetContact(c, FALSE)
      BY <3>1, ContactUpdate DEF Away
    <3>2. CASE ~Active(contact, c) /\ UNCHANGED contact
      BY <1>3, <3>2
    <3>. QED  BY <1>8, <3>1, <3>2 DEF HandleStopNotifications, Subscribed, Active
  <2>. QED  BY <1>2, <2>1, <2>3, <2>4 DEF Decides, Undecided
<1>9. CASE AnswerSent(i) \/ AnswerFails(i)
  <2>1. /\ task[i].pc = "answer" /\ UNCHANGED contact
        /\ \/ Hear(i, task[i].msg) /\ UNCHANGED late
           \/ /\ UNCHANGED <<heard, told>>
              /\ late'[i] \in {late[i], late[i] \cup {task[i].msg}}
    BY <1>9 DEF AnswerSent, AnswerFails, IInv, TypeOK
  <2>2. task'[i].pc \in {"answer", "done"} /\ task'[i].msg = task[i].msg /\ Rest
    BY <1>9, TaskUpdate DEF AnswerSent, AnswerFails, Rest
  <2>. QED  BY <1>2, <1>3, <2>1, <2>2 DEF Speaks
<1>. QED  BY <1>4, <1>5, <1>6, <1>7, <1>8, <1>9 DEF HandleUpdate

-----------------------------------------------------------------------------
(* Steps of tasks.                                                         *)

\* The numbers of updates, and the texts.
LEMMA Facts ==
    ASSUME TypeOK
    PROVE  /\ Len(inbox) \in Nat /\ 1 .. Len(inbox) \subseteq Ids
           /\ \A c : From(c) \subseteq Ids
           /\ \A c, i : i \in From(c) => i <= Len(inbox) /\ inbox[i].chat = c
           /\ \A i \in Ids : i <= Len(inbox) => i \in From(inbox[i].chat)
           /\ NULL \notin Messages /\ On \subseteq Messages /\ Off \subseteq Messages
<1>1. Len(inbox) \in Nat /\ Len(inbox) <= MaxUpdates /\ MaxUpdates \in Nat
  BY BotAssumption DEF TypeOK
<1>2. /\ 1 .. Len(inbox) \subseteq Ids
      /\ \A i \in Ids : i <= Len(inbox) => i \in 1 .. Len(inbox)
      /\ \A i \in 1 .. Len(inbox) : i <= Len(inbox)
  BY <1>1 DEF Ids
<1>3. \A c, i : i \in From(c) <=> i \in 1 .. Len(inbox) /\ inbox[i].chat = c
  BY DEF From
<1>4. NULL \notin Messages /\ On \subseteq Messages /\ Off \subseteq Messages
  BY BotAssumption DEF On, Off, Messages
<1>. QED  BY <1>1, <1>2, <1>3, <1>4

\* Each task is still consistent after a step of one of them.
LEMMA TaskStepKeepsTasks ==
    ASSUME ToldInv, NEW i \in Ids, OnlyTask(i), Decides(i) \/ Moves(i) \/ Speaks(i)
    PROVE  \A j \in Ids : TaskInv(j)'
<1> SUFFICES ASSUME NEW j \in Ids PROVE TaskInv(j)'
  OBVIOUS
<1>1. TaskInv(i) /\ TaskInv(j) /\ UNCHANGED <<inbox, taken>>
  BY DEF ToldInv, OnlyTask
<1>2. CASE j # i
  BY <1>1, <1>2 DEF OnlyTask, TaskInv
<1>3. CASE j = i
  <2>1. /\ task'[i].pc # "none" => taken'[i] > 0
        /\ late'[i] # {} => i <= Len(inbox')
    BY <1>1 DEF TaskInv, OnlyTask, ToldInv, IInv, TypeOK
  <2>2. CASE Decides(i)
    <3>1. inbox[i].command = "send_notifications" => task'[i].msg \in On
      BY <2>2 DEF Decides
    <3>2. task'[i].pc \notin Undecided
      BY <2>2 DEF Decides, Undecided
    <3>. QED  BY <1>1, <1>3, <2>1, <3>1, <3>2 DEF TaskInv
  <2>3. CASE Moves(i)
    BY <1>1, <1>3, <2>1, <2>3 DEF TaskInv, Moves
  <2>4. CASE Speaks(i)
    <3>1. task'[i].pc \notin Undecided /\ task'[i].msg = task[i].msg
      BY <2>4 DEF Speaks, Undecided
    <3>. QED  BY <1>1, <1>3, <2>1, <3>1 DEF TaskInv
  <2>. QED  BY <2>2, <2>3, <2>4
<1>. QED  BY <1>2, <1>3

\* No step of a task makes a yes untrue.
LEMMA TaskStepKeepsYes ==
    ASSUME ToldInv, NEW i \in Ids, OnlyTask(i), Decides(i) \/ Moves(i) \/ Speaks(i),
           NEW c \in Chat
    PROVE  YesIsTrue(c)'
<1>1. /\ UNCHANGED inbox /\ From(c)' = From(c) /\ (NeverStops(c)' <=> NeverStops(c))
      /\ \A j \in Ids : j # i => task'[j] = task[j] /\ late'[j] = late[j]
  BY DEF OnlyTask, From, NeverStops
<1>2. From(c) \subseteq Ids /\ i <= Len(inbox) /\ i \in From(inbox[i].chat)
      /\ (inbox[i].chat # c => i \notin From(c))
  <2>1. task[i].pc # "none" /\ TypeOK
    BY DEF OnlyTask, ToldInv, IInv
  <2>2. i <= Len(inbox)
    BY <2>1 DEF TypeOK
  <2>. QED  BY <2>1, <2>2, Facts
<1> DEFINE Yes(j) == task[j].msg \in On \/ late[j] \cap On # {}
<1> SUFFICES ASSUME NeverStops(c), (\E j \in From(c) : Yes(j)') \/ told'[c] \in On
             PROVE  Active(contact', c)
  BY <1>1 DEF YesIsTrue, Subscribed, Active
<1>3. (\E j \in From(c) : Yes(j)) \/ told[c] \in On => Active(contact, c)
  BY DEF ToldInv, YesIsTrue, Subscribed, Active
<1>8. \A j \in Ids : j # i => (Yes(j)' <=> Yes(j))
  BY <1>1
<1>4. inbox[i].chat # c => (Active(contact', c) <=> Active(contact, c))
  BY DEF OnlyTask
<1>9. Moves(i) \/ Speaks(i) => (Yes(i)' => Yes(i))
  BY DEF Moves, Speaks
<1>10. Decides(i) => (Yes(i)' => Yes(i) \/ task'[i].msg \in On)
  BY DEF Decides
<1> HIDE DEF Yes
<1>5. CASE Decides(i)
  <2>1. told' = told
    BY <1>5 DEF Decides
  <2>2. CASE inbox[i].chat # c
    BY <1>2, <1>3, <1>4, <1>8, <2>1, <2>2
  <2>3. CASE inbox[i].chat = c
    <3>1. inbox[i].command # "stop_notifications"
      BY <1>2, <2>3 DEF NeverStops
    <3>2. CASE task'[i].msg = "Help" /\ (Active(contact', c) <=> Active(contact, c))
      <4>1. task'[i].msg \notin On
        BY <3>2 DEF On
      <4>. QED  BY <1>2, <1>3, <1>5, <1>8, <1>10, <2>1, <3>2, <4>1
    <3>3. \/ /\ task'[i].msg = "Help"
             /\ Active(contact', inbox[i].chat) <=> Active(contact, inbox[i].chat)
          \/ Active(contact', inbox[i].chat)
      BY <1>5, <3>1 DEF Decides
    <3>. QED  BY <2>3, <3>2, <3>3
  <2>. QED  BY <2>2, <2>3
<1>6. CASE Moves(i)
  <2>1. contact' = contact /\ told' = told
    BY <1>6 DEF Moves
  <2>. QED  BY <1>2, <1>3, <1>6, <1>8, <1>9, <2>1
<1>7. CASE Speaks(i)
  <2>1. contact' = contact
    BY <1>7 DEF Speaks
  <2>2. told'[c] = told[c] \/ (told'[c] = task[i].msg /\ inbox[i].chat = c)
    <3>1. told \in [Chat -> Messages \cup {NULL}]
      BY DEF ToldInv, IInv, TypeOK
    <3>. QED  BY <1>7, <3>1 DEF Speaks, Hear
  <2>3. task[i].msg \in On => Yes(i)
    BY DEF Yes
  <2>. QED  BY <1>2, <1>3, <1>7, <1>8, <1>9, <2>1, <2>2, <2>3
<1>. QED  BY <1>5, <1>6, <1>7

\* The only unfinished task of a waiting chat is its last, so what it decides
\* and what it says come last.
LEMMA TaskStepKeepsOrder ==
    ASSUME ToldInv, NEW i \in Ids, OnlyTask(i), Decides(i) \/ Moves(i) \/ Speaks(i),
           restarts = 0
    PROVE  Orderly'
<1> DEFINE d == inbox[i].chat
<1>0. Orderly /\ TypeOK /\ \A j \in Ids : TaskInv(j)
  BY DEF ToldInv, IInv
<1>1. /\ UNCHANGED inbox /\ \A c : From(c)' = From(c)
      /\ \A j \in Ids : j # i => task'[j] = task[j] /\ late'[j] = late[j]
      /\ task[i].pc \notin {"lost", "done", "none"} /\ task'[i].pc # "lost"
  BY DEF OnlyTask, From, Decides, Moves, Speaks
<1>2. i <= Len(inbox) /\ i \in From(d) /\ \A c : From(c) \subseteq Ids
      /\ \A x : x # d => i \notin From(x)
  <2>1. i <= Len(inbox)
    BY <1>0, <1>1 DEF TypeOK
  <2>. QED  BY <1>0, <2>1, Facts
<1>3. \A j \in Ids : task'[j].pc # "lost"
  BY <1>0, <1>1 DEF Orderly
<1>4. /\ heard' \subseteq heard \cup {i}
      /\ i \in heard' => task'[i].pc \in {"answer", "done"}
      /\ i \in heard => task[i].pc = "answer"
      /\ heard \subseteq Ids
  <2>1. i \in heard => task[i].pc = "answer"
    BY <1>0, <1>1 DEF Orderly
  <2>2. CASE Decides(i) \/ Moves(i)
    <3>1. heard' = heard
      BY <2>2 DEF Decides, Moves
    <3>2. i \in heard => task'[i].pc \in {"answer", "done"}
      BY <2>1, <2>2 DEF Decides, Moves, Undecided
    <3>. QED  BY <1>0, <2>1, <3>1, <3>2 DEF TypeOK
  <2>3. CASE Speaks(i)
    BY <1>0, <2>1, <2>3 DEF Speaks, Hear, TypeOK
  <2>. QED  BY <2>2, <2>3
<1>5. \A j \in heard' : task'[j].pc \in {"answer", "done"}
  BY <1>0, <1>1, <1>4 DEF Orderly
<1>7. ASSUME NEW j \in Ids, late'[j] # {}
      PROVE  task'[j].pc \in {"answer", "done"} /\ late'[j] \subseteq {task'[j].msg}
  <2>1. late[j] # {} => task[j].pc \in {"answer", "done"} /\ late[j] \subseteq {task[j].msg}
    BY <1>0 DEF Orderly
  <2>2. CASE j # i
    BY <1>1, <1>7, <2>1, <2>2
  <2>3. CASE j = i /\ (Decides(i) \/ Moves(i))
    BY <1>7, <2>1, <2>3 DEF Decides, Moves, Undecided
  <2>4. CASE j = i /\ Speaks(i)
    BY <1>7, <2>1, <2>4 DEF Speaks
  <2>. QED  BY <2>2, <2>3, <2>4
<1>6. ASSUME NEW c \in Patient PROVE OneAtATime(c)' /\ LastWordHolds(c)' /\ ToldByTask(c)'
  <2>0. OneAtATime(c) /\ LastWordHolds(c) /\ ToldByTask(c) /\ c \in Chat
    BY <1>0, BotAssumption DEF Orderly
  <2>1. OneAtATime(c)'
    BY <1>1, <1>2, <2>0 DEF OneAtATime
  <2>2. ASSUME c = d, NEW j \in From(c) PROVE ~(i < j)
    BY <1>1, <1>2, <2>0, <2>2 DEF OneAtATime
  <2>3. LastWordHolds(c)'
    <3> SUFFICES ASSUME NEW k \in From(c), LastWord(c, k)'
                 PROVE  /\ task'[k].msg \in On => Active(contact', c)
                        /\ task'[k].msg \in Off => ~Active(contact', c)
      BY <1>1 DEF LastWordHolds, Subscribed, Active
    <3>1. ASSUME LastWord(c, k)
          PROVE  /\ task[k].msg \in On => Active(contact, c)
                 /\ task[k].msg \in Off => ~Active(contact, c)
      BY <2>0, <3>1 DEF LastWordHolds, Subscribed, Active
    <3>2. CASE c # d
      <4>1. task'[k] = task[k] /\ LastWord(c, k)
        BY <1>1, <1>2, <3>2 DEF LastWord
      <4>2. Active(contact', c) <=> Active(contact, c)
        BY <2>0, <3>2 DEF OnlyTask
      <4>. QED  BY <3>1, <4>1, <4>2
    <3>3. CASE c = d /\ (Moves(i) \/ Speaks(i))
      <4>1. task'[i].msg = task[i].msg /\ UNCHANGED contact
        BY <3>3 DEF Moves, Speaks
      <4>2. \A j \in Ids : task'[j].msg = task[j].msg
        BY <1>1, <4>1
      <4>3. LastWord(c, k) /\ task'[k].msg = task[k].msg
        BY <1>1, <1>2, <4>2 DEF LastWord
      <4>. QED  BY <3>1, <4>1, <4>3
    <3>4. CASE c = d /\ Decides(i)
      <4>1. CASE k = i
        <5>1. On \cap Off = {} /\ "Help" \notin On \cup Off
          BY DEF On, Off
        <5>. QED  BY <3>4, <4>1, <5>1 DEF Decides
      <4>2. CASE k # i
        <5>1. task'[i].msg \in {"Help", NULL}
          <6>1. k < i
            BY <1>2, <2>2, <3>4, <4>2 DEF Ids
          <6>. QED  BY <1>1, <1>2, <3>4, <6>1 DEF LastWord
        <5>2. Active(contact', c) <=> Active(contact, c)
          <6>1. task'[i].msg \notin On \cup Off
            BY <1>0, <5>1, Facts DEF On, Off, Messages
          <6>. QED  BY <3>4, <6>1 DEF Decides
        <5>3. task[i].msg = NULL
          BY <1>0, <3>4 DEF Decides, TaskInv
        <5>4. LastWord(c, k) /\ task'[k] = task[k]
          BY <1>1, <1>2, <4>2, <5>3 DEF LastWord
        <5>. QED  BY <3>1, <5>2, <5>4
      <4>. QED  BY <4>1, <4>2
    <3>. QED  BY <3>2, <3>3, <3>4
  <2>4. ToldByTask(c)'
    <3>0. told \in [Chat -> Messages \cup {NULL}]
      BY <1>0 DEF TypeOK
    <3>1. CASE told'[c] = told[c] /\ (c = d => Decides(i) \/ UNCHANGED heard \/ task[i].msg = "Help")
      <4>1. CASE told[c] = NULL
        BY <3>1, <4>1 DEF ToldByTask
      <4>2. CASE told[c] # NULL
        <5>1. PICK k \in From(c) : /\ told[c] = task[k].msg
                                   /\ \A j \in From(c) : k < j /\ j \in heard
                                          => task[j].msg = "Help"
          BY <2>0, <4>2 DEF ToldByTask
        <5>2. task'[k].msg = task[k].msg
          <6>1. CASE k = i /\ Decides(i)
            BY <1>0, <4>2, <5>1, <6>1 DEF Decides, TaskInv
          <6>. QED  BY <1>1, <1>2, <6>1 DEF Moves, Speaks
        <5>3. ASSUME NEW j \in From(c), k < j, j \in heard' PROVE task'[j].msg = "Help"
          <6>1. CASE j # i
            BY <1>1, <1>2, <1>4, <5>1, <5>3, <6>1
          <6>2. CASE j = i /\ i \in heard
            <7>1. task[i].pc = "answer" /\ task[i].msg = "Help"
              BY <1>4, <5>1, <5>3, <6>2
            <7>. QED  BY <6>2, <7>1 DEF Decides, Moves, Speaks, Undecided
          <6>3. CASE j = i /\ i \notin heard
            <7>1. heard' # heard /\ c = d
              BY <1>2, <5>3, <6>3
            <7>. QED  BY <3>1, <6>3, <7>1 DEF Decides, Moves, Speaks
          <6>. QED  BY <6>1, <6>2, <6>3
        <5>. QED  BY <1>1, <3>1, <5>1, <5>2, <5>3 DEF ToldByTask
      <4>. QED  BY <4>1, <4>2
    <3>2. CASE c = d /\ Speaks(i) /\ Hear(i, task[i].msg) /\ task[i].msg # "Help"
      <4>1. told'[c] = task[i].msg /\ task'[i].msg = task[i].msg
        BY <2>0, <3>0, <3>2 DEF Speaks, Hear
      <4>2. \A j \in From(c) : ~(i < j)
        BY <2>2, <3>2
      <4>. QED  BY <1>1, <1>2, <3>2, <4>1, <4>2 DEF ToldByTask
    <3>3. CASE c # d
      <4>1. told'[c] = told[c]
        BY <2>0, <3>0, <3>3 DEF Decides, Moves, Speaks, Hear
      <4>. QED  BY <3>1, <3>3, <4>1
    <3>4. CASE c = d /\ ~(Speaks(i) /\ Hear(i, task[i].msg) /\ task[i].msg # "Help")
      <4>1. told'[c] = told[c]
        BY <3>4 DEF Decides, Moves, Speaks, Hear
      <4>2. Decides(i) \/ UNCHANGED heard \/ task[i].msg = "Help"
        BY <3>4 DEF Moves, Speaks
      <4>. QED  BY <3>1, <4>1, <4>2
    <3>. QED  BY <3>2, <3>3, <3>4
  <2>. QED  BY <2>1, <2>3, <2>4
<1>. QED  BY <1>3, <1>5, <1>6, <1>7 DEF Orderly

\* A step of a task keeps all of it.
LEMMA HandleUpdateToldInv ==
    ASSUME ToldInv, NEW i \in Ids, HandleUpdate(i)
    PROVE  ToldInv'
<1>1. IInv /\ IInv'
  BY HandleUpdateIInv DEF ToldInv
<1>2. OnlyTask(i) /\ (Decides(i) \/ Moves(i) \/ Speaks(i))
  BY <1>1, TaskEffect
<1>3. \A j \in Ids : TaskInv(j)'
  BY <1>2, TaskStepKeepsTasks
<1>4. \A c \in Chat : YesIsTrue(c)'
  BY <1>2, TaskStepKeepsYes
<1>5. restarts' = restarts /\ (restarts = 0 => Orderly')
  BY <1>2, TaskStepKeepsOrder DEF OnlyTask
<1>. QED  BY <1>1, <1>3, <1>4, <1>5 DEF ToldInv

-----------------------------------------------------------------------------
(* Answers that come late.                                                 *)

\* One answer of update i, and of no other, arrives.
LEMMA LateEffect ==
    ASSUME ToldInv, NEW i \in Ids, LateAnswer(i)
    PROVE  /\ UNCHANGED <<contact, inbox, task, restarts, taken>>
           /\ \A c : From(c)' = From(c)
           /\ i <= Len(inbox) /\ i \in From(inbox[i].chat)
           /\ \A c : c # inbox[i].chat => i \notin From(c)
           /\ \A j \in Ids : late'[j] \subseteq late[j]
           /\ \E msg \in late[i] : Hear(i, msg)
<1>1. TypeOK /\ late[i] # {} /\ TaskInv(i)
  BY DEF ToldInv, IInv, LateAnswer
<1>2. i <= Len(inbox)
  BY <1>1 DEF TaskInv
<1>3. UNCHANGED <<contact, inbox, task, restarts, taken>>
  BY DEF LateAnswer
<1>4. \A c : From(c)' = From(c)
  BY <1>3 DEF From
<1>5. \A j \in Ids : late'[j] \subseteq late[j]
  BY <1>1 DEF LateAnswer, TypeOK
<1>. QED  BY <1>1, <1>2, <1>3, <1>4, <1>5, Facts DEF LateAnswer

\* For a chat that waits it is the answer to its last update.
LEMMA LateAnswerToldInv ==
    ASSUME ToldInv, NEW i \in Ids, LateAnswer(i)
    PROVE  ToldInv'
<1> DEFINE d == inbox[i].chat
<1>0. /\ IInv' /\ TypeOK /\ \A j \in Ids : TaskInv(j)
      /\ \A c : From(c) \subseteq Ids
  BY LateAnswerIInv, Facts DEF ToldInv, IInv
<1>1. /\ UNCHANGED <<contact, inbox, task, restarts, taken>>
      /\ \A c : From(c)' = From(c)
      /\ i <= Len(inbox) /\ i \in From(d) /\ \A c : c # d => i \notin From(c)
      /\ \A j \in Ids : late'[j] \subseteq late[j]
  BY LateEffect
<1>2. PICK msg \in late[i] : Hear(i, msg)
  BY LateEffect
<1> HIDE DEF d
<1>3. /\ heard' = heard \cup {i}
      /\ \A c \in Chat : \/ told'[c] = told[c]
                         \/ c = d /\ told'[c] = msg /\ msg # "Help"
      /\ msg # "Help" /\ d \in Chat => told'[d] = msg
  BY <1>0, <1>2 DEF Hear, TypeOK, d
<1>4. \A j \in Ids : TaskInv(j)'
  BY <1>0, <1>1 DEF TaskInv
<1>5. ASSUME NEW c \in Chat PROVE YesIsTrue(c)'
  <2>1. YesIsTrue(c) /\ (NeverStops(c)' <=> NeverStops(c))
    BY <1>1 DEF ToldInv, NeverStops
  <2>2. Subscribed(c)' <=> Subscribed(c)
    BY <1>1 DEF Subscribed
  <2>3. ASSUME NEW j \in From(c), late'[j] \cap On # {} PROVE late[j] \cap On # {}
    BY <1>0, <1>1, <2>3
  <2>4. told'[c] \in On => told[c] \in On \/ (i \in From(c) /\ late[i] \cap On # {})
    <3>1. CASE told'[c] = told[c]
      BY <3>1
    <3>2. CASE c = d /\ told'[c] = msg
      BY <1>1, <1>2, <3>2
    <3>. QED  BY <1>3, <3>1, <3>2
  <2>. QED  BY <1>1, <2>1, <2>2, <2>3, <2>4 DEF YesIsTrue
<1>6. ASSUME restarts' = 0 PROVE Orderly'
  <2>1. Orderly
    BY <1>1, <1>6 DEF ToldInv
  <2>2. task[i].pc \in {"answer", "done"} /\ msg = task[i].msg
    BY <1>2, <2>1 DEF Orderly
  <2>3. /\ \A j \in Ids : task'[j].pc # "lost"
        /\ \A j \in heard' : task'[j].pc \in {"answer", "done"}
        /\ \A j \in Ids : late'[j] # {} =>
                task'[j].pc \in {"answer", "done"} /\ late'[j] \subseteq {task'[j].msg}
    BY <1>1, <1>3, <2>1, <2>2 DEF Orderly
  <2>4. ASSUME NEW c \in Patient PROVE OneAtATime(c)' /\ LastWordHolds(c)' /\ ToldByTask(c)'
    <3>1. OneAtATime(c) /\ LastWordHolds(c) /\ ToldByTask(c) /\ c \in Chat
      BY <2>1, BotAssumption DEF Orderly
    <3>2. OneAtATime(c)'
      BY <1>0, <1>1, <3>1 DEF OneAtATime
    <3>3. LastWordHolds(c)'
      BY <1>1, <3>1 DEF LastWordHolds, LastWord, Subscribed
    <3>4. ToldByTask(c)'
      <4>1. CASE c # d \/ msg = "Help"
        <5>1. told'[c] = told[c]
          BY <1>3, <3>1, <4>1
        <5>2. ASSUME NEW j \in From(c), j \in heard', j \notin heard
              PROVE  task[j].msg = "Help"
          BY <1>1, <1>3, <2>2, <4>1, <5>2
        <5>. QED  BY <1>1, <3>1, <5>1, <5>2 DEF ToldByTask
      <4>2. CASE c = d /\ msg # "Help"
        <5>1. told'[c] = task[i].msg
          BY <1>3, <2>2, <3>1, <4>2
        <5>2. \A j \in From(c) : ~(i < j)
          BY <1>1, <1>2, <3>1, <4>2 DEF OneAtATime
        <5>. QED  BY <1>1, <4>2, <5>1, <5>2 DEF ToldByTask
      <4>. QED  BY <4>1, <4>2
    <3>. QED  BY <3>2, <3>3, <3>4
  <2>. QED  BY <2>3, <2>4 DEF Orderly
<1>. QED  BY <1>0, <1>4, <1>5, <1>6 DEF ToldInv

-----------------------------------------------------------------------------
(* The other steps.                                                        *)

\* A step that starts tasks or loses them, and changes nothing the chats see.
\* Before the first restart it starts only what has never been started.
LEMMA ResetKeeps ==
    ASSUME ToldInv, IInv', UNCHANGED <<contact, inbox, late, heard, told>>,
           \A j \in Ids : \/ task'[j] = task[j] /\ taken'[j] = taken[j]
                          \/ /\ task'[j].pc # "none" /\ task'[j].msg = NULL
                             /\ taken'[j] > 0,
           restarts' = 0 =>
              /\ restarts = 0
              /\ \A j \in Ids : \/ task'[j] = task[j]
                                \/ /\ task[j].pc = "none" /\ task[j].msg = NULL
                                   /\ task'[j].pc = "start" /\ task'[j].msg = NULL
    PROVE  ToldInv'
<1>1. /\ UNCHANGED inbox
      /\ \A c : From(c)' = From(c) /\ (NeverStops(c)' <=> NeverStops(c))
      /\ \A c : Subscribed(c)' <=> Subscribed(c)
  BY DEF From, NeverStops, Subscribed
<1>2. TypeOK /\ \A c : From(c) \subseteq Ids
  BY Facts DEF ToldInv, IInv
<1>3. NULL \notin On \cup Off
  BY <1>2, Facts
<1>4. ASSUME NEW j \in Ids PROVE TaskInv(j)'
  <2>1. TaskInv(j)
    BY DEF ToldInv
  <2>2. CASE task'[j] = task[j] /\ taken'[j] = taken[j]
    BY <1>1, <2>1, <2>2 DEF TaskInv
  <2>3. CASE task'[j].pc # "none" /\ task'[j].msg = NULL /\ taken'[j] > 0
    BY <1>1, <2>1, <2>3 DEF TaskInv
  <2>. QED  BY <2>2, <2>3
<1>5. ASSUME NEW c \in Chat PROVE YesIsTrue(c)'
  <2>1. YesIsTrue(c)
    BY DEF ToldInv
  <2>2. \A j \in Ids : task'[j].msg \in On => task[j].msg \in On
    BY <1>3
  <2>. QED  BY <1>1, <1>2, <2>1, <2>2 DEF YesIsTrue
<1>6. ASSUME restarts' = 0 PROVE Orderly'
  <2>1. Orderly /\ \A j \in Ids : \/ task'[j] = task[j]
                                  \/ /\ task[j].pc = "none" /\ task[j].msg = NULL
                                     /\ task'[j].pc = "start" /\ task'[j].msg = NULL
    BY <1>6 DEF ToldInv
  <2>2. \A j \in Ids : task'[j].msg = task[j].msg /\ task'[j].pc # "lost"
    BY <2>1 DEF Orderly
  <2>3. \A j \in heard' : task'[j].pc \in {"answer", "done"}
    BY <1>2, <2>1 DEF Orderly, TypeOK
  <2>5. ASSUME NEW j \in Ids, late'[j] # {}
        PROVE  task'[j].pc \in {"answer", "done"} /\ late'[j] \subseteq {task'[j].msg}
    BY <2>1, <2>5 DEF Orderly
  <2>4. ASSUME NEW c \in Patient PROVE OneAtATime(c)' /\ LastWordHolds(c)' /\ ToldByTask(c)'
    <3>1. OneAtATime(c) /\ LastWordHolds(c) /\ ToldByTask(c)
      BY <2>1 DEF Orderly
    <3>2. OneAtATime(c)'
      BY <1>1, <1>2, <2>1, <3>1 DEF OneAtATime
    <3>3. LastWordHolds(c)'
      <4>1. \A k \in From(c) : LastWord(c, k)' <=> LastWord(c, k)
        BY <1>1, <1>2, <2>2 DEF LastWord
      <4>. QED  BY <1>1, <1>2, <2>2, <3>1, <4>1 DEF LastWordHolds
    <3>4. ToldByTask(c)'
      BY <1>1, <1>2, <2>2, <3>1 DEF ToldByTask
    <3>. QED  BY <3>2, <3>3, <3>4
  <2>. QED  BY <2>2, <2>3, <2>4, <2>5 DEF Orderly
<1>. QED  BY <1>4, <1>5, <1>6 DEF ToldInv

\* A poll gives updates to tasks, and before the first restart only updates
\* that have had none.
LEMMA FetchToldInv ==
    ASSUME ToldInv, FetchAndHandleUpdates
    PROVE  ToldInv'
<1>1. IInv /\ IInv' /\ \A j \in Ids : TaskInv(j)
  BY FetchIInv DEF ToldInv
<1>2. UNCHANGED <<contact, inbox, late, heard, told, restarts>>
  BY DEF FetchAndHandleUpdates
<1>3. PICK last \in Confirmed .. Len(inbox) : StartTasks(Confirmed, last)
  BY DEF FetchAndHandleUpdates
<1>4. /\ taken \in [Ids -> Nat] /\ restarts \in Nat
      /\ \A j \in Ids : j >= Confirmed => taken[j] <= restarts
      /\ Confirmed \in Nat /\ Len(inbox) \in Nat
  BY <1>1 DEF IInv, TypeOK, Confirmed, Larger
<1>5. \A j \in Ids : IF j \in Confirmed .. last
                     THEN /\ task'[j] = [NoTask EXCEPT !.pc = "start"]
                          /\ taken'[j] = taken[j] + 1
                     ELSE task'[j] = task[j] /\ taken'[j] = taken[j]
  BY <1>3 DEF StartTasks
<1>6. \A j \in Ids : \/ task'[j] = task[j] /\ taken'[j] = taken[j]
                     \/ /\ task'[j].pc = "start" /\ task'[j].msg = NULL
                        /\ taken'[j] > 0 /\ taken[j] <= restarts
  BY <1>4, <1>5 DEF NoTask
<1>7. ASSUME restarts' = 0
      PROVE  /\ restarts = 0
             /\ \A j \in Ids : \/ task'[j] = task[j]
                               \/ /\ task[j].pc = "none" /\ task[j].msg = NULL
                                  /\ task'[j].pc = "start" /\ task'[j].msg = NULL
  <2>1. restarts = 0
    BY <1>2, <1>7
  <2>2. \A j \in Ids : taken[j] <= restarts => task[j].pc = "none" /\ task[j].msg = NULL
    BY <1>1, <1>4, <2>1 DEF TaskInv, Undecided
  <2>. QED  BY <1>6, <2>1, <2>2
<1>. QED  BY <1>1, <1>2, <1>6, <1>7, ResetKeeps

\* A restart loses what runs, and ends the time in which answers are in order.
LEMMA RestartToldInv ==
    ASSUME ToldInv, Restart
    PROVE  ToldInv'
<1>1. IInv /\ IInv' /\ \A j \in Ids : TaskInv(j)
  BY RestartIInv DEF ToldInv
<1>2. UNCHANGED <<contact, inbox, late, heard, told, taken>> /\ restarts' # 0
  BY <1>1 DEF Restart, IInv, TypeOK
<1>3. \A j \in Ids : task'[j] = IF Running(j) THEN [NoTask EXCEPT !.pc = "lost"] ELSE task[j]
  BY DEF Restart
<1>4. \A j \in Ids : \/ task'[j] = task[j] /\ taken'[j] = taken[j]
                     \/ /\ task'[j].pc # "none" /\ task'[j].msg = NULL
                        /\ taken'[j] > 0
  BY <1>1, <1>2, <1>3 DEF Running, NoTask, TaskInv
<1>. QED  BY <1>1, <1>2, <1>4, ResetKeeps

\* A new message: nobody has handled it, and a chat that waits has nothing
\* left to handle when it writes.
LEMMA WriteToldInv ==
    ASSUME ToldInv, Write
    PROVE  ToldInv'
<1> DEFINE n == Len(inbox) + 1
<1>0. IInv /\ IInv' /\ TypeOK /\ \A j \in Ids : TaskInv(j)
  BY WriteIInv DEF ToldInv, IInv
<1>1. UNCHANGED <<contact, kept, offset, task, late, restarts, taken, heard, told>>
  BY DEF Write
<1>2. PICK d \in Chat, command \in Commands :
        /\ d \in Patient => \A i \in From(d) : task[i].pc = "done" /\ late[i] = {}
        /\ inbox' = Append(inbox, [chat |-> d, command |-> command])
  BY DEF Write
<1>3. Len(inbox) \in Nat /\ n \in Ids /\ inbox \in Seq(Update)
  BY <1>0, BotAssumption DEF Write, TypeOK, Ids
<1>4. /\ Len(inbox') = n /\ \A j \in 1 .. Len(inbox) : inbox'[j] = inbox[j]
      /\ inbox'[n].chat = d
  BY <1>2, <1>3
<1>5. /\ \A c : From(c) \subseteq 1 .. Len(inbox)
      /\ \A c : From(c)' = IF c = d THEN From(c) \cup {n} ELSE From(c)
  BY <1>3, <1>4 DEF From
<1>6. /\ task[n].pc = "none" /\ task[n].msg = NULL /\ late[n] = {}
  BY <1>0, <1>3 DEF TypeOK, TaskInv, Undecided
<1>7. NULL \notin On \cup Off
  BY <1>0, Facts
<1> HIDE DEF n
<1>8. /\ \A c : \A j \in From(c) : j < n /\ j # n
      /\ \A c : \A j \in From(c) : inbox'[j] = inbox[j]
  BY <1>3, <1>4, <1>5 DEF n
<1>9. ASSUME NEW j \in Ids PROVE TaskInv(j)'
  <2>1. CASE j \in 1 .. Len(inbox)
    <3>1. j <= Len(inbox) /\ inbox'[j] = inbox[j] /\ TaskInv(j)
      BY <1>0, <1>4, <2>1
    <3>2. j <= Len(inbox')
      BY <1>3, <1>4, <3>1 DEF n, Ids
    <3>. QED  BY <1>1, <3>1, <3>2 DEF TaskInv
  <2>2. CASE j \notin 1 .. Len(inbox)
    <3>1. (j <= Len(inbox') => j = n) /\ late[j] = {}
      BY <1>0, <1>3, <1>4, <2>2 DEF n, Ids, TaskInv
    <3>. QED  BY <1>0, <1>1, <1>6, <3>1 DEF TaskInv
  <2>. QED  BY <2>1, <2>2
<1>10. ASSUME NEW c \in Chat PROVE YesIsTrue(c)'
  <2>1. YesIsTrue(c)
    BY DEF ToldInv
  <2>2. NeverStops(c)' => NeverStops(c)
    BY <1>5, <1>8 DEF NeverStops
  <2>3. \A j \in From(c)' : task[j].msg \in On \/ late[j] \cap On # {} => j \in From(c)
    BY <1>5, <1>6, <1>7
  <2>. QED  BY <1>1, <2>1, <2>2, <2>3 DEF YesIsTrue, Subscribed
<1>11. ASSUME restarts' = 0 PROVE Orderly'
  <2>0. Orderly
    BY <1>1, <1>11 DEF ToldInv
  <2>1. n \notin heard
    BY <1>6, <2>0 DEF Orderly
  <2>2. ASSUME NEW c \in Patient PROVE OneAtATime(c)' /\ LastWordHolds(c)' /\ ToldByTask(c)'
    <3>0. OneAtATime(c) /\ LastWordHolds(c) /\ ToldByTask(c)
      BY <2>0 DEF Orderly
    <3>1. CASE c # d
      <4>1. From(c)' = From(c)
        BY <1>5, <3>1
      <4>2. OneAtATime(c)'
        BY <1>1, <3>0, <4>1 DEF OneAtATime
      <4>3. \A k \in From(c) : LastWord(c, k)' <=> LastWord(c, k)
        BY <1>1, <4>1 DEF LastWord
      <4>4. LastWordHolds(c)'
        BY <1>1, <3>0, <4>1, <4>3 DEF LastWordHolds, Subscribed
      <4>5. ToldByTask(c)'
        BY <1>1, <3>0, <4>1 DEF ToldByTask
      <4>. QED  BY <4>2, <4>4, <4>5
    <3>2. CASE c = d
      <4>1. /\ From(c)' = From(c) \cup {n}
            /\ \A i \in From(c) : task[i].pc = "done" /\ late[i] = {}
        BY <1>2, <1>5, <3>2
      <4>2. OneAtATime(c)'
        <5>1. ~(n < n)
          BY <1>3 DEF n
        <5>2. ASSUME NEW i \in From(c)', NEW j \in From(c)', i < j
              PROVE  task'[i].pc = "done" /\ late'[i] = {}
          <6>1. i = n => ~(i < j)
            BY <1>3, <1>5, <1>8, <4>1, <5>1 DEF n
          <6>. QED  BY <1>1, <4>1, <5>2, <6>1
        <5>. QED  BY <5>2 DEF OneAtATime
      <4>3. \A k \in From(c) : LastWord(c, k)' => LastWord(c, k)
        BY <1>1, <4>1 DEF LastWord
      <4>4. LastWordHolds(c)'
        BY <1>1, <1>6, <1>7, <3>0, <4>1, <4>3 DEF LastWordHolds, Subscribed
      <4>5. ToldByTask(c)'
        BY <1>1, <2>1, <3>0, <4>1 DEF ToldByTask
      <4>. QED  BY <4>2, <4>4, <4>5
    <3>. QED  BY <3>1, <3>2
  <2>. QED  BY <1>1, <2>0, <2>2 DEF Orderly
<1>. QED  BY <1>0, <1>9, <1>10, <1>11 DEF ToldInv

-----------------------------------------------------------------------------
(* The invariant and what follows.                                         *)

\* ToldInv is an invariant.
LEMMA InitToldInv ==
    ASSUME Init
    PROVE  ToldInv
<1>1. /\ IInv /\ inbox = << >> /\ heard = {} /\ \A c \in Chat : told[c] = NULL
      /\ \A i \in Ids : task[i].pc = "none" /\ task[i].msg = NULL /\ late[i] = {}
  BY InitIInv DEF Init, NoTask
<1>2. Patient \subseteq Chat /\ NULL \notin On \cup Off /\ \A c : From(c) = {}
  <2>1. \A c : From(c) = {}
    <3>1. Len(inbox) = 0
      BY <1>1
    <3>. QED  BY <3>1 DEF From
  <2>. QED  BY <1>1, <2>1, BotAssumption, Facts DEF IInv
<1>3. \A i \in Ids : TaskInv(i)
  BY <1>1 DEF TaskInv
<1>4. \A c \in Chat : YesIsTrue(c)
  BY <1>1, <1>2 DEF YesIsTrue
<1>5. Orderly
  BY <1>1, <1>2 DEF Orderly, OneAtATime, LastWordHolds, ToldByTask
<1>. QED  BY <1>1, <1>3, <1>4, <1>5 DEF ToldInv

LEMMA NextToldInv ==
    ASSUME ToldInv, [Next]_vars
    PROVE  ToldInv'
<1>1. CASE Write
  BY <1>1, WriteToldInv
<1>2. CASE FetchAndHandleUpdates
  BY <1>2, FetchToldInv
<1>3. CASE FetchFails
  <2>1. IInv' /\ UNCHANGED <<contact, inbox, late, heard, told, task, taken, restarts>>
    BY <1>3, FetchFailsIInv DEF ToldInv, FetchFails
  <2>. QED  BY <2>1, ResetKeeps
<1>4. ASSUME NEW i \in Ids, HandleUpdate(i) PROVE ToldInv'
  BY <1>4, HandleUpdateToldInv
<1>7. ASSUME NEW i \in Ids, LateAnswer(i) PROVE ToldInv'
  BY <1>7, LateAnswerToldInv
<1>5. CASE Restart \/ \E i \in Ids : ReadNoMessage(i)
  BY <1>5, RestartToldInv DEF ReadNoMessage
<1>6. CASE UNCHANGED vars
  <2>1. IInv' /\ UNCHANGED <<contact, inbox, late, heard, told, task, taken, restarts>>
    BY <1>6 DEF vars, ToldInv, IInv, TypeOK, Confirmed, Larger
  <2>. QED  BY <2>1, ResetKeeps
<1>. QED  BY <1>1, <1>2, <1>3, <1>4, <1>5, <1>6, <1>7 DEF Next

LEMMA ToldInvariance == Spec => []ToldInv
<1>1. Init => ToldInv
  BY InitToldInv
<1>2. ToldInv /\ [Next]_vars => ToldInv'
  BY NextToldInv
<1>. QED  BY <1>1, <1>2, PTL DEF Spec

\* What the last answer says holds: it came from one of the chat's tasks, what
\* was decided after it is help, so that task has had the last word.
LEMMA LastAnswerHolds == ToldInv => AnswersHold
<1> SUFFICES ASSUME ToldInv, restarts = 0, NEW c \in Patient, Quiet(c)
             PROVE  /\ told[c] \in On => Subscribed(c)
                    /\ told[c] \in Off => ~Subscribed(c)
  BY DEF AnswersHold, On, Off
<1>1. LastWordHolds(c) /\ ToldByTask(c) /\ NULL \notin On \cup Off
  BY Facts DEF ToldInv, Orderly, IInv
<1> SUFFICES ASSUME told[c] # NULL
             PROVE  /\ told[c] \in On => Subscribed(c)
                    /\ told[c] \in Off => ~Subscribed(c)
  BY <1>1
<1>2. PICK i \in From(c) :
        /\ told[c] = task[i].msg
        /\ \A j \in From(c) : i < j /\ j \in heard => task[j].msg = "Help"
  BY <1>1 DEF ToldByTask
<1>3. LastWord(c, i)
  BY <1>2 DEF Quiet, LastWord
<1>. QED  BY <1>1, <1>2, <1>3 DEF LastWordHolds

\* A decided answer to /send_notifications is a yes.
LEMMA AskedAndTold == ToldInv => SubscriptionLasts
<1> SUFFICES ASSUME ToldInv, NEW c \in Chat, NeverStops(c),
                    NEW i \in From(c), inbox[i].command = "send_notifications",
                    task[i].msg # NULL
             PROVE  Subscribed(c)
  BY DEF SubscriptionLasts, NeverStops
<1>1. i \in Ids /\ i <= Len(inbox)
  BY Facts DEF ToldInv, IInv
<1>2. task[i].msg \in On
  BY <1>1 DEF ToldInv, TaskInv
<1>. QED  BY <1>2 DEF ToldInv, YesIsTrue

\* telegram_bot.cpp:57 and :91: for any chats, messages, limits and attempts,
\* and every order of the tasks, a chat that waits and has heard all its
\* answers is what the last of them says, until the process is restarted.
THEOREM AnswersTrue == Spec => []AnswersHold
  BY ToldInvariance, LastAnswerHolds, PTL

\* A chat that never asks to stop and was once told that it is subscribed
\* stays so, over any number of restarts.
THEOREM SubscriptionsLast == Spec => []SubscriptionLasts
  BY ToldInvariance, AskedAndTold, PTL
=============================================================================
