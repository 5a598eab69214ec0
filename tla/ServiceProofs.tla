---------------------------- MODULE ServiceProofs ----------------------------
(***************************************************************************)
(* Chats that were told they are subscribed get every message, and chats   *)
(* that were told they are not get none: for any number of calls, chats,   *)
(* messages to the bot, updates per poll and restarts.                     *)
(*                                                                         *)
(* The two parts of the service are put together by their own invariants:  *)
(* ToldInv of the bot, which says what an answer to a chat is worth at the *)
(* moment a call selects its lines, and PInv of the calls, which says that *)
(* an answer 200 comes after the last of these lines.  What is new is      *)
(* Selected, which carries the first to the second.                        *)
(***************************************************************************)
EXTENDS Service, DeliveryProofs, Sequences

\* The proofs about the bot, for the bot of the service.
BotP == INSTANCE TelegramBotProofs WITH
    contact <- [chat \in DOMAIN db.contact |-> db.contact[chat].active]

\* The constants are as the proofs about the bot assume.
LEMMA BotConstants ==
    /\ Patient \subseteq Chat /\ Commands \subseteq BotP!AllCommands
    /\ Limit \in Nat \ {0} /\ Tries \in Nat \ {0}
    /\ MaxUpdates \in Nat /\ MaxRestarts \in Nat
    /\ NULL \notin Chat \cup BotP!Messages
  BY ServiceAssumption, BoundsAssumption, NullIsNoValue
     DEF BotP!AllCommands, BotP!Messages, Bot!AllCommands, Bot!Messages

\* What the last answer to a patient chat says holds.
LEMMA AnswersTold == BotP!ToldInv => BotP!AnswersHold
  BY BotP!LastAnswerHolds, BotConstants
-----------------------------------------------------------------------------
(* The bot.                                                                *)

\* Nothing but the bot changes the contacts.
LEMMA CallsKeepContacts ==
    ASSUME PInv, NEW c \in Call, Receive(c) \/ Step(c) \/ Abort(c)
    PROVE  /\ db'.contact = db.contact /\ db'.member = db.member
           /\ db'.group = db.group /\ db'.template = db.template
           /\ db'.recipient = db.recipient
<1>1. db \in Store
  BY IsStoreDef DEF PInv, IInv, TypeOK
<1>2. CASE CreateBatch(c)
  BY <1>1, <1>2 DEF CreateBatch, InsertBatch, Store
<1>3. CASE CancelNotification(c)
  BY <1>1, <1>3 DEF CancelNotification, DeleteNotification, Store
<1>4. CASE MarkBatch(c)
  BY <1>1, <1>4 DEF MarkBatch, SetBatchSent, Store
<1>5. CASE RecordNotification(c)
  BY <1>1, <1>5 DEF RecordNotification, InsertNotification, Store
<1>6. CASE UNCHANGED db
  BY <1>6
<1>. QED  BY <1>2, <1>3, <1>4, <1>5, <1>6
          DEF Receive, Step, Abort, BadArgument, VerifyJWT, ReadNotifications, CheckBatch,
              SelectRows, RecordFails, MessageSent, AttemptFails, MessageRefused,
              FinishBatch, Reply

LEMMA BotSteps ==
    ASSUME PInv, [ServiceNext]_serviceVars
    PROVE  [Bot!Next]_Bot!vars
<1>1. ASSUME UNCHANGED botVars, db'.contact = db.contact
      PROVE  UNCHANGED Bot!vars
  BY <1>1 DEF Bot!vars, botVars
<1>2. ASSUME NEW c \in Call, CallSteps(c)
      PROVE  UNCHANGED Bot!vars
  BY <1>1, <1>2, CallsKeepContacts DEF CallSteps
<1>3. PeopleWrite \/ Polls \/ ServiceRestart => Bot!Next
  BY DEF PeopleWrite, Polls, ServiceRestart, Bot!Next
<1>4. ASSUME NEW i \in 1 .. MaxUpdates, TaskSteps(i)
      PROVE  Bot!Next
  BY <1>4 DEF TaskSteps, Bot!Next, Bot!Ids
<1>6. ASSUME NEW i \in 1 .. MaxUpdates, AnswerArrives(i)
      PROVE  Bot!Next
  BY <1>6 DEF AnswerArrives, Bot!Next, Bot!Ids
<1>5. CASE UNCHANGED serviceVars
  BY <1>1, <1>5 DEF serviceVars, vars
<1>. QED  BY <1>2, <1>3, <1>4, <1>5, <1>6 DEF ServiceNext

\* The bot of the service and the one that the proofs are about are the same.
LEMMA SameInit == Bot!Init => BotP!Init
  BY DEF Bot!Init, BotP!Init, Bot!NoTask, BotP!NoTask, Bot!Ids, BotP!Ids

LEMMA SameTask ==
    ASSUME NEW i, Bot!HandleUpdate(i)
    PROVE  BotP!HandleUpdate(i)
<1>1. CASE Bot!HandleHelp(i)
  BY <1>1 DEF Bot!HandleHelp, BotP!HandleHelp, BotP!HandleUpdate, Bot!At, BotP!At,
              Bot!Say, BotP!Say
<1>2. CASE Bot!IgnoreUpdate(i)
  BY <1>2 DEF Bot!IgnoreUpdate, BotP!IgnoreUpdate, BotP!HandleUpdate, Bot!At, BotP!At
<1>3. CASE Bot!CheckContact(i)
  BY <1>3 DEF Bot!CheckContact, BotP!CheckContact, BotP!HandleUpdate, Bot!At, BotP!At
<1>4. CASE Bot!InsertContact(i)
  <2>1. BotP!InsertContact(i)
    BY <1>4 DEF Bot!InsertContact, BotP!InsertContact, Bot!SetContact, BotP!SetContact,
                Bot!Say, BotP!Say
  <2>. QED  BY <2>1 DEF BotP!HandleUpdate
<1>5. CASE Bot!UpdateContact(i)
  <2>1. BotP!UpdateContact(i)
    BY <1>5 DEF Bot!UpdateContact, BotP!UpdateContact, Bot!SetContact, BotP!SetContact,
                Bot!Say, BotP!Say, Bot!Subscribed, BotP!Subscribed
  <2>. QED  BY <2>1 DEF BotP!HandleUpdate
<1>6. CASE Bot!HandleStopNotifications(i)
  <2>1. BotP!HandleStopNotifications(i)
    BY <1>6 DEF Bot!HandleStopNotifications, BotP!HandleStopNotifications,
                Bot!SetContact, BotP!SetContact, Bot!At, BotP!At,
                Bot!Say, BotP!Say, Bot!Subscribed, BotP!Subscribed
  <2>. QED  BY <2>1 DEF BotP!HandleUpdate
<1>7. CASE Bot!AnswerSent(i)
  BY <1>7 DEF Bot!AnswerSent, BotP!AnswerSent, BotP!HandleUpdate, Bot!Hear, BotP!Hear
<1>8. CASE Bot!AnswerFails(i)
  BY <1>8 DEF Bot!AnswerFails, BotP!AnswerFails, BotP!HandleUpdate, Bot!Hear, BotP!Hear
<1>9. CASE Bot!TaskFails(i)
  BY <1>9 DEF Bot!TaskFails, BotP!TaskFails, BotP!HandleUpdate, Bot!Running, BotP!Running
<1>. QED  BY <1>1, <1>2, <1>3, <1>4, <1>5, <1>6, <1>7, <1>8, <1>9
          DEF Bot!HandleUpdate

LEMMA SameArrival ==
    ASSUME NEW i, Bot!LateAnswer(i)
    PROVE  BotP!LateAnswer(i)
  BY DEF Bot!LateAnswer, BotP!LateAnswer, Bot!Hear, BotP!Hear

LEMMA SameSteps ==
    ASSUME [Bot!Next]_Bot!vars
    PROVE  [BotP!Next]_BotP!vars
<1>1. Bot!Write => BotP!Write
  BY DEF Bot!Write, BotP!Write, Bot!From, BotP!From
<1>2. Bot!FetchAndHandleUpdates => BotP!FetchAndHandleUpdates
  BY DEF Bot!FetchAndHandleUpdates, BotP!FetchAndHandleUpdates, Bot!StartTasks,
         BotP!StartTasks, Bot!Confirmed, BotP!Confirmed, Bot!Larger, BotP!Larger,
         Bot!NoTask, BotP!NoTask, Bot!Ids, BotP!Ids
<1>3. Bot!FetchFails => BotP!FetchFails
  BY DEF Bot!FetchFails, BotP!FetchFails, Bot!Confirmed, BotP!Confirmed, Bot!Larger,
         BotP!Larger
<1>4. Bot!Restart => BotP!Restart
  BY DEF Bot!Restart, BotP!Restart, Bot!Running, BotP!Running, Bot!NoTask, BotP!NoTask,
         Bot!Ids, BotP!Ids
<1>5. ASSUME NEW i \in Bot!Ids, Bot!ReadNoMessage(i) PROVE BotP!Restart
  BY <1>4, <1>5 DEF Bot!ReadNoMessage
<1>6. Bot!Ids = BotP!Ids
  BY DEF Bot!Ids, BotP!Ids
<1>7. UNCHANGED Bot!vars => UNCHANGED BotP!vars
  BY DEF Bot!vars, BotP!vars
<1>. QED  BY <1>1, <1>2, <1>3, <1>4, <1>5, <1>6, <1>7, SameTask, SameArrival
          DEF Bot!Next, BotP!Next

-----------------------------------------------------------------------------
(* The calls.                                                              *)

\* A statement of the bot.
LEMMA ContactStep ==
    ASSUME PInv, NEW chat \in Chat, NEW active \in BOOLEAN,
           db' = SetContact(db, chat, active) \/ db' = db,
           UNCHANGED <<issued, call, edits, origin, delivered>>
    PROVE  PInv'
<1>1. StoreInvariant(db') /\ Evolves(db, db', issued) /\ Keys(db') \subseteq issued'
  <2>1. StoreInvariant(db) /\ Keys(db) \subseteq issued
    BY DEF PInv, IInv, TypeOK
  <2>2. CASE db' = SetContact(db, chat, active)
    BY <2>1, <2>2, SetContactPreserves
  <2>3. CASE db' = db
    BY <2>1, <2>3 DEF Evolves
  <2>. QED  BY <2>2, <2>3
<1>2. IInv'
  <2>1. \A k \in Call : Continues(k)
    BY DEF Continues
  <2>2. /\ call' \in [Call -> CallState] /\ edits' \in 0 .. MaxEdits
        /\ delivered' \in [Notification -> Nat]
    BY DEF PInv, IInv, TypeOK
  <2>. QED  BY <1>1, <2>1, <2>2, EvolvingStep DEF PInv
<1>3. \A k \in Call : Progress(k)'
  <2> TAKE k \in Call
  <2>1. Kept(k)
    BY DEF Kept, RecordedBy
  <2>. QED  BY <2>1, Untouched DEF PInv
<1>4. NothingUnrecorded'
  BY DEF PInv, NothingUnrecorded
<1>. QED  BY <1>2, <1>3, <1>4 DEF PInv

\* A call that a restart cuts short.
LEMMA CutShort ==
    ASSUME PInv, ServiceRestart, NEW k \in Call, call[k].pc \notin {"idle", "done"}
    PROVE  /\ call'[k] \in CallState
           /\ call'[k].pc = "done" /\ call'[k].resp = "Aborted"
           /\ call'[k].req = call[k].req /\ call'[k].rows = call[k].rows
           /\ call'[k].todo = call[k].todo /\ call'[k].ids = call[k].ids
           /\ call'[k].notification = call[k].notification
<1> DEFINE s == [call[k] EXCEPT !.pc = "done", !.resp = "Aborted"]
<1>1. call \in [Call -> CallState] /\ "done" \in PC /\ "Aborted" \in Response
  BY CallTypes DEF PC, Response
<1>2. call'[k] = s
  BY DEF ServiceRestart
<1>3. s \in CallState
  BY <1>1, CallUpdate
<1>4. /\ s.pc = "done" /\ s.resp = "Aborted" /\ s.req = call[k].req
      /\ s.rows = call[k].rows /\ s.todo = call[k].todo /\ s.ids = call[k].ids
      /\ s.notification = call[k].notification
  BY <1>1 DEF CallState
<1> HIDE DEF s
<1>. QED  BY <1>2, <1>3, <1>4

\* The process stops: of the messages on their way some arrive, each for the
\* line its call is at.
LEMMA RestartStep ==
    ASSUME PInv, ServiceRestart
    PROVE  PInv'
<1>1. PICK S \in SUBSET {call[c].notification : c \in {k \in Call : call[k].pc = "send"}} :
        delivered' = [n \in Notification |->
                        IF n \in S THEN delivered[n] + 1 ELSE delivered[n]]
  BY DEF ServiceRestart
<1>2. /\ call \in [Call -> CallState] /\ delivered \in [Notification -> Nat]
      /\ UNCHANGED <<db, issued, edits, origin>>
  BY DEF PInv, IInv, TypeOK, ServiceRestart
<1>3. \A k \in Call : \/ call[k].pc \in {"idle", "done"} /\ call'[k] = call[k]
                      \/ /\ call[k].pc \notin {"idle", "done"}
                         /\ call'[k] = [call[k] EXCEPT !.pc = "done", !.resp = "Aborted"]
  BY DEF ServiceRestart
<1>4. delivered' \in [Notification -> Nat]
  BY <1>1, <1>2
<1>5. ASSUME NEW k \in Call, call[k].pc \notin {"idle", "done"}
      PROVE  /\ call'[k] \in CallState
             /\ call'[k].pc = "done" /\ call'[k].resp = "Aborted"
             /\ call'[k].req = call[k].req /\ call'[k].rows = call[k].rows
             /\ call'[k].todo = call[k].todo /\ call'[k].ids = call[k].ids
             /\ call'[k].notification = call[k].notification
  BY <1>5, CutShort
<1>6. IInv'
  <2>1. call' \in [Call -> CallState]
    <3>1. \A k \in Call : call'[k] \in CallState
      BY <1>2, <1>3, <1>5
    <3>2. call' = [k \in Call |-> call'[k]]
      BY DEF ServiceRestart
    <3>. QED  BY <3>1, <3>2
  <2>2. \A k \in Call : Continues(k)
    BY <1>3, <1>5 DEF Continues, Carrying
  <2>3. StoreInvariant(db') /\ Evolves(db, db', issued) /\ Keys(db') \subseteq issued'
    BY <1>2 DEF PInv, IInv, TypeOK, Evolves
  <2>. QED  BY <1>2, <1>4, <2>1, <2>2, <2>3, EvolvingStep DEF PInv, IInv, TypeOK
\* What is on record for a call, and its one message.
<1>7. ASSUME NEW k \in Call
      PROVE  \A n \in RecordedBy(k) :
                /\ n \in Notification
                /\ n \in S => call[k].pc = "send" /\ n = call[k].notification
  <2> TAKE n \in RecordedBy(k)
  <2>1. n \in Notification
    BY CallTypes
  <2>2. ASSUME n \in S PROVE call[k].pc = "send" /\ n = call[k].notification
    <3>1. PICK c \in Call : call[c].pc = "send" /\ n = call[c].notification
      BY <1>1, <2>2
    <3>2. n \in RecordedBy(c)
      BY <3>1, CallTypes DEF Progress, Delivered
    <3>. QED  BY <3>1, <3>2 DEF RecordedBy
  <2>. QED  BY <2>1, <2>2
<1>8. ASSUME NEW k \in Call
      PROVE  Progress(k)'
  <2>1. CASE call[k].pc \in {"idle", "done"}
    <3>1. Kept(k)
      BY <1>1, <1>2, <1>7, <2>1 DEF Kept, RecordedBy
    <3>. QED  BY <1>3, <2>1, <3>1, Untouched DEF PInv
  <2>2. CASE call[k].pc \notin {"idle", "done"}
    <3>1. /\ RecordedBy(k)' = RecordedBy(k) /\ LinesOf(k)' = LinesOf(k)
          /\ \A n \in RecordedBy(k) : LineOf(n)' = LineOf(n)
      BY <1>2 DEF RecordedBy, LinesOf, LineOf
    <3>2. Progress(k)
      BY DEF PInv
    <3>3. Placed(k)'
      BY <1>5, <2>2 DEF Placed
    <3>4. Recorded(k)'
      BY <1>5, <2>2, <3>1, <3>2 DEF Progress, Recorded, Early, Sending, Sends
    <3>5. \A n \in RecordedBy(k) :
            /\ delivered'[n] <= Tries
            /\ delivered'[n] = 0 => n = call[k].notification
      <4> TAKE n \in RecordedBy(k)
      <4>1. /\ delivered[n] <= Tries /\ delivered[n] \in Nat /\ Tries \in Nat
            /\ delivered[n] = 0 => n = call[k].notification
            /\ call[k].tries \in Nat
        BY <1>2, <1>7, <3>2, BoundsAssumption DEF Progress, Delivered, CallState
      <4>2. CASE n \in S
        <5>1. delivered'[n] = delivered[n] + 1 /\ n = call[k].notification
              /\ call[k].pc = "send"
          BY <1>1, <1>7, <4>2
        <5>2. delivered[n] <= call[k].tries /\ call[k].tries < Tries
          BY <3>2, <5>1 DEF Progress, Delivered
        <5>. QED  BY <4>1, <5>1, <5>2
      <4>3. CASE n \notin S
        <5>1. delivered'[n] = delivered[n]
          BY <1>1, <1>7, <4>3
        <5>. QED  BY <4>1, <5>1
      <4>. QED  BY <4>2, <4>3
    <3>6. Delivered(k)'
      BY <1>5, <2>2, <3>1, <3>5 DEF Delivered
    <3>. QED  BY <3>3, <3>4, <3>6 DEF Progress
  <2>. QED  BY <2>1, <2>2
<1>9. NothingUnrecorded'
  <2>1. S \subseteq DOMAIN origin
    BY <1>1, CallTypes DEF Progress, Delivered, RecordedBy
  <2>. QED  BY <1>1, <1>2, <2>1 DEF PInv, NothingUnrecorded
<1>. QED  BY <1>6, <1>8, <1>9 DEF PInv

\* Whatever the service does, the calls are where they should be.
LEMMA CallsProgress ==
    ASSUME PInv, BotP!ToldInv, [ServiceNext]_serviceVars
    PROVE  PInv'
<1>1. ASSUME [Next]_vars PROVE PInv'
  BY <1>1, NextPInv
<1>2. ASSUME NEW c \in Call, CallSteps(c) PROVE [Next]_vars
  BY <1>2 DEF CallSteps, Next
<1>3. \/ PeopleWrite \/ Polls \/ UNCHANGED serviceVars
      \/ \E i \in 1 .. MaxUpdates : AnswerArrives(i)
      => UNCHANGED vars
  BY DEF PeopleWrite, Polls, AnswerArrives, serviceVars
<1>4. ASSUME NEW i \in 1 .. MaxUpdates, TaskSteps(i) PROVE PInv'
  <2>1. PICK d \in ContactWrites(i) : db' = d
    BY <1>4 DEF TaskSteps
  <2>2. inbox[i].chat \in Chat
    <3>1. inbox \in Seq(BotP!Update) /\ i \in DOMAIN inbox
      BY <1>4 DEF TaskSteps, BotP!ToldInv, BotP!IInv, BotP!TypeOK
    <3>2. inbox[i] \in BotP!Update
      BY <3>1
    <3>. QED  BY <3>2 DEF BotP!Update
  <2>3. \E active \in BOOLEAN : db' = SetContact(db, inbox[i].chat, active) \/ db' = db
    BY <2>1 DEF ContactWrites
  <2>. QED  BY <1>4, <2>2, <2>3, ContactStep DEF TaskSteps
<1>. QED  BY <1>1, <1>2, <1>3, <1>4, RestartStep DEF ServiceNext

-----------------------------------------------------------------------------
(* What a call selects.                                                    *)

\* A SendBatch that has selected its lines, and is to deliver them or has.
Chosen(k) == call[k].pc \in Sending \/ (Sends(k) /\ call[k].resp = "Ok")

\* Its lines cover those of the chats that were told yes, and are not for the
\* chats that were told no.
Selected(k) ==
    /\ Chosen(k) => \A chat \in selected[k].on : \A p \in LinesFor(call[k].req.user, chat) :
            \E row \in call[k].rows : row.recipient = p[1] /\ row.group = p[2]
    /\ \A row \in call[k].rows : row.chat \notin selected[k].off

\* The tables that the lines come from.
SameLines ==
    /\ db'.member = db.member /\ db'.group = db.group
    /\ db'.template = db.template /\ db'.recipient = db.recipient

SelectedInv ==
    /\ selected \in [Call -> [on : SUBSET Chat, off : SUBSET Chat]]
    /\ \A k \in Call : Selected(k)

SInv == PInv /\ BotP!ToldInv /\ SelectedInv

\* A call that selects nothing in this step.
LEMMA StillSelected ==
    ASSUME NEW k \in Call, Selected(k), SameLines, selected'[k] = selected[k],
           call'[k].rows = call[k].rows,
           Chosen(k)' => Chosen(k) /\ call'[k].req = call[k].req
    PROVE  Selected(k)'
<1>1. \A u, chat : LinesFor(u, chat)' = LinesFor(u, chat)
  BY DEF SameLines, LinesFor, Owned
<1>. QED  BY <1>1 DEF Selected

\* What a chat may count on is true.
LEMMA ToldIsTrue ==
    ASSUME SInv
    PROVE  /\ \A chat \in ToldOn : Subscribed(db, chat)
           /\ \A chat \in ToldOff : ~Subscribed(db, chat)
<1>1. \A chat : BotP!Subscribed(chat) <=> Subscribed(db, chat)
  BY DEF BotP!Subscribed, Subscribed
<1>2. \A chat : Bot!Quiet(chat) <=> BotP!Quiet(chat)
  BY DEF Bot!Quiet, BotP!Quiet, Bot!From, BotP!From
<1>3. restarts = 0 => \A chat \in Patient : Bot!Quiet(chat) =>
        /\ told[chat] \in {"Success", "Already subscribed"} => Subscribed(db, chat)
        /\ told[chat] \in {"Stopped", "Not subscribed"} => ~Subscribed(db, chat)
  <2>1. BotP!AnswersHold
    BY AnswersTold DEF SInv
  <2>. QED  BY <1>1, <1>2, <2>1 DEF BotP!AnswersHold
<1>4. \A chat \in Chat :
        (/\ \A i \in Bot!From(chat) : inbox[i].command # "stop_notifications"
         /\ told[chat] \in {"Success", "Already subscribed"})
            => Subscribed(db, chat)
  <2> TAKE chat \in Chat
  <2>1. BotP!YesIsTrue(chat)
    BY DEF SInv, BotP!ToldInv
  <2>. QED  BY <1>1, <2>1 DEF BotP!YesIsTrue, BotP!NeverStops, BotP!On, Bot!From, BotP!From
<1>. QED  BY <1>3, <1>4 DEF ToldOn, ToldOff, Certain

\* The SELECT of SendBatch, by the subscriptions of this moment.
LEMMA SelectRowsSelected ==
    ASSUME SInv, NEW c \in Call, SelectRows(c), CallSteps(c)
    PROVE  Selected(c)'
<1> DEFINE u == call[c].req.user
           rows == Sendable(db, u)
<1>1. /\ call \in [Call -> CallState] /\ db' = db
      /\ selected \in [Call -> [on : SUBSET Chat, off : SUBSET Chat]]
  BY CallTypes DEF SInv, SelectedInv, SelectRows
<1>2. call'[c].rows = rows /\ call'[c].req = call[c].req /\ call'[c].pc = "loop"
  BY <1>1 DEF SelectRows, CallState
<1>3. selected'[c] = [on |-> ToldOn, off |-> ToldOff]
  BY <1>1, <1>2 DEF CallSteps, SelectRows
<1>4. ASSUME NEW chat \in ToldOn, NEW p \in LinesFor(u, chat)
      PROVE  \E row \in rows : row.recipient = p[1] /\ row.group = p[2]
  <2>1. Subscribed(db, chat) /\ db.recipient[p[1]].chat = chat
    BY <1>4, ToldIsTrue DEF LinesFor
  <2> DEFINE row == [group |-> p[2], recipient |-> p[1], chat |-> db.recipient[p[1]].chat,
                     text |-> db.template[db.group[p[2]].template].text]
  <2>2. row \in rows
    BY <1>4, <2>1 DEF LinesFor, Sendable
  <2>. QED  BY <2>2
<1>5. ASSUME NEW row \in rows
      PROVE  row.chat \notin ToldOff
  <2>1. Subscribed(db, row.chat)
    BY <1>5 DEF Sendable
  <2>. QED  BY <2>1, ToldIsTrue
<1>6. \A v, chat : LinesFor(v, chat)' = LinesFor(v, chat)
  <2>1. db' = db
    BY <1>1
  <2>. QED  BY <2>1 DEF LinesFor, Owned
<1> HIDE DEF rows
<1>7. \A chat \in selected'[c].on : \A p \in LinesFor(call[c].req.user, chat)' :
        \E row \in call'[c].rows : row.recipient = p[1] /\ row.group = p[2]
  BY <1>2, <1>3, <1>4, <1>6
<1>8. \A row \in call'[c].rows : row.chat \notin selected'[c].off
  BY <1>2, <1>3, <1>5
<1>. QED  BY <1>7, <1>8 DEF Selected

-----------------------------------------------------------------------------
(* The steps.                                                              *)

\* The other steps of a call: it may end Ok only if it had its lines.
LEMMA OtherCallStep ==
    ASSUME SInv, NEW c \in Call, Receive(c) \/ Step(c) \/ Abort(c), ~SelectRows(c)
    PROVE  /\ call'[c].rows = call[c].rows
           /\ ~(call[c].pc = "info" /\ call'[c].pc = "loop")
           /\ Chosen(c)' => Chosen(c) /\ call'[c].req = call[c].req
<1>1. /\ call \in [Call -> CallState] /\ call[c] \in CallState /\ Progress(c)
      /\ call[c].pc \in {"reply", "done"} <=> call[c].resp # "none"
      /\ call[c].pc \in {"check", "mark", "info", "loop", "send"} => Sends(c)
      /\ call[c].pc \in {"insert", "delete", "read"} => ~Sends(c)
  BY CallTypes DEF SInv, Progress, Placed
<1>2. ASSUME NEW p, call' = [call EXCEPT ![c].pc = p],
             p \in Sending => call[c].pc = "send", call[c].pc # "info" \/ p # "loop"
      PROVE  /\ call'[c].rows = call[c].rows
             /\ ~(call[c].pc = "info" /\ call'[c].pc = "loop")
             /\ Chosen(c)' => Chosen(c) /\ call'[c].req = call[c].req
  BY <1>1, <1>2 DEF CallState, Chosen, Sends, Sending
<1>3. ASSUME NEW r, Answer(c, r), r = "Ok" => call[c].pc \in {"loop", "insert", "delete", "read"}
      PROVE  /\ call'[c].rows = call[c].rows
             /\ ~(call[c].pc = "info" /\ call'[c].pc = "loop")
             /\ Chosen(c)' => Chosen(c) /\ call'[c].req = call[c].req
  BY <1>1, <1>3 DEF CallState, Chosen, Sends, Sending, Answer
<1>4. CASE Receive(c)
  <2>1. PICK q \in Requests : call' = [call EXCEPT ![c].pc = "verify", ![c].req = q]
    BY <1>4 DEF Receive
  <2>2. call[c].pc = "idle" /\ call[c].resp = "none"
    BY <1>1, <1>4 DEF Receive
  <2>. QED  BY <1>1, <2>1, <2>2 DEF CallState, Chosen, Sending
<1>5. CASE BadArgument(c) \/ VerifyJWT(c)
  <2>1. FirstStep(call[c].req.op) \notin Sending
    BY DEF FirstStep, Sending
  <2>2. call[c].pc = "verify"
    BY <1>5 DEF BadArgument, VerifyJWT
  <2>. QED  BY <1>2, <1>3, <1>5, <2>1, <2>2 DEF BadArgument, VerifyJWT
<1>6. CASE CreateBatch(c) \/ CancelNotification(c) \/ ReadNotifications(c)
  <2>1. call[c].pc \in {"insert", "delete", "read"} /\ \E r : Answer(c, r)
    BY <1>6 DEF CreateBatch, CancelNotification, ReadNotifications
  <2>. QED  BY <1>3, <2>1
<1>7. CASE CheckBatch(c) \/ MarkBatch(c)
  <2>1. /\ call[c].pc # "info"
        /\ Answer(c, "NotFound") \/ \E p \in {"mark", "info"} : call' = [call EXCEPT ![c].pc = p]
    BY <1>7 DEF CheckBatch, MarkBatch
  <2>. QED  BY <1>2, <1>3, <2>1 DEF Sending
<1>8. CASE RecordNotification(c)
  <2>1. PICK row, n :
          call' = [call EXCEPT ![c] =
                [call[c] EXCEPT !.pc = "send", !.todo = @ \ {row}, !.row = row,
                                !.notification = n, !.tries = 0, !.ids = @ \cup {n}]]
    BY <1>8 DEF RecordNotification
  <2>2. call[c].pc = "loop"
    BY <1>8 DEF RecordNotification
  <2>. QED  BY <1>1, <2>1, <2>2 DEF CallState, Chosen, Sending
<1>9. CASE RecordFails(c) \/ MessageRefused(c) \/ FinishBatch(c)
  BY <1>3, <1>9 DEF RecordFails, MessageRefused, FinishBatch
<1>10. CASE MessageSent(c)
  BY <1>2, <1>10 DEF MessageSent
<1>11. CASE AttemptFails(c)
  <2>1. /\ call[c].pc = "send"
        /\ call' = [call EXCEPT
                  ![c].tries = @ + 1,
                  ![c].pc = IF call[c].tries + 1 = Tries THEN "reply" ELSE "send",
                  ![c].resp = IF call[c].tries + 1 = Tries THEN "ServerError" ELSE @]
    BY <1>11 DEF AttemptFails
  <2>. QED  BY <1>1, <2>1 DEF CallState, Chosen, Sending
<1>12. CASE Reply(c)
  BY <1>2, <1>12 DEF Reply, Sending
<1>13. CASE Abort(c)
  BY <1>1, <1>13 DEF Abort, CallState, Chosen, Sending
<1>. QED  BY <1>4, <1>5, <1>6, <1>7, <1>8, <1>9, <1>10, <1>11, <1>12, <1>13 DEF Step

\* A step of a call changes no other.
LEMMA OneCallSteps ==
    ASSUME PInv, NEW c \in Call, Receive(c) \/ Step(c) \/ Abort(c)
    PROVE  \A k \in Call : k # c => call'[k] = call[k]
<1>1. call \in [Call -> CallState]
  BY CallTypes
<1>2. ASSUME NEW r, Answer(c, r) PROVE \A k \in Call : k # c => call'[k] = call[k]
  BY <1>1, <1>2 DEF Answer
<1>3. CASE \E r : Answer(c, r)
  BY <1>2, <1>3
<1>4. CASE RecordNotification(c)
  BY <1>1, <1>4 DEF RecordNotification
<1>5. CASE Receive(c) \/ VerifyJWT(c) \/ CheckBatch(c) \/ MarkBatch(c) \/ SelectRows(c)
  BY <1>1, <1>2, <1>5 DEF Receive, VerifyJWT, CheckBatch, MarkBatch, SelectRows
<1>6. CASE MessageSent(c) \/ AttemptFails(c) \/ Reply(c) \/ Abort(c)
  BY <1>1, <1>6 DEF MessageSent, AttemptFails, Reply, Abort
<1>7. CASE \/ BadArgument(c) \/ CreateBatch(c) \/ CancelNotification(c)
           \/ ReadNotifications(c) \/ RecordFails(c) \/ MessageRefused(c)
           \/ FinishBatch(c)
  BY <1>3, <1>7 DEF BadArgument, CreateBatch, CancelNotification, ReadNotifications,
                    RecordFails, MessageRefused, FinishBatch
<1>. QED  BY <1>4, <1>5, <1>6, <1>7 DEF Step

\* A call that selects its lines in this step, or does not.
LEMMA CallStepsSelected ==
    ASSUME SInv, NEW c \in Call, CallSteps(c)
    PROVE  SelectedInv'
<1>1. /\ selected \in [Call -> [on : SUBSET Chat, off : SUBSET Chat]]
      /\ PInv
      /\ Receive(c) \/ Step(c) \/ Abort(c)
  BY DEF SInv, SelectedInv, CallSteps
<1>2. SameLines
  BY <1>1, CallsKeepContacts DEF SameLines
<1>3. /\ selected' \in [Call -> [on : SUBSET Chat, off : SUBSET Chat]]
      /\ \A k \in Call : k # c => selected'[k] = selected[k]
  <2> DEFINE now == [on |-> ToldOn, off |-> ToldOff]
  <2>1. now \in [on : SUBSET Chat, off : SUBSET Chat]
    BY DEF ToldOn, ToldOff
  <2>2. selected' = [selected EXCEPT ![c] = now] \/ selected' = selected
    BY DEF CallSteps
  <2> HIDE DEF now
  <2>. QED  BY <1>1, <2>1, <2>2
<1>4. ASSUME NEW k \in Call, k # c PROVE Selected(k)'
  <2>1. call'[k] = call[k]
    BY <1>1, <1>4, OneCallSteps
  <2>2. Chosen(k)' => Chosen(k) /\ call'[k].req = call[k].req
    BY <2>1 DEF Chosen, Sends
  <2>. QED  BY <1>2, <1>3, <1>4, <2>1, <2>2, StillSelected DEF SInv, SelectedInv
<1>5. CASE SelectRows(c)
  BY <1>3, <1>4, <1>5, SelectRowsSelected DEF SelectedInv
<1>6. CASE ~SelectRows(c)
  <2>1. /\ call'[c].rows = call[c].rows
        /\ ~(call[c].pc = "info" /\ call'[c].pc = "loop")
        /\ Chosen(c)' => Chosen(c) /\ call'[c].req = call[c].req
    BY <1>1, <1>6, OtherCallStep
  <2>2. selected' = selected
    BY <2>1 DEF CallSteps
  <2>3. Selected(c)'
    BY <1>2, <2>1, <2>2, StillSelected DEF SInv, SelectedInv
  <2>. QED  BY <1>3, <1>4, <2>3 DEF SelectedInv
<1>. QED  BY <1>5, <1>6

\* The steps of the bot, and the restart.
LEMMA OtherStepsSelected ==
    ASSUME SInv, \/ PeopleWrite \/ Polls \/ ServiceRestart \/ UNCHANGED serviceVars
                 \/ \E i \in 1 .. MaxUpdates : TaskSteps(i) \/ AnswerArrives(i)
    PROVE  SelectedInv'
<1>1. UNCHANGED selected /\ SameLines
  <2>1. CASE UNCHANGED <<db, selected>>
    BY <2>1 DEF SameLines
  <2>2. ASSUME NEW i \in 1 .. MaxUpdates, TaskSteps(i) PROVE SameLines
    <3>1. db \in Store
      BY IsStoreDef DEF SInv, PInv, IInv, TypeOK
    <3>. QED  BY <2>2, <3>1 DEF TaskSteps, ContactWrites, SetContact, Store, SameLines
  <2>. QED  BY <2>1, <2>2
            DEF PeopleWrite, Polls, ServiceRestart, TaskSteps, AnswerArrives, serviceVars, vars
<1>2. ASSUME NEW k \in Call PROVE Selected(k)'
  <2>1. CASE call'[k] = call[k]
    BY <1>1, <2>1, StillSelected DEF SInv, SelectedInv, Chosen, Sends
  <2>2. CASE ServiceRestart /\ call[k].pc \notin {"idle", "done"}
    <3>1. /\ call'[k].rows = call[k].rows /\ call'[k].pc = "done"
          /\ call'[k].resp = "Aborted"
      BY <2>2, CutShort DEF SInv
    <3>. QED  BY <1>1, <3>1, StillSelected DEF SInv, SelectedInv, Chosen, Sending
  <2>. QED  BY <2>1, <2>2
            DEF PeopleWrite, Polls, ServiceRestart, TaskSteps, AnswerArrives, serviceVars, vars
<1>. QED  BY <1>1, <1>2 DEF SInv, SelectedInv

-----------------------------------------------------------------------------
(* The theorems.                                                           *)

\* The invariant: the bot's and the calls' are inductive together.
LEMMA ServiceInvariance == ServiceSpec => []SInv
<1>1. ServiceSpec => []BotP!ToldInv /\ []PInv
  <2>1. ServiceInit => PInv /\ BotP!Init
    BY InitPInv, SameInit DEF ServiceInit
  <2>2. BotP!Init => BotP!ToldInv
    BY BotP!InitToldInv, BotConstants
  <2>3. BotP!ToldInv /\ [BotP!Next]_BotP!vars => BotP!ToldInv'
    BY BotP!NextToldInv, BotConstants
  <2>4. PInv /\ BotP!ToldInv /\ [ServiceNext]_serviceVars => PInv' /\ BotP!ToldInv'
    BY <2>3, BotSteps, SameSteps, CallsProgress
  <2>. QED  BY <2>1, <2>2, <2>4, PTL DEF ServiceSpec
<1>2. ServiceInit => SelectedInv
  <2> SUFFICES ASSUME ServiceInit PROVE SelectedInv
    OBVIOUS
  <2>1. \A k \in Call : /\ call[k].rows = {} /\ selected[k].on = {}
    BY DEF ServiceInit, Init, Idle
  <2>2. selected \in [Call -> [on : SUBSET Chat, off : SUBSET Chat]]
    BY DEF ServiceInit
  <2>. QED  BY <2>1, <2>2 DEF Selected, SelectedInv
<1>3. SInv /\ [ServiceNext]_serviceVars => SelectedInv'
  <2> SUFFICES ASSUME SInv, [ServiceNext]_serviceVars PROVE SelectedInv'
    OBVIOUS
  <2>1. CASE \E c \in Call : CallSteps(c)
    BY <2>1, CallStepsSelected
  <2>2. CASE \/ PeopleWrite \/ Polls \/ ServiceRestart \/ UNCHANGED serviceVars
             \/ \E i \in 1 .. MaxUpdates : TaskSteps(i) \/ AnswerArrives(i)
    BY <2>2, OtherStepsSelected
  <2>. QED  BY <2>1, <2>2 DEF ServiceNext
<1>. QED  BY <1>1, <1>2, <1>3, PTL DEF ServiceSpec, SInv

\* Calls that send are nothing to the bot: a behaviour of the service is one of
\* TelegramBot, whose theorems hold of it.
THEOREM BotAlone == ServiceSpec => Bot!Spec
<1>1. ServiceInit => Bot!Init
  BY DEF ServiceInit
<1>2. SInv /\ [ServiceNext]_serviceVars => [Bot!Next]_Bot!vars
  BY BotSteps DEF SInv
<1>. QED  BY <1>1, <1>2, ServiceInvariance, PTL DEF ServiceSpec, Bot!Spec

\* What SendBatch promises and what keeps the shared tables sound also hold
\* when the whole process, with all its calls, is restarted and the bot
\* changes the contacts.
THEOREM SendingIsSafe ==
    ServiceSpec => [](/\ OkMeansAllDelivered /\ AtMostOneUndelivered /\ BoundedRepeats
                      /\ StoreConsistent /\ CarriedStateIsSafe /\ UnsentMeansUntouched)
<1>1. SInv => /\ OkMeansAllDelivered /\ AtMostOneUndelivered /\ BoundedRepeats
              /\ StoreConsistent /\ CarriedStateIsSafe /\ UnsentMeansUntouched
  BY Promises DEF SInv, PInv, IInv, StoreInvariant, StoreConsistent
<1>. QED  BY <1>1, ServiceInvariance, PTL

\* Every line that a subscriber was due when a call selected its lines has
\* been delivered when the call answers 200.
THEOREM SubscribersReached == ServiceSpec => []SubscribersAreReached
<1>1. SInv => SubscribersAreReached
  <2> SUFFICES ASSUME SInv, NEW c \in Call, Sends(c), call[c].resp = "Ok",
                      NEW chat \in selected[c].on,
                      NEW p \in LinesFor(call[c].req.user, chat)
               PROVE  \E n \in RecordedBy(c) :
                        /\ origin[n].row.recipient = p[1] /\ origin[n].row.group = p[2]
                        /\ delivered[n] >= 1
    BY DEF SubscribersAreReached
  <2>1. PICK row \in call[c].rows : row.recipient = p[1] /\ row.group = p[2]
    BY DEF SInv, SelectedInv, Selected, Chosen
  <2>2. Progress(c)
    BY DEF SInv, PInv
  <2>3. row \in LinesOf(c)
    BY <2>2 DEF Progress, Recorded
  <2>4. PICK n \in RecordedBy(c) : LineOf(n) = row
    BY <2>3 DEF LinesOf
  <2>5. delivered[n] >= 1
    BY <2>2 DEF Progress, Delivered
  <2>. QED  BY <2>1, <2>4, <2>5 DEF LineOf
<1>. QED  BY <1>1, ServiceInvariance, PTL

\* No call that selects its lines after a chat was told that it gets no more
\* messages puts one for it on record.
THEOREM StoppedLeftAlone == ServiceSpec => []StoppedChatsAreLeftAlone
<1>1. SInv => StoppedChatsAreLeftAlone
  <2> SUFFICES ASSUME SInv, NEW c \in Call, NEW n \in RecordedBy(c)
               PROVE  origin[n].row.chat \notin selected[c].off
    BY DEF StoppedChatsAreLeftAlone
  <2>1. LineOf(n) \in call[c].rows
    BY DEF SInv, PInv, Progress, Recorded
  <2>. QED  BY <2>1 DEF SInv, SelectedInv, Selected, LineOf
<1>. QED  BY <1>1, ServiceInvariance, PTL
=============================================================================
