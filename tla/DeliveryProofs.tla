--------------------------- MODULE DeliveryProofs ---------------------------
(***************************************************************************)
(* What SendBatch has put on record, what has reached the chats and what   *)
(* it answers agree, for any number of calls, lines and attempts, and      *)
(* whatever the other components and the failures do in between; and       *)
(* Notifications implements Delivery.                                      *)
(*                                                                         *)
(* OkMeansAllDelivered, AtMostOneUndelivered and BoundedRepeats are about  *)
(* calls that have ended, or about any moment of a call: what makes them   *)
(* inductive is the progress of a call in each of its places.              *)
(***************************************************************************)
EXTENDS NotificationsProofs

\* Where a SendBatch has put nothing on record yet.
Early == {"idle", "verify", "insert", "check", "mark", "info", "delete", "read"}

\* The line of a notification, and all lines of a call that have one.
LineOf(n) == origin[n].row
LinesOf(k) == {LineOf(n) : n \in RecordedBy(k)}

\* A call works for its own request, and has an answer only at its end.
Placed(k) ==
    /\ call[k].pc \in {"check", "mark", "info", "loop", "send"} => Sends(k)
    /\ call[k].pc \in {"insert", "delete", "read"} => ~Sends(k)
    /\ call[k].pc \in {"reply", "done"} <=> call[k].resp # "none"

\* A call has put on record what its answer will list: each line it has
\* selected and gone through, once.
Recorded(k) ==
    /\ call[k].ids = RecordedBy(k)
    /\ call[k].pc \in Early => RecordedBy(k) = {} /\ call[k].rows = {}
    /\ call[k].pc \in Sending => call[k].todo \subseteq call[k].rows
    /\ \A n \in RecordedBy(k) : LineOf(n) \in call[k].rows \ call[k].todo
    /\ \A n, m \in RecordedBy(k) : LineOf(n) = LineOf(m) => n = m
    /\ (call[k].pc \in Sending \/ (Sends(k) /\ call[k].resp = "Ok")) =>
            call[k].rows \subseteq call[k].todo \cup LinesOf(k)
    /\ Sends(k) /\ call[k].resp = "Ok" => call[k].todo = {}

\* What the history says of the messages: the line at hand has had no more than
\* there were attempts, every other line has been delivered.
Delivered(k) ==
    /\ \A n \in RecordedBy(k) :
        /\ delivered[n] <= Tries
        /\ delivered[n] = 0 =>
                n = call[k].notification /\ call[k].pc \in {"send", "reply", "done"}
        /\ Sends(k) /\ call[k].resp = "Ok" => delivered[n] >= 1
    /\ call[k].pc = "send" =>
        /\ call[k].notification \in RecordedBy(k)
        /\ LineOf(call[k].notification) = call[k].row
        /\ delivered[call[k].notification] <= call[k].tries
        /\ call[k].tries < Tries

Progress(k) == Placed(k) /\ Recorded(k) /\ Delivered(k)

\* A message needs a record.
NothingUnrecorded == \A n \in Notification \ DOMAIN origin : delivered[n] = 0

-----------------------------------------------------------------------------
PInv ==
    /\ IInv
    /\ NothingUnrecorded
    /\ \A k \in Call : Progress(k)

\* What is on record for a call, and its messages, stay as they are.
Kept(k) ==
    /\ RecordedBy(k)' = RecordedBy(k)
    /\ \A n \in RecordedBy(k) : origin'[n] = origin[n] /\ delivered'[n] = delivered[n]

LEMMA CallTypes ==
    ASSUME PInv, NEW k \in Call
    PROVE  /\ call \in [Call -> CallState] /\ call[k] \in CallState
           /\ delivered \in [Notification -> Nat]
           /\ Progress(k)
           /\ RecordedBy(k) \subseteq Notification
<1>1. origin \in Table(Notification, Origin)
  BY IsTableDef DEF PInv, IInv, TypeOK
<1>2. DOMAIN origin \subseteq Notification
  BY <1>1, TableDef
<1>. QED  BY <1>2 DEF PInv, IInv, TypeOK, RecordedBy

\* Records of different calls are different.
LEMMA RecordsApart ==
    ASSUME NEW c, NEW k, c # k, NEW n \in RecordedBy(c)
    PROVE  n \notin RecordedBy(k)
  BY DEF RecordedBy

\* A call that a step does not touch is where it was.
LEMMA Untouched ==
    ASSUME NEW k \in Call, Progress(k), call'[k] = call[k], Kept(k)
    PROVE  Progress(k)'
<1>1. Placed(k)'
  BY DEF Progress, Placed, Sends
<1>2. LinesOf(k)' = LinesOf(k)
  BY DEF Kept, LinesOf, LineOf
<1>3. Recorded(k)'
  BY <1>2 DEF Progress, Recorded, Kept, LineOf, Sends
<1>4. Delivered(k)'
  BY DEF Progress, Delivered, Kept, LineOf, Sends
<1>. QED  BY <1>1, <1>3, <1>4 DEF Progress

\* A step of call c that records nothing and sends nothing.
LEMMA QuietStep ==
    ASSUME PInv, IInv', NEW c \in Call, UNCHANGED <<origin, delivered>>,
           \A k \in Call : k # c => call'[k] = call[k],
           Progress(c)'
    PROVE  PInv'
<1>1. ASSUME NEW k \in Call, k # c
      PROVE  Progress(k)'
  <2>1. Kept(k)
    BY DEF Kept, RecordedBy
  <2>. QED  BY <1>1, <2>1, Untouched DEF PInv
<1>2. NothingUnrecorded'
  BY DEF PInv, NothingUnrecorded
<1>. QED  BY <1>1, <1>2 DEF PInv

\* A step of call c that lets a message for its line arrive, or not.
LEMMA MessageStep ==
    ASSUME PInv, IInv', NEW c \in Call, NEW reached \in Nat,
           call[c].pc = "send", UNCHANGED origin,
           delivered' = [delivered EXCEPT ![call[c].notification] = @ + reached],
           \A k \in Call : k # c => call'[k] = call[k],
           Progress(c)'
    PROVE  PInv'
<1> DEFINE n == call[c].notification
<1>1. n \in RecordedBy(c) /\ delivered \in [Notification -> Nat]
  BY CallTypes DEF Progress, Delivered
<1>2. ASSUME NEW k \in Call, k # c
      PROVE  Progress(k)'
  <2>1. n \notin RecordedBy(k) /\ RecordedBy(k) \subseteq Notification
    BY <1>1, <1>2, RecordsApart, CallTypes
  <2>2. Kept(k)
    BY <1>1, <2>1 DEF Kept, RecordedBy
  <2>. QED  BY <1>2, <2>2, Untouched DEF PInv
<1>3. NothingUnrecorded'
  BY <1>1 DEF PInv, NothingUnrecorded, RecordedBy
<1>. QED  BY <1>2, <1>3 DEF PInv

\* An answer: Ok for a SendBatch comes after the last line.
LEMMA AnswerProgress ==
    ASSUME PInv, IInv', NEW c \in Call, NEW r \in Response, Answer(c, r), r # "none",
           UNCHANGED <<origin, delivered>>,
           Sends(c) /\ r = "Ok" => call[c].pc = "loop" /\ call[c].todo = {}
    PROVE  PInv'
<1>1. /\ call \in [Call -> CallState] /\ call[c] \in CallState /\ Progress(c)
      /\ delivered \in [Notification -> Nat] /\ RecordedBy(c) \subseteq Notification
  BY CallTypes
<1> DEFINE s == [call[c] EXCEPT !.pc = "reply", !.resp = r]
<1>2. /\ s.pc = "reply" /\ s.resp = r /\ s.req = call[c].req /\ s.rows = call[c].rows
      /\ s.todo = call[c].todo /\ s.ids = call[c].ids
      /\ s.notification = call[c].notification
  BY <1>1 DEF CallState
<1>3. call'[c] = s /\ \A k \in Call : k # c => call'[k] = call[k]
  BY <1>1 DEF Answer
<1> HIDE DEF s
<1>4. RecordedBy(c)' = RecordedBy(c) /\ LinesOf(c)' = LinesOf(c)
  BY DEF RecordedBy, LinesOf, LineOf
<1>5. Placed(c)'
  BY <1>2, <1>3 DEF Placed
<1>6. Recorded(c)'
  BY <1>1, <1>2, <1>3, <1>4 DEF Progress, Recorded, Early, Sending, Sends, LineOf
<1>7. Delivered(c)'
  BY <1>1, <1>2, <1>3, <1>4 DEF Progress, Delivered, Sends, LineOf
<1>. QED  BY <1>3, <1>5, <1>6, <1>7, QuietStep DEF Progress

\* A step of a call that has nothing on record before or after it.
LEMMA EarlyProgress ==
    ASSUME PInv, IInv', NEW c \in Call, NEW s \in CallState, call' = [call EXCEPT ![c] = s],
           UNCHANGED <<origin, delivered>>,
           call[c].pc \in Early, s.pc \in Early,
           s.rows = call[c].rows, s.ids = call[c].ids, s.resp = call[c].resp,
           Placed(c)'
    PROVE  PInv'
<1>1. /\ call \in [Call -> CallState] /\ Progress(c)
      /\ RecordedBy(c) = {} /\ call[c].ids = {} /\ call[c].rows = {}
      /\ call[c].resp = "none"
  BY CallTypes DEF Progress, Recorded, Placed, Early
<1>2. call'[c] = s /\ \A k \in Call : k # c => call'[k] = call[k]
  BY <1>1
<1>3. RecordedBy(c)' = {} /\ s.ids = {} /\ s.rows = {} /\ s.resp = "none"
  BY <1>1 DEF RecordedBy
<1>4. s.pc \notin Sending /\ s.pc # "send"
  BY DEF Early, Sending
<1>5. Recorded(c)' /\ Delivered(c)'
  BY <1>2, <1>3, <1>4 DEF Recorded, Delivered
<1>. QED  BY <1>2, <1>5, QuietStep DEF Progress

-----------------------------------------------------------------------------
(* The steps of a call.                                                    *)

LEMMA ReceiveProgress ==
    ASSUME PInv, IInv', NEW c \in Call, Receive(c)
    PROVE  PInv'
<1>1. PICK q \in Requests : call' = [call EXCEPT ![c].pc = "verify", ![c].req = q]
  BY DEF Receive
<1> DEFINE s == [call[c] EXCEPT !.pc = "verify", !.req = q]
<1>2. /\ call \in [Call -> CallState] /\ "verify" \in PC /\ q \in Request
      /\ call[c].resp = "none"
  BY CallTypes, RequestsAssumption DEF PC, Receive, Progress, Placed
<1>3. s \in CallState /\ call' = [call EXCEPT ![c] = s] /\ call'[c] = s
  BY <1>1, <1>2, CallUpdate
<1>4. /\ s.pc = "verify" /\ s.rows = call[c].rows /\ s.ids = call[c].ids
      /\ s.resp = call[c].resp
  BY <1>2 DEF CallState
<1> HIDE DEF s
<1>5. Placed(c)'
  BY <1>2, <1>3, <1>4 DEF Placed
<1>. QED  BY <1>3, <1>4, <1>5, EarlyProgress DEF Receive, Early

\* A step that only moves on, before anything is on record.
LEMMA MoveProgress ==
    ASSUME PInv, IInv', NEW c \in Call, NEW p \in PC, call' = [call EXCEPT ![c].pc = p],
           UNCHANGED <<origin, delivered>>,
           call[c].pc \in Early, p \in Early,
           p \in {"check", "mark", "info"} => Sends(c),
           p \in {"insert", "delete", "read"} => ~Sends(c)
    PROVE  PInv'
<1> DEFINE s == [call[c] EXCEPT !.pc = p]
<1>1. call \in [Call -> CallState] /\ call[c].resp = "none"
  BY CallTypes DEF Progress, Placed, Early
<1>2. s \in CallState /\ call' = [call EXCEPT ![c] = s] /\ call'[c] = s
  BY <1>1, CallUpdate
<1>3. /\ s.pc = p /\ s.req = call[c].req /\ s.rows = call[c].rows /\ s.ids = call[c].ids
      /\ s.resp = call[c].resp
  BY <1>1 DEF CallState
<1> HIDE DEF s
<1>4. Placed(c)'
  BY <1>1, <1>2, <1>3 DEF Placed, Sends, Early
<1>. QED  BY <1>2, <1>3, <1>4, EarlyProgress

LEMMA VerifyProgress ==
    ASSUME PInv, IInv', NEW c \in Call, BadArgument(c) \/ VerifyJWT(c)
    PROVE  PInv'
<1>1. call[c].pc = "verify" /\ UNCHANGED <<origin, delivered>>
  BY DEF BadArgument, VerifyJWT
<1>2. CASE \E r \in {"NotFound", "Unauthorized", "ServerError"} : Answer(c, r)
  BY <1>1, <1>2, AnswerProgress DEF Response
<1>3. CASE call' = [call EXCEPT ![c].pc = FirstStep(call[c].req.op)]
  <2> DEFINE p == FirstStep(call[c].req.op)
  <2>1. /\ p \in PC /\ p \in Early
        /\ p \in {"check", "mark", "info"} => Sends(c)
        /\ p \in {"insert", "delete", "read"} => ~Sends(c)
    BY DEF FirstStep, PC, Early, Sends
  <2>2. call[c].pc \in Early
    BY <1>1 DEF Early
  <2> HIDE DEF p
  <2>3. call' = [call EXCEPT ![c].pc = p]
    BY <1>3 DEF p
  <2>. QED  BY <1>1, <2>1, <2>2, <2>3, MoveProgress
<1>. QED  BY <1>2, <1>3 DEF BadArgument, VerifyJWT

\* The operations of one statement.
LEMMA OneStatementProgress ==
    ASSUME PInv, IInv', NEW c \in Call,
           CreateBatch(c) \/ CancelNotification(c) \/ ReadNotifications(c)
    PROVE  PInv'
<1>1. call[c].pc \in {"insert", "delete", "read"} /\ UNCHANGED <<origin, delivered>>
  BY DEF CreateBatch, CancelNotification, ReadNotifications
<1>2. ~Sends(c)
  BY <1>1, CallTypes DEF Progress, Placed
<1>3. \A rows : ReadResponse(rows) \in {"Ok", "ServerError"}
  BY DEF ReadResponse
<1>4. \E r \in {"Ok", "NotFound", "ServerError"} : Answer(c, r)
  BY <1>3 DEF CreateBatch, CancelNotification, ReadNotifications
<1>. QED  BY <1>1, <1>2, <1>4, AnswerProgress DEF Response

LEMMA CheckAndMarkProgress ==
    ASSUME PInv, IInv', NEW c \in Call, CheckBatch(c) \/ MarkBatch(c)
    PROVE  PInv'
<1>1. call[c].pc \in {"check", "mark"} /\ UNCHANGED <<origin, delivered>>
  BY DEF CheckBatch, MarkBatch
<1>2. call[c].pc \in Early /\ Sends(c)
  BY <1>1, CallTypes DEF Progress, Placed, Early
<1>3. CASE Answer(c, "NotFound")
  BY <1>1, <1>3, AnswerProgress DEF Response
<1>4. CASE \E p \in {"mark", "info"} : call' = [call EXCEPT ![c].pc = p]
  BY <1>1, <1>2, <1>4, MoveProgress DEF PC, Early
<1>. QED  BY <1>3, <1>4 DEF CheckBatch, MarkBatch

LEMMA SelectRowsProgress ==
    ASSUME PInv, IInv', NEW c \in Call, SelectRows(c)
    PROVE  PInv'
<1> DEFINE rows == Sendable(db, call[c].req.user)
           s == [call[c] EXCEPT !.pc = "loop", !.rows = rows, !.todo = rows]
<1>1. /\ call \in [Call -> CallState] /\ Progress(c)
      /\ RecordedBy(c) = {} /\ call[c].ids = {} /\ call[c].resp = "none" /\ Sends(c)
      /\ UNCHANGED <<origin, delivered>>
  BY CallTypes DEF SelectRows, Progress, Placed, Recorded, Early
<1>2. call' = [call EXCEPT ![c] = s]
  BY DEF SelectRows
<1>3. call'[c] = s /\ \A k \in Call : k # c => call'[k] = call[k]
  BY <1>1, <1>2
<1>4. /\ s.pc = "loop" /\ s.req = call[c].req /\ s.rows = rows /\ s.todo = rows
      /\ s.ids = {} /\ s.resp = "none"
  BY <1>1 DEF CallState
<1>5. RecordedBy(c)' = {}
  BY <1>1 DEF RecordedBy
<1> HIDE DEF s, rows
<1>6. Placed(c)'
  BY <1>1, <1>3, <1>4 DEF Placed, Sends
<1>7. Recorded(c)' /\ Delivered(c)'
  BY <1>3, <1>4, <1>5 DEF Recorded, Delivered, Early
<1>. QED  BY <1>1, <1>3, <1>6, <1>7, QuietStep DEF Progress

LEMMA RecordNotificationProgress ==
    ASSUME PInv, IInv', NEW c \in Call, RecordNotification(c)
    PROVE  PInv'
<1>1. PICK row \in call[c].todo, n \in Notification \ issued :
        /\ origin' = With(origin, n, [call |-> c, batch |-> call[c].req.arg, row |-> row])
        /\ call' = [call EXCEPT ![c] =
              [call[c] EXCEPT !.pc = "send", !.todo = @ \ {row}, !.row = row,
                        !.notification = n, !.tries = 0, !.ids = @ \cup {n}]]
  BY NewIdIsNew DEF RecordNotification
<1> DEFINE s == [call[c] EXCEPT !.pc = "send", !.todo = @ \ {row}, !.row = row,
                                !.notification = n, !.tries = 0, !.ids = @ \cup {n}]
<1>2. /\ call \in [Call -> CallState] /\ Progress(c) /\ call[c].pc = "loop"
      /\ delivered \in [Notification -> Nat] /\ UNCHANGED delivered
      /\ RecordedBy(c) \subseteq Notification
  BY CallTypes DEF RecordNotification
<1>3. call' = [call EXCEPT ![c] = s] /\ call'[c] = s /\ \A k \in Call : k # c => call'[k] = call[k]
  BY <1>1, <1>2
<1>4. /\ s.pc = "send" /\ s.req = call[c].req /\ s.rows = call[c].rows
      /\ s.todo = call[c].todo \ {row} /\ s.ids = call[c].ids \cup {n}
      /\ s.row = row /\ s.notification = n /\ s.tries = 0 /\ s.resp = call[c].resp
  BY <1>2 DEF CallState
<1> HIDE DEF s
<1>5. n \notin DOMAIN origin /\ delivered[n] = 0
  BY DEF PInv, IInv, TypeOK, NothingUnrecorded
<1>6. /\ DOMAIN origin' = DOMAIN origin \cup {n}
      /\ origin'[n].call = c /\ origin'[n].row = row
      /\ \A m \in DOMAIN origin : origin'[m] = origin[m]
  BY <1>1, <1>5 DEF With
<1>7. ASSUME NEW k \in Call, k # c
      PROVE  Progress(k)'
  <2>1. Kept(k)
    BY <1>2, <1>6, <1>7 DEF Kept, RecordedBy
  <2>. QED  BY <1>3, <1>7, <2>1, Untouched DEF PInv
<1>8. /\ RecordedBy(c)' = RecordedBy(c) \cup {n}
      /\ n \notin RecordedBy(c)
      /\ \A m \in RecordedBy(c) : LineOf(m)' = LineOf(m)
      /\ LineOf(n)' = row
  BY <1>5, <1>6 DEF RecordedBy, LineOf
<1>9. Placed(c)'
  BY <1>2, <1>3, <1>4 DEF Progress, Placed, Sends
<1>10. Recorded(c)'
  <2>1. /\ call[c].ids = RecordedBy(c) /\ call[c].resp = "none"
        /\ \A m \in RecordedBy(c) : LineOf(m) \in call[c].rows \ call[c].todo
        /\ \A m, o \in RecordedBy(c) : LineOf(m) = LineOf(o) => m = o
        /\ call[c].rows \subseteq call[c].todo \cup LinesOf(c)
        /\ call[c].todo \subseteq call[c].rows
    BY <1>2 DEF Progress, Recorded, Placed, Sending
  <2>2. row \in call[c].rows
    BY <2>1
  <2>3. LinesOf(c)' = LinesOf(c) \cup {row}
    BY <1>8 DEF LinesOf
  <2>4. \A m \in RecordedBy(c)' : LineOf(m)' \in s.rows \ s.todo
    BY <1>4, <1>8, <2>1, <2>2
  <2>5. \A m, o \in RecordedBy(c)' : LineOf(m)' = LineOf(o)' => m = o
    BY <1>8, <2>1
  <2>6. s.rows \subseteq s.todo \cup LinesOf(c)'
    BY <1>4, <2>1, <2>3
  <2>. QED  BY <1>3, <1>4, <1>8, <2>1, <2>4, <2>5, <2>6 DEF Recorded, Early
<1>11. Delivered(c)'
  <2>1. \A m \in RecordedBy(c) : delivered[m] <= Tries /\ delivered[m] # 0
    BY <1>2 DEF Progress, Delivered
  <2>2. call[c].resp = "none"
    BY <1>2 DEF Progress, Placed
  <2>3. Tries \in Nat \ {0}
    BY BoundsAssumption
  <2>. QED  BY <1>2, <1>3, <1>4, <1>5, <1>8, <2>1, <2>2, <2>3 DEF Delivered
<1>12. NothingUnrecorded'
  BY <1>2, <1>6 DEF PInv, NothingUnrecorded
<1>. QED  BY <1>7, <1>9, <1>10, <1>11, <1>12 DEF PInv, Progress

LEMMA MessageSentProgress ==
    ASSUME PInv, IInv', NEW c \in Call, MessageSent(c)
    PROVE  PInv'
<1> DEFINE n == call[c].notification
           s == [call[c] EXCEPT !.pc = "loop"]
<1>1. /\ call \in [Call -> CallState] /\ Progress(c) /\ call[c].pc = "send"
      /\ delivered \in [Notification -> Nat] /\ RecordedBy(c) \subseteq Notification
      /\ call' = [call EXCEPT ![c] = s] /\ UNCHANGED origin
      /\ delivered' = [delivered EXCEPT ![n] = @ + 1]
  BY CallTypes DEF MessageSent
<1>2. /\ s.pc = "loop" /\ s.req = call[c].req /\ s.rows = call[c].rows
      /\ s.todo = call[c].todo /\ s.ids = call[c].ids /\ s.resp = call[c].resp
      /\ s.notification = n /\ call[c].tries \in Nat
  BY <1>1 DEF CallState
<1>3. call'[c] = s /\ \A k \in Call : k # c => call'[k] = call[k]
  BY <1>1
<1> HIDE DEF s
<1>4. RecordedBy(c)' = RecordedBy(c) /\ LinesOf(c)' = LinesOf(c) /\ call[c].resp = "none"
  BY <1>1 DEF RecordedBy, LinesOf, LineOf, Progress, Placed
<1>5. Placed(c)'
  BY <1>1, <1>2, <1>3 DEF Progress, Placed, Sends
<1>6. Recorded(c)'
  BY <1>1, <1>2, <1>3, <1>4 DEF Progress, Recorded, Early, Sending, Sends, LineOf
<1>7. Delivered(c)'
  <2>1. /\ n \in RecordedBy(c) /\ delivered[n] < Tries
        /\ \A m \in RecordedBy(c) : delivered[m] <= Tries /\ (m # n => delivered[m] # 0)
    BY <1>1, <1>2, BoundsAssumption DEF Progress, Delivered
  <2>2. /\ delivered'[n] = delivered[n] + 1
        /\ \A m \in RecordedBy(c) : m # n => delivered'[m] = delivered[m]
    BY <1>1, <2>1
  <2>3. \A m \in RecordedBy(c) : delivered'[m] <= Tries /\ delivered'[m] # 0
    BY <1>1, <2>1, <2>2, BoundsAssumption
  <2>. QED  BY <1>2, <1>3, <1>4, <2>3 DEF Delivered
<1>. QED  BY <1>1, <1>3, <1>5, <1>6, <1>7, MessageStep DEF Progress

\* A failed attempt, with which the call tries again or ends.
LEMMA AttemptFailsProgress ==
    ASSUME PInv, IInv', NEW c \in Call, AttemptFails(c)
    PROVE  PInv'
<1> DEFINE n == call[c].notification
           t == call[c].tries + 1
           p == IF t = Tries THEN "reply" ELSE "send"
           r == IF t = Tries THEN "ServerError" ELSE call[c].resp
           s == [call[c] EXCEPT !.tries = t, !.pc = p, !.resp = r]
<1>1. /\ call \in [Call -> CallState] /\ Progress(c) /\ call[c].pc = "send"
      /\ delivered \in [Notification -> Nat] /\ RecordedBy(c) \subseteq Notification
      /\ call' = [call EXCEPT ![c] = s] /\ UNCHANGED origin
  BY CallTypes DEF AttemptFails
<1>2. PICK reached \in {0, 1} : delivered' = [delivered EXCEPT ![n] = @ + reached]
  BY DEF AttemptFails
<1>3. call[c].tries \in Nat /\ t \in Nat /\ p \in {"reply", "send"} /\ Tries \in Nat
  BY <1>1, BoundsAssumption DEF CallState
<1>4. (p = "reply" /\ r = "ServerError") \/ (p = "send" /\ r = call[c].resp /\ t # Tries)
  OBVIOUS
<1>5. t = call[c].tries + 1
  OBVIOUS
<1> HIDE DEF t, p, r
<1>6. /\ s.pc = p /\ s.tries = t /\ s.req = call[c].req /\ s.rows = call[c].rows
      /\ s.todo = call[c].todo /\ s.ids = call[c].ids /\ s.resp = r
      /\ s.notification = n /\ s.row = call[c].row
  BY <1>1 DEF CallState
<1>7. call'[c] = s /\ \A k \in Call : k # c => call'[k] = call[k]
  BY <1>1
<1> HIDE DEF s
<1>8. RecordedBy(c)' = RecordedBy(c) /\ LinesOf(c)' = LinesOf(c) /\ call[c].resp = "none"
  BY <1>1 DEF RecordedBy, LinesOf, LineOf, Progress, Placed
<1>9. Placed(c)'
  BY <1>1, <1>4, <1>6, <1>7, <1>8 DEF Progress, Placed, Sends
<1>10. Recorded(c)'
  BY <1>1, <1>4, <1>6, <1>7, <1>8 DEF Progress, Recorded, Early, Sending, Sends, LineOf
<1>11. Delivered(c)'
  <2>1. /\ n \in RecordedBy(c) /\ delivered[n] <= call[c].tries /\ call[c].tries < Tries
        /\ LineOf(n) = call[c].row
        /\ \A m \in RecordedBy(c) : delivered[m] <= Tries /\ (m # n => delivered[m] # 0)
    BY <1>1 DEF Progress, Delivered
  <2>2. /\ delivered'[n] = delivered[n] + reached
        /\ \A m \in RecordedBy(c) : m # n => delivered'[m] = delivered[m]
    BY <1>1, <1>2, <2>1
  <2>3. delivered'[n] <= t /\ t <= Tries
    BY <1>1, <1>3, <1>5, <2>1, <2>2
  <2>4. delivered'[n] <= Tries
    BY <1>1, <1>2, <1>3, <2>1, <2>2, <2>3
  <2>5. \A m \in RecordedBy(c) : delivered'[m] <= Tries /\ (m # n => delivered'[m] # 0)
    BY <2>1, <2>2, <2>4
  <2>6. p = "send" => t < Tries
    BY <1>3, <1>4, <2>3
  <2>7. r # "Ok" /\ p \in {"send", "reply"}
    BY <1>4, <1>8
  <2>8. origin'[n].row = call[c].row
    BY <1>1, <2>1 DEF LineOf
  <2>9. \A m \in RecordedBy(c)' :
          /\ delivered'[m] <= Tries
          /\ delivered'[m] = 0 =>
                m = call'[c].notification /\ call'[c].pc \in {"send", "reply", "done"}
          /\ call'[c].resp # "Ok"
    BY <1>6, <1>7, <1>8, <2>5, <2>7
  <2>10. call'[c].pc = "send" =>
          /\ call'[c].notification \in RecordedBy(c)'
          /\ origin'[call'[c].notification].row = call'[c].row
          /\ delivered'[call'[c].notification] <= call'[c].tries
          /\ call'[c].tries < Tries
    BY <1>6, <1>7, <1>8, <2>1, <2>3, <2>6, <2>8
  <2>. QED  BY <2>9, <2>10 DEF Delivered, LineOf
<1>. QED  BY <1>1, <1>2, <1>7, <1>9, <1>10, <1>11, MessageStep DEF Progress

\* A call that ends.
LEMMA EndProgress ==
    ASSUME PInv, IInv', NEW c \in Call,
           RecordFails(c) \/ MessageRefused(c) \/ FinishBatch(c)
    PROVE  PInv'
<1>1. UNCHANGED <<origin, delivered>>
  BY DEF RecordFails, MessageRefused, FinishBatch
<1>2. CASE Answer(c, "ServerError")
  BY <1>1, <1>2, AnswerProgress DEF Response
<1>3. CASE FinishBatch(c)
  BY <1>1, <1>3, AnswerProgress DEF Response, FinishBatch
<1>. QED  BY <1>2, <1>3 DEF RecordFails, MessageRefused

LEMMA ReplyProgress ==
    ASSUME PInv, IInv', NEW c \in Call, Reply(c)
    PROVE  PInv'
<1> DEFINE s == [call[c] EXCEPT !.pc = "done"]
<1>1. /\ call \in [Call -> CallState] /\ Progress(c) /\ call[c].pc = "reply"
      /\ call' = [call EXCEPT ![c] = s] /\ UNCHANGED <<origin, delivered>>
  BY CallTypes DEF Reply
<1>2. /\ s.pc = "done" /\ s.req = call[c].req /\ s.rows = call[c].rows
      /\ s.todo = call[c].todo /\ s.ids = call[c].ids /\ s.resp = call[c].resp
      /\ s.notification = call[c].notification
  BY <1>1 DEF CallState
<1>3. call'[c] = s /\ \A k \in Call : k # c => call'[k] = call[k]
  BY <1>1
<1> HIDE DEF s
<1>4. RecordedBy(c)' = RecordedBy(c) /\ LinesOf(c)' = LinesOf(c)
  BY <1>1 DEF RecordedBy, LinesOf, LineOf
<1>5. Placed(c)'
  BY <1>1, <1>2, <1>3 DEF Progress, Placed
<1>6. Recorded(c)' /\ Delivered(c)'
  BY <1>1, <1>2, <1>3, <1>4
     DEF Progress, Recorded, Delivered, Early, Sending, Sends, LineOf
<1>. QED  BY <1>1, <1>3, <1>5, <1>6, QuietStep DEF Progress

LEMMA AbortProgress ==
    ASSUME PInv, IInv', NEW c \in Call, Abort(c)
    PROVE  PInv'
<1> DEFINE n == call[c].notification
           s == [call[c] EXCEPT !.pc = "done", !.resp = "Aborted"]
<1>1. /\ call \in [Call -> CallState] /\ Progress(c)
      /\ delivered \in [Notification -> Nat] /\ RecordedBy(c) \subseteq Notification
      /\ call' = [call EXCEPT ![c] = s] /\ UNCHANGED origin
  BY CallTypes DEF Abort
<1>2. /\ s.pc = "done" /\ s.resp = "Aborted" /\ s.req = call[c].req
      /\ s.rows = call[c].rows /\ s.todo = call[c].todo /\ s.ids = call[c].ids
      /\ s.notification = n /\ call[c].tries \in Nat
  BY <1>1 DEF CallState
<1>3. call'[c] = s /\ \A k \in Call : k # c => call'[k] = call[k]
  BY <1>1
<1> HIDE DEF s
<1>4. RecordedBy(c)' = RecordedBy(c) /\ LinesOf(c)' = LinesOf(c)
  BY <1>1 DEF RecordedBy, LinesOf, LineOf
<1>5. Placed(c)'
  BY <1>2, <1>3 DEF Placed
<1>6. Recorded(c)'
  BY <1>1, <1>2, <1>3, <1>4 DEF Progress, Recorded, Early, Sending, Sends, LineOf
<1>7. CASE UNCHANGED delivered
  <2>1. Delivered(c)'
    BY <1>1, <1>2, <1>3, <1>4, <1>7 DEF Progress, Delivered, Sends
  <2>. QED  BY <1>1, <1>3, <1>5, <1>6, <1>7, <2>1, QuietStep DEF Progress
<1>8. ASSUME NEW reached \in {0, 1}, call[c].pc = "send",
             delivered' = [delivered EXCEPT ![n] = @ + reached]
      PROVE  PInv'
  <2>1. /\ n \in RecordedBy(c) /\ delivered[n] < Tries
        /\ \A m \in RecordedBy(c) : delivered[m] <= Tries /\ (m # n => delivered[m] # 0)
    BY <1>1, <1>2, <1>8, BoundsAssumption DEF Progress, Delivered
  <2>2. /\ delivered'[n] = delivered[n] + reached
        /\ \A m \in RecordedBy(c) : m # n => delivered'[m] = delivered[m]
    BY <1>1, <1>8, <2>1
  <2>3. delivered'[n] <= Tries
    BY <1>1, <1>8, <2>1, <2>2, BoundsAssumption
  <2>4. \A m \in RecordedBy(c) : delivered'[m] <= Tries /\ (m # n => delivered'[m] # 0)
    BY <2>1, <2>2, <2>3
  <2>5. Delivered(c)'
    BY <1>2, <1>3, <1>4, <2>4 DEF Delivered
  <2>. QED  BY <1>1, <1>3, <1>5, <1>6, <1>8, <2>5, MessageStep DEF Progress
<1>. QED  BY <1>7, <1>8 DEF Abort

-----------------------------------------------------------------------------
(* The theorems.                                                           *)

LEMMA InitPInv == Init => PInv
<1> SUFFICES ASSUME Init
             PROVE  PInv
  OBVIOUS
<1>1. IInv
  BY InitIInv
<1>2. \A k \in Call : call[k] = Idle /\ RecordedBy(k) = {}
  BY DEF Init, RecordedBy
<1>3. \A k \in Call : Progress(k)
  BY <1>2 DEF Idle, NoRequest, Progress, Placed, Recorded, Delivered, Early, Sending, Sends
<1>4. NothingUnrecorded
  BY DEF Init, NothingUnrecorded
<1>. QED  BY <1>1, <1>3, <1>4 DEF PInv

LEMMA NextPInv == PInv /\ [Next]_vars => PInv'
<1> SUFFICES ASSUME PInv, [Next]_vars
             PROVE  PInv'
  OBVIOUS
<1>1. IInv'
  BY NextIInv DEF PInv
<1>2. CASE UNCHANGED <<call, origin, delivered>>
  <2>1. \A k \in Call : Progress(k)'
    <3> TAKE k \in Call
    <3>1. Kept(k)
      BY <1>2 DEF Kept, RecordedBy
    <3>. QED  BY <1>2, <3>1, Untouched DEF PInv
  <2>2. NothingUnrecorded'
    BY <1>2 DEF PInv, NothingUnrecorded
  <2>. QED  BY <1>1, <2>1, <2>2 DEF PInv
<1>3. ASSUME NEW c \in Call, Receive(c) \/ Step(c) \/ Abort(c)
      PROVE  PInv'
  BY <1>1, <1>3, ReceiveProgress, VerifyProgress, OneStatementProgress,
     CheckAndMarkProgress, SelectRowsProgress, RecordNotificationProgress,
     MessageSentProgress, AttemptFailsProgress, EndProgress, ReplyProgress,
     AbortProgress DEF Step
<1>4. OtherComponents => UNCHANGED <<call, origin, delivered>>
  BY DEF OtherComponents, EditAccount, EditTemplate, EditRecipient, EditGroup,
         EditMember, EditContact, Edit
<1>. QED  BY <1>2, <1>3, <1>4 DEF Next, AllDone, vars

LEMMA ProgressAlways == Spec => []PInv
  BY InitPInv, NextPInv, PTL DEF Spec

\* The three promises are in the progress of each call.
LEMMA Promises == PInv => OkMeansAllDelivered /\ AtMostOneUndelivered /\ BoundedRepeats
<1> SUFFICES ASSUME PInv
             PROVE  OkMeansAllDelivered /\ AtMostOneUndelivered /\ BoundedRepeats
  OBVIOUS
<1>1. ASSUME NEW c \in Call, Sends(c), call[c].resp = "Ok"
      PROVE  /\ call[c].ids = RecordedBy(c)
             /\ {origin[n].row : n \in call[c].ids} = call[c].rows
             /\ \A n \in call[c].ids : delivered[n] >= 1
  <2>1. Progress(c)
    BY DEF PInv
  <2>2. /\ call[c].ids = RecordedBy(c) /\ call[c].todo = {}
        /\ call[c].rows \subseteq LinesOf(c)
        /\ \A n \in RecordedBy(c) : LineOf(n) \in call[c].rows
        /\ \A n \in RecordedBy(c) : delivered[n] >= 1
    BY <1>1, <2>1 DEF Progress, Recorded, Delivered
  <2>. QED  BY <2>2 DEF LinesOf, LineOf
<1>2. OkMeansAllDelivered
  BY <1>1 DEF OkMeansAllDelivered, Sends
<1>3. AtMostOneUndelivered
  BY DEF PInv, Progress, Delivered, AtMostOneUndelivered
<1>4. BoundedRepeats
  BY DEF PInv, Progress, Recorded, Delivered, LineOf, BoundedRepeats
<1>. QED  BY <1>2, <1>3, <1>4

\* An Ok of SendBatch lists one notification for each line it selected, and
\* the message of each has been taken by Telegram.
THEOREM OkIsEarned == Spec => []OkMeansAllDelivered
  BY ProgressAlways, Promises, PTL

\* Wherever a SendBatch fails, at most its last notification is on record
\* without a message.
THEOREM OneUndelivered == Spec => []AtMostOneUndelivered
  BY ProgressAlways, Promises, PTL

\* A line is recorded once by a call and repeated at most Tries - 1 times.
THEOREM RepeatsBounded == Spec => []BoundedRepeats
  BY ProgressAlways, Promises, PTL

-----------------------------------------------------------------------------
(***************************************************************************)
(* Notifications implements Delivery: every step of the component changes  *)
(* what Delivery sees of one call at most, and changes it as one of        *)
(* Delivery's actions does.                                                *)
(***************************************************************************)

\* What Delivery sees of call k.
View(k) == <<StateOf(k), call[k].rows, MessagesOf(k), CurrentOf(k)>>

SameView(k) == View(k)' = View(k)

Others(c) == \A k \in Call : k # c => SameView(k)

-----------------------------------------------------------------------------
(* Actions of Delivery, as what they do to the view of a call.             *)

LEMMA ViewUnfolds ==
    ASSUME NEW k
    PROVE  SameView(k) <=> /\ StateOf(k)' = StateOf(k)
                           /\ call'[k].rows = call[k].rows
                           /\ MessagesOf(k)' = MessagesOf(k)
                           /\ CurrentOf(k)' = CurrentOf(k)
  BY DEF SameView, View

LEMMA Stutters ==
    ASSUME \A k \in Call : SameView(k)
    PROVE  UNCHANGED Promise!vars
<1>1. \A k \in Call : /\ StateOf(k)' = StateOf(k)
                      /\ call'[k].rows = call[k].rows
                      /\ MessagesOf(k)' = MessagesOf(k)
                      /\ CurrentOf(k)' = CurrentOf(k)
  BY ViewUnfolds
<1>. QED  BY <1>1 DEF Promise!vars

LEMMA Begins ==
    ASSUME NEW c \in Call, Others(c),
           StateOf(c) = "waiting", StateOf(c)' = "sending", call'[c].rows \in SUBSET Row,
           MessagesOf(c)' = MessagesOf(c), CurrentOf(c)' = CurrentOf(c)
    PROVE  Promise!Begin(c)
<1>1. \A k \in Call : k # c => /\ StateOf(k)' = StateOf(k)
                               /\ call'[k].rows = call[k].rows
                               /\ MessagesOf(k)' = MessagesOf(k)
                               /\ CurrentOf(k)' = CurrentOf(k)
  BY ViewUnfolds DEF Others
<1>. QED  BY <1>1 DEF Promise!Begin

LEMMA Records ==
    ASSUME NEW c \in Call, Others(c), StateOf(c) = "sending", StateOf(c)' = "sending",
           call'[c].rows = call[c].rows, CurrentOf(c) = NULL,
           NEW row \in call[c].rows \ DOMAIN MessagesOf(c), CurrentOf(c)' = row,
           MessagesOf(c)' = [x \in DOMAIN MessagesOf(c) \cup {row} |->
                                IF x = row THEN 0 ELSE MessagesOf(c)[x]]
    PROVE  Promise!Record(c)
<1>1. \A k \in Call : k # c => /\ StateOf(k)' = StateOf(k)
                               /\ call'[k].rows = call[k].rows
                               /\ MessagesOf(k)' = MessagesOf(k)
                               /\ CurrentOf(k)' = CurrentOf(k)
  BY ViewUnfolds DEF Others
<1> DEFINE S == [k \in Call |-> StateOf(k)]
           L == [k \in Call |-> call[k].rows]
           M == [k \in Call |-> MessagesOf(k)]
           C == [k \in Call |-> CurrentOf(k)]
<1>2. S[c] = "sending" /\ C[c] = NULL /\ row \in L[c] \ DOMAIN M[c] /\ M[c] = MessagesOf(c)
  OBVIOUS
<1>3. S' = S /\ L' = L
  BY <1>1
<1>4. C' = [C EXCEPT ![c] = row]
  BY <1>1
<1>5. M' = [M EXCEPT ![c] = MessagesOf(c)']
  BY <1>1
<1>6. Promise!Record(c) <=>
        /\ S[c] = "sending" /\ C[c] = NULL
        /\ \E l \in L[c] \ DOMAIN M[c] :
            /\ C' = [C EXCEPT ![c] = l]
            /\ M' = [M EXCEPT ![c] = [x \in DOMAIN M[c] \cup {l} |->
                                        IF x = l THEN 0 ELSE M[c][x]]]
        /\ UNCHANGED <<S, L>>
  BY DEF Promise!Record
<1> HIDE DEF S, L, M, C
<1>7. MessagesOf(c)' = [x \in DOMAIN M[c] \cup {row} |-> IF x = row THEN 0 ELSE M[c][x]]
  BY <1>2
<1>8. M' = [M EXCEPT ![c] = [x \in DOMAIN M[c] \cup {row} |-> IF x = row THEN 0 ELSE M[c][x]]]
  BY <1>5, <1>7
<1>. QED  BY <1>2, <1>3, <1>4, <1>6, <1>8

\* One more message for the current line.
Arriving(c) ==
    /\ MessagesOf(c)[CurrentOf(c)] < Tries
    /\ MessagesOf(c)' = [MessagesOf(c) EXCEPT
            ![CurrentOf(c)] = MessagesOf(c)[CurrentOf(c)] + 1]

LEMMA Arrives ==
    ASSUME NEW c \in Call, Others(c), Arriving(c)
    PROVE  Promise!Arrives(c)
<1>1. \A k \in Call : k # c => MessagesOf(k)' = MessagesOf(k)
  BY ViewUnfolds DEF Others
<1>. QED  BY <1>1 DEF Promise!Arrives, Arriving

LEMMA Messages ==
    ASSUME NEW c \in Call, Others(c), StateOf(c) = "sending", StateOf(c)' = "sending",
           call'[c].rows = call[c].rows, CurrentOf(c) # NULL,
           Arriving(c), CurrentOf(c)' \in {NULL, CurrentOf(c)}
    PROVE  Promise!Message(c)
<1>1. \A k \in Call : k # c => /\ StateOf(k)' = StateOf(k)
                               /\ call'[k].rows = call[k].rows
                               /\ CurrentOf(k)' = CurrentOf(k)
  BY ViewUnfolds DEF Others
<1>2. Promise!Arrives(c)
  BY Arrives
<1>. QED  BY <1>1, <1>2 DEF Promise!Message

LEMMA Finishes ==
    ASSUME NEW c \in Call, Others(c), StateOf(c) = "sending", StateOf(c)' = "Ok",
           call'[c].rows = call[c].rows, CurrentOf(c) = NULL, CurrentOf(c)' = NULL,
           MessagesOf(c)' = MessagesOf(c), DOMAIN MessagesOf(c) = call[c].rows
    PROVE  Promise!Finish(c)
<1>1. \A k \in Call : k # c => /\ StateOf(k)' = StateOf(k)
                               /\ call'[k].rows = call[k].rows
                               /\ MessagesOf(k)' = MessagesOf(k)
                               /\ CurrentOf(k)' = CurrentOf(k)
  BY ViewUnfolds DEF Others
<1>. QED  BY <1>1 DEF Promise!Finish

LEMMA Fails ==
    ASSUME NEW c \in Call, Others(c),
           StateOf(c) \in {"waiting", "sending"}, StateOf(c)' = "Failed",
           call'[c].rows = call[c].rows, CurrentOf(c)' = NULL,
           \/ MessagesOf(c)' = MessagesOf(c)
           \/ CurrentOf(c) # NULL /\ Arriving(c)
    PROVE  Promise!Fail(c)
<1>1. \A k \in Call : k # c => /\ StateOf(k)' = StateOf(k)
                               /\ call'[k].rows = call[k].rows
                               /\ MessagesOf(k)' = MessagesOf(k)
                               /\ CurrentOf(k)' = CurrentOf(k)
  BY ViewUnfolds DEF Others
<1>2. CASE MessagesOf(c)' = MessagesOf(c)
  BY <1>1, <1>2 DEF Promise!Fail
<1>3. CASE CurrentOf(c) # NULL /\ Arriving(c)
  <2>1. Promise!Arrives(c)
    BY <1>3, Arrives
  <2>. QED  BY <1>1, <1>3, <2>1 DEF Promise!Fail
<1>. QED  BY <1>2, <1>3

-----------------------------------------------------------------------------
(* The messages of a call, before and after a step.                        *)

\* The lines of a call have one notification each.
LEMMA MessagesAre ==
    PInv => \A k \in Call :
        /\ MessagesOf(k) = [l \in LinesOf(k) |-> MessagesOf(k)[l]]
        /\ \A n \in RecordedBy(k) : MessagesOf(k)[LineOf(n)] = delivered[n]
<1> SUFFICES ASSUME PInv, NEW k \in Call
             PROVE  /\ MessagesOf(k) = [l \in LinesOf(k) |-> MessagesOf(k)[l]]
                    /\ \A n \in RecordedBy(k) : MessagesOf(k)[LineOf(n)] = delivered[n]
  OBVIOUS
<1>1. MessagesOf(k) = [l \in LinesOf(k) |-> MessagesOf(k)[l]]
  BY DEF MessagesOf, LinesOf, LineOf
<1>2. ASSUME NEW n \in RecordedBy(k)
      PROVE  MessagesOf(k)[LineOf(n)] = delivered[n]
  <2> DEFINE m == CHOOSE x \in RecordedBy(k) : origin[x].row = LineOf(n)
  <2>1. m \in RecordedBy(k) /\ origin[m].row = LineOf(n)
    BY DEF LineOf
  <2>2. m = n
    BY <2>1 DEF PInv, Progress, Recorded, LineOf
  <2>3. LineOf(n) \in {origin[x].row : x \in RecordedBy(k)}
    BY DEF LineOf
  <2>4. MessagesOf(k)[LineOf(n)] = delivered[m]
    BY <2>3 DEF MessagesOf
  <2>. QED  BY <2>2, <2>4
<1>. QED  BY <1>1, <1>2

LEMMA MessagesWillBe ==
    PInv' => \A k \in Call :
        /\ MessagesOf(k)' = [l \in LinesOf(k)' |-> (MessagesOf(k)')[l]]
        /\ \A n \in RecordedBy(k)' : (MessagesOf(k)')[LineOf(n)'] = delivered'[n]
<1>1. (PInv => \A k \in Call :
        /\ MessagesOf(k) = [l \in LinesOf(k) |-> MessagesOf(k)[l]]
        /\ \A n \in RecordedBy(k) : MessagesOf(k)[LineOf(n)] = delivered[n])'
  BY MessagesAre, PTL
<1>. QED  BY <1>1

LEMMA MessagesKept ==
    ASSUME PInv, PInv', NEW k \in Call, Kept(k)
    PROVE  MessagesOf(k)' = MessagesOf(k)
<1>1. /\ RecordedBy(k)' = RecordedBy(k) /\ LinesOf(k)' = LinesOf(k)
      /\ \A n \in RecordedBy(k) : LineOf(n)' = LineOf(n) /\ delivered'[n] = delivered[n]
  BY DEF Kept, LinesOf, LineOf
<1>2. \A l \in LinesOf(k) : (MessagesOf(k)')[l] = MessagesOf(k)[l]
  <2> TAKE l \in LinesOf(k)
  <2>1. PICK n \in RecordedBy(k) : l = LineOf(n)
    BY DEF LinesOf
  <2>. QED  BY <1>1, <2>1, MessagesAre, MessagesWillBe
<1>3. /\ MessagesOf(k) = [l \in LinesOf(k) |-> MessagesOf(k)[l]]
      /\ MessagesOf(k)' = [l \in LinesOf(k)' |-> (MessagesOf(k)')[l]]
  BY MessagesAre, MessagesWillBe
<1>. QED  BY <1>1, <1>2, <1>3

LEMMA UntouchedView ==
    ASSUME PInv, PInv', NEW k \in Call, call'[k] = call[k], Kept(k)
    PROVE  SameView(k)
<1>1. MessagesOf(k)' = MessagesOf(k)
  BY MessagesKept
<1>. QED  BY <1>1, ViewUnfolds DEF StateOf, Sends, CurrentOf

-----------------------------------------------------------------------------
(* The steps of a call.                                                    *)

\* A step of call c leaves the other calls alone.
LEMMA OthersKept ==
    ASSUME PInv, PInv', NEW c \in Call,
           \A k \in Call : k # c => call'[k] = call[k] /\ Kept(k)
    PROVE  Others(c)
  BY UntouchedView DEF Others

\* A step of call c that neither records nor sends anything.
LEMMA QuietView ==
    ASSUME PInv, PInv', NEW c \in Call, UNCHANGED <<origin, delivered>>,
           \A k \in Call : k # c => call'[k] = call[k]
    PROVE  Others(c) /\ MessagesOf(c)' = MessagesOf(c)
<1>1. \A k \in Call : Kept(k)
  BY DEF Kept, RecordedBy
<1>. QED  BY <1>1, OthersKept, MessagesKept

\* One that may have let the message at hand arrive.
LEMMA MessageView ==
    ASSUME PInv, PInv', NEW c \in Call, NEW reached \in {0, 1},
           call[c].pc = "send", UNCHANGED origin,
           delivered' = [delivered EXCEPT ![call[c].notification] = @ + reached],
           \A k \in Call : k # c => call'[k] = call[k]
    PROVE  /\ Others(c) /\ CurrentOf(c) # NULL
           /\ \/ MessagesOf(c)' = MessagesOf(c)
              \/ Arriving(c)
           /\ reached = 1 => Arriving(c)
           /\ reached = 0 => MessagesOf(c)' = MessagesOf(c)
<1> DEFINE n == call[c].notification
<1>1. /\ n \in RecordedBy(c) /\ origin[n].row = call[c].row
      /\ delivered[n] <= call[c].tries /\ call[c].tries < Tries
      /\ delivered \in [Notification -> Nat] /\ call[c] \in CallState
      /\ RecordedBy(c) \subseteq Notification
      /\ call[c].row \in call[c].rows
  BY CallTypes DEF Progress, Delivered, Recorded, LineOf
<1>2. \A k \in Call : k # c => Kept(k)
  <2> TAKE k \in Call
  <2> HAVE k # c
  <2>1. n \notin RecordedBy(k) /\ RecordedBy(k) \subseteq Notification
    BY <1>1, RecordsApart, CallTypes
  <2>. QED  BY <1>1, <2>1 DEF Kept, RecordedBy
<1>3. Others(c)
  BY <1>2, OthersKept
<1>4. CurrentOf(c) = call[c].row /\ CurrentOf(c) # NULL
  BY <1>1, NullIsNoRow DEF CurrentOf, CallState
<1>5. CASE reached = 0
  <2>1. delivered' = delivered
    BY <1>1, <1>5
  <2>2. Kept(c)
    BY <2>1 DEF Kept, RecordedBy
  <2>. QED  BY <1>3, <1>4, <1>5, <2>2, MessagesKept
<1>6. CASE reached = 1
  <2>1. /\ RecordedBy(c)' = RecordedBy(c) /\ LinesOf(c)' = LinesOf(c)
        /\ \A m : LineOf(m)' = LineOf(m)
    BY DEF RecordedBy, LinesOf, LineOf
  <2>2. /\ MessagesOf(c) = [l \in LinesOf(c) |-> MessagesOf(c)[l]]
        /\ \A m \in RecordedBy(c) : MessagesOf(c)[LineOf(m)] = delivered[m]
    BY MessagesAre
  <2>3. /\ MessagesOf(c)' = [l \in LinesOf(c) |-> (MessagesOf(c)')[l]]
        /\ \A m \in RecordedBy(c) : (MessagesOf(c)')[LineOf(m)] = delivered'[m]
    BY <2>1, MessagesWillBe
  <2>4. /\ delivered'[n] = delivered[n] + 1
        /\ \A m \in RecordedBy(c) : m # n => delivered'[m] = delivered[m]
    BY <1>1, <1>6
  <2>5. \A m \in RecordedBy(c) : LineOf(m) = call[c].row => m = n
    BY <1>1, CallTypes DEF Progress, Recorded, LineOf
  <2>6. \A l \in LinesOf(c) :
            (MessagesOf(c)')[l] =
                IF l = call[c].row THEN MessagesOf(c)[call[c].row] + 1 ELSE MessagesOf(c)[l]
    <3> TAKE l \in LinesOf(c)
    <3>1. PICK m \in RecordedBy(c) : l = LineOf(m)
      BY DEF LinesOf
    <3>2. MessagesOf(c)[call[c].row] = delivered[n]
      BY <1>1, <2>2 DEF LineOf
    <3>3. CASE m = n
      <4>1. l = call[c].row
        BY <1>1, <3>1, <3>3 DEF LineOf
      <4>2. (MessagesOf(c)')[l] = delivered'[n]
        BY <2>3, <3>1, <3>3
      <4>. QED  BY <2>4, <3>2, <4>1, <4>2
    <3>4. CASE m # n
      <4>1. l # call[c].row
        BY <2>5, <3>1, <3>4
      <4>2. (MessagesOf(c)')[l] = delivered[m] /\ MessagesOf(c)[l] = delivered[m]
        BY <2>2, <2>3, <2>4, <3>1, <3>4
      <4>. QED  BY <4>1, <4>2
    <3>. QED  BY <3>3, <3>4
  <2>7. call[c].row \in LinesOf(c)
    BY <1>1 DEF LinesOf, LineOf
  <2>8. MessagesOf(c)[call[c].row] = delivered[n] /\ delivered[n] < Tries
    <3>1. MessagesOf(c)[call[c].row] = delivered[n]
      BY <1>1, <2>2 DEF LineOf
    <3>2. delivered[n] \in Nat /\ call[c].tries \in Nat /\ Tries \in Nat
      BY <1>1, BoundsAssumption DEF CallState
    <3>. QED  BY <1>1, <3>1, <3>2
  <2>9. MessagesOf(c)' = [MessagesOf(c) EXCEPT
                            ![call[c].row] = MessagesOf(c)[call[c].row] + 1]
    BY <2>2, <2>3, <2>6, <2>7
  <2>. QED  BY <1>3, <1>4, <1>6, <2>8, <2>9 DEF Arriving
<1>. QED  BY <1>5, <1>6

\* Answers: a SendBatch that is not Ok has failed.
LEMMA AnswerView ==
    ASSUME PInv, PInv', NEW c \in Call, NEW r \in Response, Answer(c, r), r # "none",
           UNCHANGED <<origin, delivered>>,
           call[c].pc \in Early \cup Sending,
           Sends(c) /\ r = "Ok" => call[c].pc = "loop"
    PROVE  [Promise!Next]_Promise!vars
<1> DEFINE s == [call[c] EXCEPT !.pc = "reply", !.resp = r]
<1>1. call \in [Call -> CallState] /\ call[c] \in CallState /\ Progress(c)
  BY CallTypes
<1>2. s.pc = "reply" /\ s.resp = r /\ s.req = call[c].req /\ s.rows = call[c].rows
  BY <1>1 DEF CallState
<1>3. call'[c] = s /\ \A k \in Call : k # c => call'[k] = call[k]
  BY <1>1 DEF Answer
<1> HIDE DEF s
<1>4. Others(c) /\ MessagesOf(c)' = MessagesOf(c)
  BY <1>3, QuietView
<1>5. CurrentOf(c)' = NULL /\ call'[c].rows = call[c].rows /\ (Sends(c)' <=> Sends(c))
  BY <1>2, <1>3 DEF CurrentOf, Sends
<1>6. CASE ~Sends(c)
  <2>1. StateOf(c) = "waiting" /\ StateOf(c)' = "waiting"
    BY <1>5, <1>6 DEF StateOf
  <2>2. call[c].pc # "send"
    BY <1>1, <1>6 DEF Progress, Placed
  <2>3. CurrentOf(c) = NULL
    BY <2>2 DEF CurrentOf
  <2>4. SameView(c)
    BY <1>4, <1>5, <2>1, <2>3, ViewUnfolds
  <2>. QED  BY <1>4, <2>4, Stutters DEF Others
<1>7. CASE Sends(c) /\ r # "Ok"
  <2>1. StateOf(c) \in {"waiting", "sending"}
    BY <1>7 DEF StateOf, Early, Sending
  <2>2. StateOf(c)' = "Failed"
    BY <1>2, <1>3, <1>5, <1>7 DEF StateOf
  <2>3. Promise!Fail(c)
    BY <1>4, <1>5, <2>1, <2>2, Fails
  <2>. QED  BY <2>3 DEF Promise!Next
<1>8. CASE Sends(c) /\ r = "Ok"
  <2>1. call[c].pc = "loop" /\ StateOf(c) = "sending" /\ CurrentOf(c) = NULL
    BY <1>8 DEF StateOf, CurrentOf
  <2>2. StateOf(c)' = "sending"
    BY <1>2, <1>3, <1>5, <1>8 DEF StateOf
  <2>3. SameView(c)
    BY <1>4, <1>5, <2>1, <2>2, ViewUnfolds
  <2>. QED  BY <1>4, <2>3, Stutters DEF Others
<1>. QED  BY <1>6, <1>7, <1>8

\* Steps on the way to the loop.
LEMMA EarlyView ==
    ASSUME PInv, PInv', NEW c \in Call, UNCHANGED <<origin, delivered>>,
           \A k \in Call : k # c => call'[k] = call[k],
           call[c].pc \in Early, call'[c].pc \in Early, call'[c].rows = call[c].rows
    PROVE  [Promise!Next]_Promise!vars
<1>1. Others(c) /\ MessagesOf(c)' = MessagesOf(c)
  BY QuietView
<1>2. /\ StateOf(c) = "waiting" /\ StateOf(c)' = "waiting"
      /\ CurrentOf(c) = NULL /\ CurrentOf(c)' = NULL
  BY DEF StateOf, CurrentOf, Early
<1>3. SameView(c)
  BY <1>1, <1>2, ViewUnfolds
<1>. QED  BY <1>1, <1>3, Stutters DEF Others

LEMMA MoveView ==
    ASSUME PInv, PInv', NEW c \in Call, UNCHANGED <<origin, delivered>>,
           NEW p \in Early, call[c].pc \in Early, call' = [call EXCEPT ![c].pc = p]
    PROVE  [Promise!Next]_Promise!vars
<1>1. call \in [Call -> CallState] /\ call[c] \in CallState
  BY CallTypes
<1>2. call'[c] = [call[c] EXCEPT !.pc = p] /\ \A k \in Call : k # c => call'[k] = call[k]
  BY <1>1
<1>3. call'[c].pc = p /\ call'[c].rows = call[c].rows
  BY <1>1, <1>2 DEF CallState
<1>. QED  BY <1>2, <1>3, EarlyView

LEMMA ReceiveView ==
    ASSUME PInv, PInv', NEW c \in Call, Receive(c)
    PROVE  [Promise!Next]_Promise!vars
<1>1. PICK q \in Requests : call' = [call EXCEPT ![c].pc = "verify", ![c].req = q]
  BY DEF Receive
<1>2. call \in [Call -> CallState] /\ call[c] \in CallState
  BY CallTypes
<1>3. /\ call'[c] = [call[c] EXCEPT !.pc = "verify", !.req = q]
      /\ \A k \in Call : k # c => call'[k] = call[k]
  BY <1>1, <1>2
<1>4. call'[c].pc = "verify" /\ call'[c].rows = call[c].rows
  BY <1>2, <1>3 DEF CallState
<1>. QED  BY <1>3, <1>4, EarlyView DEF Receive, Early

LEMMA VerifyView ==
    ASSUME PInv, PInv', NEW c \in Call, BadArgument(c) \/ VerifyJWT(c)
    PROVE  [Promise!Next]_Promise!vars
<1>1. call[c].pc = "verify" /\ call[c].pc \in Early /\ UNCHANGED <<origin, delivered>>
  BY DEF BadArgument, VerifyJWT, Early
<1>2. CASE \E r \in {"NotFound", "Unauthorized", "ServerError"} : Answer(c, r)
  BY <1>1, <1>2, AnswerView DEF Response
<1>3. CASE call' = [call EXCEPT ![c].pc = FirstStep(call[c].req.op)]
  <2>1. FirstStep(call[c].req.op) \in Early
    BY DEF FirstStep, Early
  <2>. QED  BY <1>1, <1>3, <2>1, MoveView
<1>. QED  BY <1>2, <1>3 DEF BadArgument, VerifyJWT

LEMMA OneStatementView ==
    ASSUME PInv, PInv', NEW c \in Call,
           CreateBatch(c) \/ CancelNotification(c) \/ ReadNotifications(c)
    PROVE  [Promise!Next]_Promise!vars
<1>1. call[c].pc \in {"insert", "delete", "read"} /\ UNCHANGED <<origin, delivered>>
  BY DEF CreateBatch, CancelNotification, ReadNotifications
<1>2. ~Sends(c) /\ call[c].pc \in Early
  BY <1>1, CallTypes DEF Progress, Placed, Early
<1>3. \A rows : ReadResponse(rows) \in {"Ok", "ServerError"}
  BY DEF ReadResponse
<1>4. \E r \in {"Ok", "NotFound", "ServerError"} : Answer(c, r)
  BY <1>3 DEF CreateBatch, CancelNotification, ReadNotifications
<1>. QED  BY <1>1, <1>2, <1>4, AnswerView DEF Response

LEMMA CheckAndMarkView ==
    ASSUME PInv, PInv', NEW c \in Call, CheckBatch(c) \/ MarkBatch(c)
    PROVE  [Promise!Next]_Promise!vars
<1>1. call[c].pc \in Early /\ UNCHANGED <<origin, delivered>>
  BY DEF CheckBatch, MarkBatch, Early
<1>2. CASE Answer(c, "NotFound")
  BY <1>1, <1>2, AnswerView DEF Response
<1>3. CASE \E p \in {"mark", "info"} : call' = [call EXCEPT ![c].pc = p]
  BY <1>1, <1>3, MoveView DEF Early
<1>. QED  BY <1>2, <1>3 DEF CheckBatch, MarkBatch

\* The query of SendBatch begins the sending.
LEMMA SelectRowsView ==
    ASSUME PInv, PInv', NEW c \in Call, SelectRows(c)
    PROVE  [Promise!Next]_Promise!vars
<1> DEFINE rows == Sendable(db, call[c].req.user)
           s == [call[c] EXCEPT !.pc = "loop", !.rows = rows, !.todo = rows]
<1>1. /\ call \in [Call -> CallState] /\ call[c] \in CallState /\ Sends(c)
      /\ call[c].pc = "info" /\ UNCHANGED <<origin, delivered>>
  BY CallTypes DEF SelectRows, Progress, Placed
<1>2. call'[c] = s /\ \A k \in Call : k # c => call'[k] = call[k]
  BY <1>1 DEF SelectRows
<1>3. s.pc = "loop" /\ s.req = call[c].req
  BY <1>1 DEF CallState
<1> HIDE DEF s
<1>4. call'[c].rows \in SUBSET Row
  BY DEF PInv, IInv, TypeOK, CallState
<1>5. Others(c) /\ MessagesOf(c)' = MessagesOf(c)
  BY <1>1, <1>2, QuietView
<1>6. /\ StateOf(c) = "waiting" /\ StateOf(c)' = "sending"
      /\ CurrentOf(c)' = CurrentOf(c)
  BY <1>1, <1>2, <1>3 DEF StateOf, CurrentOf, Sends
<1>7. Promise!Begin(c)
  BY <1>4, <1>5, <1>6, Begins
<1>. QED  BY <1>7 DEF Promise!Next

LEMMA RecordNotificationView ==
    ASSUME PInv, PInv', NEW c \in Call, RecordNotification(c)
    PROVE  [Promise!Next]_Promise!vars
<1>1. PICK row \in call[c].todo, n \in Notification \ issued :
        /\ origin' = With(origin, n, [call |-> c, batch |-> call[c].req.arg, row |-> row])
        /\ call' = [call EXCEPT ![c] =
              [call[c] EXCEPT !.pc = "send", !.todo = @ \ {row}, !.row = row,
                        !.notification = n, !.tries = 0, !.ids = @ \cup {n}]]
  BY NewIdIsNew DEF RecordNotification
<1> DEFINE s == [call[c] EXCEPT !.pc = "send", !.todo = @ \ {row}, !.row = row,
                                !.notification = n, !.tries = 0, !.ids = @ \cup {n}]
<1>2. /\ call \in [Call -> CallState] /\ call[c] \in CallState /\ Progress(c)
      /\ call[c].pc = "loop" /\ UNCHANGED delivered
  BY CallTypes DEF RecordNotification
<1>3. call'[c] = s /\ \A k \in Call : k # c => call'[k] = call[k]
  BY <1>1, <1>2
<1>4. s.pc = "send" /\ s.req = call[c].req /\ s.rows = call[c].rows /\ s.row = row
  BY <1>2 DEF CallState
<1> HIDE DEF s
<1>5. n \notin DOMAIN origin /\ delivered[n] = 0
  BY DEF PInv, IInv, TypeOK, NothingUnrecorded
<1>6. /\ DOMAIN origin' = DOMAIN origin \cup {n}
      /\ origin'[n].call = c /\ origin'[n].row = row
      /\ \A m \in DOMAIN origin : origin'[m] = origin[m]
  BY <1>1, <1>5 DEF With
<1>7. Others(c)
  <2>1. \A k \in Call : k # c => Kept(k)
    BY <1>2, <1>6 DEF Kept, RecordedBy
  <2>. QED  BY <1>3, <2>1, OthersKept
<1>8. /\ RecordedBy(c)' = RecordedBy(c) \cup {n}
      /\ n \notin RecordedBy(c)
      /\ \A m \in RecordedBy(c) : LineOf(m)' = LineOf(m)
      /\ LineOf(n)' = row
  BY <1>5, <1>6 DEF RecordedBy, LineOf
<1>9. LinesOf(c)' = LinesOf(c) \cup {row}
  BY <1>8 DEF LinesOf
<1>10. /\ row \in call[c].rows /\ row \notin LinesOf(c)
       /\ \A m \in RecordedBy(c) : LineOf(m) # row
  BY <1>2 DEF Progress, Recorded, Sending, LinesOf
<1>11. /\ MessagesOf(c) = [l \in LinesOf(c) |-> MessagesOf(c)[l]]
       /\ \A m \in RecordedBy(c) : MessagesOf(c)[LineOf(m)] = delivered[m]
  BY MessagesAre
<1>12. /\ MessagesOf(c)' = [l \in LinesOf(c) \cup {row} |-> (MessagesOf(c)')[l]]
       /\ \A m \in RecordedBy(c) : (MessagesOf(c)')[LineOf(m)] = delivered[m]
       /\ (MessagesOf(c)')[row] = 0
  <2>1. /\ MessagesOf(c)' = [l \in LinesOf(c)' |-> (MessagesOf(c)')[l]]
        /\ \A m \in RecordedBy(c)' : (MessagesOf(c)')[LineOf(m)'] = delivered'[m]
    BY MessagesWillBe
  <2>2. (MessagesOf(c)')[LineOf(n)'] = 0
    BY <1>2, <1>5, <1>8, <2>1
  <2>. QED  BY <1>2, <1>8, <1>9, <2>1, <2>2
<1>13. \A l \in LinesOf(c) : (MessagesOf(c)')[l] = MessagesOf(c)[l]
  <2> TAKE l \in LinesOf(c)
  <2>1. PICK m \in RecordedBy(c) : l = LineOf(m)
    BY DEF LinesOf
  <2>. QED  BY <1>11, <1>12, <2>1
<1>14. DOMAIN MessagesOf(c) = LinesOf(c)
  BY <1>11
<1>15. MessagesOf(c)' = [x \in DOMAIN MessagesOf(c) \cup {row} |->
                            IF x = row THEN 0 ELSE MessagesOf(c)[x]]
  BY <1>12, <1>13, <1>14
<1>16. /\ StateOf(c) = "sending" /\ StateOf(c)' = "sending"
       /\ CurrentOf(c) = NULL /\ CurrentOf(c)' = row
       /\ call'[c].rows = call[c].rows
  <2>1. Sends(c)
    BY <1>2 DEF Progress, Placed
  <2>. QED  BY <1>2, <1>3, <1>4, <2>1 DEF StateOf, CurrentOf, Sends
<1>17. Promise!Record(c)
  BY <1>7, <1>10, <1>14, <1>15, <1>16, Records
<1>. QED  BY <1>17 DEF Promise!Next

LEMMA MessageSentView ==
    ASSUME PInv, PInv', NEW c \in Call, MessageSent(c)
    PROVE  [Promise!Next]_Promise!vars
<1>1. /\ call \in [Call -> CallState] /\ call[c] \in CallState /\ Sends(c)
      /\ call[c].pc = "send" /\ UNCHANGED origin
      /\ delivered' = [delivered EXCEPT ![call[c].notification] = @ + 1]
  BY CallTypes DEF MessageSent, Progress, Placed
<1>2. call'[c] = [call[c] EXCEPT !.pc = "loop"] /\ \A k \in Call : k # c => call'[k] = call[k]
  BY <1>1 DEF MessageSent
<1>3. call'[c].pc = "loop" /\ call'[c].req = call[c].req /\ call'[c].rows = call[c].rows
  BY <1>1, <1>2 DEF CallState
<1>4. Others(c) /\ CurrentOf(c) # NULL /\ Arriving(c)
  BY <1>1, <1>2, MessageView
<1>5. StateOf(c) = "sending" /\ StateOf(c)' = "sending" /\ CurrentOf(c)' = NULL
  BY <1>1, <1>3 DEF StateOf, CurrentOf, Sends
<1>6. Promise!Message(c)
  BY <1>3, <1>4, <1>5, Messages
<1>. QED  BY <1>6 DEF Promise!Next

LEMMA AttemptFailsView ==
    ASSUME PInv, PInv', NEW c \in Call, AttemptFails(c)
    PROVE  [Promise!Next]_Promise!vars
<1> DEFINE t == call[c].tries + 1
           p == IF t = Tries THEN "reply" ELSE "send"
           r == IF t = Tries THEN "ServerError" ELSE call[c].resp
           s == [call[c] EXCEPT !.tries = t, !.pc = p, !.resp = r]
<1>1. /\ call \in [Call -> CallState] /\ call[c] \in CallState /\ Sends(c)
      /\ call[c].pc = "send" /\ UNCHANGED origin
  BY CallTypes DEF AttemptFails, Progress, Placed
<1>2. PICK reached \in {0, 1} :
        delivered' = [delivered EXCEPT ![call[c].notification] = @ + reached]
  BY DEF AttemptFails
<1>3. call'[c] = s /\ \A k \in Call : k # c => call'[k] = call[k]
  BY <1>1 DEF AttemptFails
<1>4. (p = "reply" /\ r = "ServerError") \/ (p = "send" /\ r = call[c].resp)
  OBVIOUS
<1> HIDE DEF t, p, r
<1>5. /\ s.pc = p /\ s.resp = r /\ s.req = call[c].req /\ s.rows = call[c].rows
      /\ s.row = call[c].row
  BY <1>1 DEF CallState
<1> HIDE DEF s
<1>6. /\ Others(c) /\ CurrentOf(c) # NULL
      /\ MessagesOf(c)' = MessagesOf(c) \/ Arriving(c)
  BY <1>1, <1>2, <1>3, MessageView
<1>7. StateOf(c) = "sending" /\ call'[c].rows = call[c].rows
  BY <1>1, <1>3, <1>5 DEF StateOf
<1>8. CASE p = "reply" /\ r = "ServerError"
  <2>1. StateOf(c)' = "Failed" /\ CurrentOf(c)' = NULL
    BY <1>1, <1>3, <1>5, <1>8 DEF StateOf, CurrentOf, Sends
  <2>2. Promise!Fail(c)
    BY <1>6, <1>7, <2>1, Fails
  <2>. QED  BY <2>2 DEF Promise!Next
<1>9. CASE p = "send" /\ r = call[c].resp
  <2>1. StateOf(c)' = "sending" /\ CurrentOf(c)' = CurrentOf(c)
    BY <1>1, <1>3, <1>5, <1>9 DEF StateOf, CurrentOf, Sends
  <2>2. CASE Arriving(c)
    <3>1. Promise!Message(c)
      BY <1>6, <1>7, <2>1, <2>2, Messages
    <3>. QED  BY <3>1 DEF Promise!Next
  <2>3. CASE MessagesOf(c)' = MessagesOf(c)
    <3>1. SameView(c)
      BY <1>7, <2>1, <2>3, ViewUnfolds
    <3>. QED  BY <1>6, <3>1, Stutters DEF Others
  <2>. QED  BY <1>6, <2>2, <2>3
<1>. QED  BY <1>4, <1>8, <1>9

LEMMA EndView ==
    ASSUME PInv, PInv', NEW c \in Call,
           RecordFails(c) \/ MessageRefused(c) \/ FinishBatch(c)
    PROVE  [Promise!Next]_Promise!vars
<1>1. /\ UNCHANGED <<origin, delivered>> /\ call[c].pc \in Early \cup Sending
      /\ Answer(c, "ServerError") \/ (Answer(c, "Ok") /\ call[c].pc = "loop")
  BY DEF RecordFails, MessageRefused, FinishBatch, Sending
<1>. QED  BY <1>1, AnswerView DEF Response

\* Ok takes effect when it leaves.
LEMMA ReplyView ==
    ASSUME PInv, PInv', NEW c \in Call, Reply(c)
    PROVE  [Promise!Next]_Promise!vars
<1>1. /\ call \in [Call -> CallState] /\ call[c] \in CallState /\ Progress(c)
      /\ call[c].pc = "reply" /\ UNCHANGED <<origin, delivered>>
  BY CallTypes DEF Reply
<1>2. call'[c] = [call[c] EXCEPT !.pc = "done"] /\ \A k \in Call : k # c => call'[k] = call[k]
  BY <1>1 DEF Reply
<1>3. /\ call'[c].pc = "done" /\ call'[c].req = call[c].req /\ call'[c].rows = call[c].rows
      /\ call'[c].resp = call[c].resp
  BY <1>1, <1>2 DEF CallState
<1>4. Others(c) /\ MessagesOf(c)' = MessagesOf(c)
  BY <1>1, <1>2, QuietView
<1>5. CurrentOf(c) = NULL /\ CurrentOf(c)' = NULL
  BY <1>1, <1>3 DEF CurrentOf
<1>6. CASE Sends(c) /\ call[c].resp = "Ok"
  <2>1. StateOf(c) = "sending" /\ StateOf(c)' = "Ok"
    BY <1>1, <1>3, <1>6 DEF StateOf, Sends
  <2>2. DOMAIN MessagesOf(c) = call[c].rows
    <3>1. DOMAIN MessagesOf(c) = LinesOf(c)
      BY MessagesAre
    <3>2. LinesOf(c) = call[c].rows
      BY <1>1, <1>6 DEF Progress, Recorded, LinesOf
    <3>. QED  BY <3>1, <3>2
  <2>3. Promise!Finish(c)
    BY <1>3, <1>4, <1>5, <2>1, <2>2, Finishes
  <2>. QED  BY <2>3 DEF Promise!Next
<1>7. CASE ~(Sends(c) /\ call[c].resp = "Ok")
  <2>1. StateOf(c)' = StateOf(c)
    BY <1>1, <1>3, <1>7 DEF StateOf, Sends
  <2>2. SameView(c)
    BY <1>3, <1>4, <1>5, <2>1, ViewUnfolds
  <2>. QED  BY <1>4, <2>2, Stutters DEF Others
<1>. QED  BY <1>6, <1>7

LEMMA AbortView ==
    ASSUME PInv, PInv', NEW c \in Call, Abort(c)
    PROVE  [Promise!Next]_Promise!vars
<1> DEFINE s == [call[c] EXCEPT !.pc = "done", !.resp = "Aborted"]
<1>1. /\ call \in [Call -> CallState] /\ call[c] \in CallState /\ Progress(c)
      /\ UNCHANGED origin
  BY CallTypes DEF Abort
<1>2. call'[c] = s /\ \A k \in Call : k # c => call'[k] = call[k]
  BY <1>1 DEF Abort
<1>3. s.pc = "done" /\ s.resp = "Aborted" /\ s.req = call[c].req /\ s.rows = call[c].rows
  BY <1>1 DEF CallState
<1> HIDE DEF s
<1>4. /\ Others(c)
      /\ \/ MessagesOf(c)' = MessagesOf(c)
         \/ CurrentOf(c) # NULL /\ Arriving(c) /\ call[c].pc = "send"
  <2>1. CASE UNCHANGED delivered
    BY <1>1, <1>2, <2>1, QuietView
  <2>2. ASSUME call[c].pc = "send", NEW reached \in {0, 1},
               delivered' = [delivered EXCEPT ![call[c].notification] = @ + reached]
        PROVE  /\ Others(c)
               /\ \/ MessagesOf(c)' = MessagesOf(c)
                  \/ CurrentOf(c) # NULL /\ Arriving(c) /\ call[c].pc = "send"
    BY <1>1, <1>2, <2>2, MessageView
  <2>. QED  BY <2>1, <2>2 DEF Abort
<1>5. CurrentOf(c)' = NULL /\ call'[c].rows = call[c].rows /\ (Sends(c)' <=> Sends(c))
  BY <1>2, <1>3 DEF CurrentOf, Sends
<1>6. StateOf(c) \in {"waiting", "sending", "Failed"}
  BY DEF StateOf, Abort
<1>7. CASE Sends(c) /\ StateOf(c) # "Failed"
  <2>1. StateOf(c)' = "Failed"
    BY <1>2, <1>3, <1>5, <1>7 DEF StateOf
  <2>2. Promise!Fail(c)
    BY <1>4, <1>5, <1>6, <1>7, <2>1, Fails
  <2>. QED  BY <2>2 DEF Promise!Next
<1>8. CASE ~Sends(c) \/ StateOf(c) = "Failed"
  <2>1. call[c].pc # "send"
    BY <1>1, <1>8 DEF StateOf, Progress, Placed
  <2>2. StateOf(c)' = StateOf(c)
    BY <1>2, <1>3, <1>5, <1>8 DEF StateOf
  <2>3. SameView(c)
    BY <1>4, <1>5, <2>1, <2>2, ViewUnfolds DEF CurrentOf
  <2>. QED  BY <1>4, <2>3, Stutters DEF Others
<1>. QED  BY <1>7, <1>8

-----------------------------------------------------------------------------
(* The theorem.                                                            *)

LEMMA InitImplements == Init => Promise!Init
<1> SUFFICES ASSUME Init
             PROVE  Promise!Init
  OBVIOUS
<1>1. \A k \in Call : /\ call[k] = Idle /\ StateOf(k) = "waiting" /\ CurrentOf(k) = NULL
                      /\ call[k].rows = {} /\ RecordedBy(k) = {}
  BY DEF Init, Idle, NoRequest, StateOf, Sends, CurrentOf, RecordedBy
<1>2. \A k \in Call : MessagesOf(k) = [l \in {} |-> 0]
  BY <1>1 DEF MessagesOf
<1>. QED  BY <1>1, <1>2 DEF Promise!Init

LEMMA NextImplements == PInv /\ PInv' /\ [Next]_vars => [Promise!Next]_Promise!vars
<1> SUFFICES ASSUME PInv, PInv', [Next]_vars
             PROVE  [Promise!Next]_Promise!vars
  OBVIOUS
<1>1. CASE UNCHANGED <<call, origin, delivered>>
  <2>1. \A k \in Call : SameView(k)
    <3> TAKE k \in Call
    <3>1. Kept(k)
      BY <1>1 DEF Kept, RecordedBy
    <3>. QED  BY <1>1, <3>1, UntouchedView
  <2>. QED  BY <2>1, Stutters
<1>2. ASSUME NEW c \in Call, Receive(c) \/ Step(c) \/ Abort(c)
      PROVE  [Promise!Next]_Promise!vars
  BY <1>2, ReceiveView, VerifyView, OneStatementView, CheckAndMarkView, SelectRowsView,
     RecordNotificationView, MessageSentView, AttemptFailsView, EndView, ReplyView,
     AbortView DEF Step
<1>3. OtherComponents => UNCHANGED <<call, origin, delivered>>
  BY DEF OtherComponents, EditAccount, EditTemplate, EditRecipient, EditGroup,
         EditMember, EditContact, Edit
<1>. QED  BY <1>1, <1>2, <1>3 DEF Next, AllDone, vars

\* SendBatch, whatever runs beside it and whatever fails, does what Delivery
\* says.
THEOREM SendBatchDelivers == Spec => DeliversLines
<1>1. Spec => Promise!Init /\ [][Promise!Next]_Promise!vars
  BY InitImplements, NextImplements, ProgressAlways, PTL DEF Spec
<1>. QED  BY <1>1 DEF DeliversLines, Promise!Spec
=============================================================================
