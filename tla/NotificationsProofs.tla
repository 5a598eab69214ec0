------------------------- MODULE NotificationsProofs -------------------------
(***************************************************************************)
(* Type correctness and the safety of the shared tables, for any number of *)
(* calls, users, rows, attempts and statements of other components.        *)
(*                                                                         *)
(* None of the invariants is inductive alone.  StoreConsistent depends on  *)
(* what a SendBatch still holds from its reads (CarriedStateIsSafe), that  *)
(* depends on ids never coming back (Keys(db) \subseteq issued, in TypeOK) *)
(* and on batches with notifications being marked, and                     *)
(* UnsentMeansUntouched depends on the mark staying where it is.           *)
(***************************************************************************)
EXTENDS Notifications, EnsStoreProofs

\* The batches of the recorded notifications were issued once.
OriginsIssued == \A n \in DOMAIN origin : origin[n].batch \in issued

IInv ==
    /\ TypeOK
    /\ StoreInvariant(db)
    /\ CarriedStateIsSafe
    /\ UnsentMeansUntouched
    /\ OriginsIssued

\* Where a SendBatch holds something it has read.
Carrying == {"mark", "info", "loop", "send"}
Sending == {"loop", "send"}

\* The part of CarriedStateIsSafe that is about one call.
Safe(k) ==
    call[k].pc \in Carrying =>
        LET u == call[k].req.user
            b == call[k].req.arg
        IN  /\ b \in issued
            /\ b \in DOMAIN db.batch =>
                /\ db.batch[b].master = u
                /\ call[k].pc # "mark" => db.batch[b].sent
            /\ call[k].pc \in Sending => \A row \in call[k].todo :
                /\ row.recipient \in issued /\ row.group \in issued
                /\ row.recipient \in DOMAIN db.recipient
                        => db.recipient[row.recipient].master = u
                /\ row.group \in DOMAIN db.group => db.group[row.group].master = u

\* A step in which call k takes up nothing new.
Continues(k) ==
    call'[k].pc \in Carrying =>
        /\ call[k].pc \in Carrying
        /\ call'[k].pc # "mark" => call[k].pc # "mark"
        /\ call'[k].req = call[k].req
        /\ call'[k].pc \in Sending =>
            call[k].pc \in Sending /\ call'[k].todo \subseteq call[k].todo

LEMMA CarriedSafe == CarriedStateIsSafe <=> \A k \in Call : Safe(k)
  BY DEF CarriedStateIsSafe, Safe, Carrying, Sending

\* What a call has read stays safe however the rows of old ids evolve.
LEMMA StillSafe ==
    ASSUME CarriedStateIsSafe, Evolves(db, db', issued), issued \subseteq issued',
           NEW k \in Call, Continues(k)
    PROVE  Safe(k)'
<1>1. Safe(k)
  BY CarriedSafe
<1>. QED  BY <1>1 DEF Safe, Continues, Evolves

\* Every step but the one that records a notification.
LEMMA EvolvingStep ==
    ASSUME IInv,
           StoreInvariant(db'), Evolves(db, db', issued), Keys(db') \subseteq issued',
           issued \subseteq issued',
           call' \in [Call -> CallState], edits' \in 0 .. MaxEdits,
           delivered' \in [Notification -> Nat], UNCHANGED origin,
           \A k \in Call : Continues(k) \/ Safe(k)'
    PROVE  IInv'
<1>1. TypeOK'
  BY DEF IInv, TypeOK, StoreInvariant
<1>2. CarriedStateIsSafe'
  <2>1. \A k \in Call : Safe(k)'
    BY StillSafe DEF IInv
  <2>. QED  BY <2>1 DEF CarriedStateIsSafe, Safe, Carrying, Sending
<1>3. OriginsIssued'
  BY DEF IInv, OriginsIssued
<1>4. UnsentMeansUntouched'
  <2> SUFFICES ASSUME NEW b \in DOMAIN db'.batch, ~db'.batch[b].sent
               PROVE  /\ \A n \in DOMAIN origin : origin[n].batch # b
                      /\ \A n \in DOMAIN db'.notification : db'.notification[n].batch # b
    BY DEF UnsentMeansUntouched
  <2>1. \A n \in DOMAIN origin : origin[n].batch # b
    BY DEF IInv, OriginsIssued, UnsentMeansUntouched, Evolves
  <2>2. \A n \in DOMAIN db'.notification : db'.notification[n].batch # b
    BY DEF StoreInvariant, NotifiedBatchesAreSent
  <2>. QED  BY <2>1, <2>2
<1>. QED  BY <1>1, <1>2, <1>3, <1>4 DEF IInv, StoreInvariant

\* A step of call c that reads and writes its own state only.
LEMMA LocalStep ==
    ASSUME IInv, NEW c \in Call, NEW s \in CallState, call' = [call EXCEPT ![c] = s],
           UNCHANGED <<db, issued, edits, origin>>,
           delivered' \in [Notification -> Nat],
           Continues(c) \/ Safe(c)'
    PROVE  IInv'
<1>1. /\ call' \in [Call -> CallState]
      /\ \A k \in Call : k # c => call'[k] = call[k]
  BY DEF IInv, TypeOK
<1>2. \A k \in Call : Continues(k) \/ Safe(k)'
  BY <1>1 DEF Continues
<1>3. StoreInvariant(db') /\ Evolves(db, db', issued) /\ Keys(db') \subseteq issued'
  BY DEF IInv, TypeOK, Evolves
<1>. QED  BY <1>1, <1>2, <1>3, EvolvingStep DEF IInv, TypeOK

-----------------------------------------------------------------------------
(* The steps of a call.                                                    *)

\* EXCEPT on the state of one call.
LEMMA CallUpdate ==
    ASSUME call \in [Call -> CallState], NEW c \in Call
    PROVE  /\ \A p \in PC : [call[c] EXCEPT !.pc = p] \in CallState
           /\ \A p \in PC, r \in Response : [call[c] EXCEPT !.pc = p, !.resp = r] \in CallState
           /\ \A p \in PC, q \in Request : [call[c] EXCEPT !.pc = p, !.req = q] \in CallState
  BY DEF CallState

\* An answer leaves nothing to be carried on.
LEMMA AnsweredState ==
    ASSUME IInv, NEW c \in Call, NEW r \in Response, Answer(c, r)
    PROVE  /\ [call[c] EXCEPT !.pc = "reply", !.resp = r] \in CallState
           /\ call' = [call EXCEPT ![c] = [call[c] EXCEPT !.pc = "reply", !.resp = r]]
           /\ Continues(c)
<1> DEFINE s == [call[c] EXCEPT !.pc = "reply", !.resp = r]
<1>1. call \in [Call -> CallState] /\ "reply" \in PC
  BY DEF IInv, TypeOK, PC
<1>2. s \in CallState
  BY <1>1, CallUpdate
<1>3. call' = [call EXCEPT ![c] = s] /\ call'[c] = s
  BY <1>1 DEF Answer
<1>4. s.pc = "reply"
  BY <1>1 DEF CallState
<1>5. Continues(c)
  BY <1>3, <1>4 DEF Continues, Carrying, Sending
<1>. QED  BY <1>2, <1>3, <1>5

LEMMA AnswerPreserves ==
    ASSUME IInv, NEW c \in Call, NEW r \in Response, Answer(c, r),
           UNCHANGED <<db, issued, edits, origin>>, delivered' \in [Notification -> Nat]
    PROVE  IInv'
  BY AnsweredState, LocalStep

\* A step that only moves to another place.
LEMMA MovePreserves ==
    ASSUME IInv, NEW c \in Call, NEW p \in PC, call' = [call EXCEPT ![c].pc = p],
           UNCHANGED <<db, issued, edits, origin>>, delivered' \in [Notification -> Nat],
           p \in Carrying => Safe(c)' \/ (call[c].pc \in Sending /\ p \in Sending)
    PROVE  IInv'
<1> DEFINE s == [call[c] EXCEPT !.pc = p]
<1>1. s \in CallState /\ s.pc = p /\ s.req = call[c].req /\ s.todo = call[c].todo
  BY CallUpdate DEF IInv, TypeOK, CallState
<1>2. call' = [call EXCEPT ![c] = s]
  OBVIOUS
<1>3. call'[c] = s
  BY <1>2 DEF IInv, TypeOK
<1> HIDE DEF s
<1>4. Continues(c) \/ Safe(c)'
  BY <1>1, <1>3 DEF Continues, Carrying, Sending
<1>. QED  BY <1>1, <1>2, <1>4, LocalStep

\* The attempts at sending a message count up, whatever else they do.
LEMMA DeliveredType ==
    ASSUME TypeOK, NEW n, NEW k \in Nat, delivered' = [delivered EXCEPT ![n] = @ + k]
    PROVE  delivered' \in [Notification -> Nat]
<1>1. delivered \in [Notification -> Nat]
  BY DEF TypeOK
<1>2. \A m \in Notification : delivered'[m] \in Nat
  BY <1>1
<1>. QED  BY <1>1, <1>2

LEMMA CheckBatchPreserves ==
    ASSUME IInv, NEW c \in Call, CheckBatch(c)
    PROVE  IInv'
<1> DEFINE b == call[c].req.arg
           u == call[c].req.user
<1>1. delivered' \in [Notification -> Nat]
  BY DEF CheckBatch, IInv, TypeOK
<1>2. CASE b \in Owned(db.batch, u) /\ ~db.batch[b].sent
  <2>1. call' = [call EXCEPT ![c].pc = "mark"]
    BY <1>2 DEF CheckBatch
  <2>2. /\ call[c] \in CallState
        /\ b \in DOMAIN db.batch /\ db.batch[b].master = u
        /\ b \in issued
    BY <1>2 DEF CheckBatch, IInv, TypeOK, Owned, Keys
  <2>3. call'[c] = [call[c] EXCEPT !.pc = "mark"]
    BY <2>1 DEF IInv, TypeOK
  <2>4. call'[c].pc = "mark" /\ call'[c].req = call[c].req
    BY <2>2, <2>3 DEF CallState
  <2>5. Safe(c)'
    BY <2>2, <2>4 DEF CheckBatch, Safe, Sending
  <2>. QED  BY <1>1, <2>1, <2>5, MovePreserves DEF CheckBatch, PC
<1>3. CASE ~(b \in Owned(db.batch, u) /\ ~db.batch[b].sent)
  <2>1. Answer(c, "NotFound")
    BY <1>3 DEF CheckBatch
  <2>. QED  BY <1>1, <2>1, AnswerPreserves DEF CheckBatch, Response
<1>. QED  BY <1>2, <1>3

LEMMA ReceivePreserves ==
    ASSUME IInv, NEW c \in Call, Receive(c)
    PROVE  IInv'
<1>1. PICK q \in Requests : call' = [call EXCEPT ![c].pc = "verify", ![c].req = q]
  BY DEF Receive
<1> DEFINE s == [call[c] EXCEPT !.pc = "verify", !.req = q]
<1>2. call \in [Call -> CallState] /\ "verify" \in PC /\ q \in Request
  BY RequestsAssumption DEF IInv, TypeOK, PC
<1>3. s \in CallState /\ call' = [call EXCEPT ![c] = s] /\ call'[c] = s
  BY <1>1, <1>2, CallUpdate
<1>4. s.pc = "verify"
  BY <1>2 DEF CallState
<1>5. Continues(c)
  BY <1>3, <1>4 DEF Continues, Carrying, Sending
<1>6. delivered' \in [Notification -> Nat]
  BY DEF Receive, IInv, TypeOK
<1> HIDE DEF s
<1>. QED  BY <1>3, <1>5, <1>6, LocalStep DEF Receive

LEMMA VerifyJWTPreserves ==
    ASSUME IInv, NEW c \in Call, BadArgument(c) \/ VerifyJWT(c)
    PROVE  IInv'
<1>1. delivered' \in [Notification -> Nat] /\ UNCHANGED <<db, issued, edits, origin>>
  BY DEF BadArgument, VerifyJWT, IInv, TypeOK
<1>2. CASE \E r \in Response : Answer(c, r)
  BY <1>1, <1>2, AnswerPreserves
<1>3. CASE call' = [call EXCEPT ![c].pc = FirstStep(call[c].req.op)]
  <2>1. FirstStep(call[c].req.op) \in PC \ Carrying
    BY DEF FirstStep, PC, Carrying
  <2>. QED  BY <1>1, <1>3, <2>1, MovePreserves
<1>4. \/ Answer(c, "NotFound") \/ Answer(c, "Unauthorized") \/ Answer(c, "ServerError")
      \/ call' = [call EXCEPT ![c].pc = FirstStep(call[c].req.op)]
  BY DEF BadArgument, VerifyJWT
<1>. QED  BY <1>2, <1>3, <1>4 DEF Response

LEMMA ReadNotificationsPreserves ==
    ASSUME IInv, NEW c \in Call, ReadNotifications(c)
    PROVE  IInv'
<1>1. delivered' \in [Notification -> Nat] /\ UNCHANGED <<db, issued, edits, origin>>
  BY DEF ReadNotifications, IInv, TypeOK
<1>2. \A rows : ReadResponse(rows) \in Response
  BY DEF ReadResponse, Response
<1>3. \E r \in Response : Answer(c, r)
  BY <1>2 DEF ReadNotifications, Response
<1>. QED  BY <1>1, <1>3, AnswerPreserves

\* The same with a change of the store.
LEMMA StoreStep ==
    ASSUME IInv, NEW c \in Call, NEW s \in CallState, call' = [call EXCEPT ![c] = s],
           StoreInvariant(db'), Evolves(db, db', issued), Keys(db') \subseteq issued',
           issued \subseteq issued', UNCHANGED <<edits, origin, delivered>>,
           Continues(c) \/ Safe(c)'
    PROVE  IInv'
<1>1. /\ call' \in [Call -> CallState]
      /\ \A k \in Call : k # c => call'[k] = call[k]
  BY DEF IInv, TypeOK
<1>2. \A k \in Call : Continues(k) \/ Safe(k)'
  BY <1>1 DEF Continues
<1>3. delivered' \in [Notification -> Nat] /\ edits' \in 0 .. MaxEdits
  BY DEF IInv, TypeOK
<1>. QED  BY <1>1, <1>2, <1>3, EvolvingStep

\* An id that is left is one that was never issued.
LEMMA NewIdIsNew ==
    ASSUME NEW S, S \ issued # {}
    PROVE  NewId(S) \in S \ issued
  BY DEF NewId

LEMMA CreateBatchPreserves ==
    ASSUME IInv, NEW c \in Call, CreateBatch(c)
    PROVE  IInv'
<1> DEFINE u == call[c].req.user
<1>1. CASE u \in DOMAIN db.user
  <2>1. Answer(c, "Ok") /\ "Ok" \in Response
    BY <1>1 DEF CreateBatch, Response
  <2>2. PICK b \in Batch \ issued :
            db' = InsertBatch(db, b, u) /\ issued' = issued \cup {b}
    BY <1>1, NewIdIsNew DEF CreateBatch
  <2>3. StoreInvariant(db') /\ Evolves(db, db', issued) /\ Keys(db') \subseteq issued'
    BY <1>1, <2>2, InsertBatchPreserves DEF IInv, TypeOK
  <2>. QED  BY <2>1, <2>2, <2>3, AnsweredState, StoreStep DEF CreateBatch
<1>2. CASE u \notin DOMAIN db.user
  <2>1. Answer(c, "ServerError") /\ "ServerError" \in Response
    BY <1>2 DEF CreateBatch, Response
  <2>2. /\ UNCHANGED <<db, issued, edits, origin>>
        /\ delivered' \in [Notification -> Nat]
    BY <1>2 DEF CreateBatch, IInv, TypeOK
  <2>. QED  BY <2>1, <2>2, AnswerPreserves
<1>. QED  BY <1>1, <1>2

LEMMA CancelNotificationPreserves ==
    ASSUME IInv, NEW c \in Call, CancelNotification(c)
    PROVE  IInv'
<1>1. CASE db' = DeleteNotification(db, call[c].req.arg) /\ Answer(c, "Ok")
  <2>1. "Ok" \in Response /\ issued' = issued
    BY DEF CancelNotification, Response
  <2>2. StoreInvariant(db') /\ Evolves(db, db', issued) /\ Keys(db') \subseteq issued'
    BY <1>1, <2>1, DeleteNotificationPreserves DEF IInv, TypeOK
  <2>. QED  BY <1>1, <2>1, <2>2, AnsweredState, StoreStep DEF CancelNotification
<1>2. CASE db' = db /\ Answer(c, "NotFound")
  <2>1. "NotFound" \in Response /\ delivered' \in [Notification -> Nat]
    BY DEF CancelNotification, Response, IInv, TypeOK
  <2>. QED  BY <1>2, <2>1, AnswerPreserves DEF CancelNotification
<1>. QED  BY <1>1, <1>2 DEF CancelNotification

LEMMA MarkBatchPreserves ==
    ASSUME IInv, NEW c \in Call, MarkBatch(c)
    PROVE  IInv'
<1> DEFINE b == call[c].req.arg
           u == call[c].req.user
           s == [call[c] EXCEPT !.pc = "info"]
<1>1. /\ call \in [Call -> CallState] /\ "info" \in PC
      /\ call' = [call EXCEPT ![c] = s] /\ db' = SetBatchSent(db, u, b)
      /\ call[c].pc = "mark"
      /\ UNCHANGED <<issued, edits, origin, delivered>>
  BY DEF MarkBatch, IInv, TypeOK, PC
<1>2. s \in CallState /\ call'[c] = s
  BY <1>1, CallUpdate
<1>3. s.pc = "info" /\ s.req = call[c].req
  BY <1>1 DEF CallState
<1> HIDE DEF s
<1>4. /\ StoreInvariant(db') /\ Evolves(db, db', issued) /\ Keys(db') \subseteq issued'
      /\ b \in DOMAIN db'.batch /\ db'.batch[b].master = u => db'.batch[b].sent
  BY <1>1, SetBatchSentPreserves DEF IInv, TypeOK
<1>5. b \in issued /\ (b \in DOMAIN db.batch => db.batch[b].master = u)
  BY <1>1, CarriedSafe DEF IInv, Safe, Carrying
<1>6. b \in DOMAIN db'.batch => db'.batch[b].master = u /\ db'.batch[b].sent
  BY <1>4, <1>5 DEF Evolves
<1>7. Safe(c)'
  BY <1>1, <1>2, <1>3, <1>5, <1>6 DEF Safe, Sending
<1>. QED  BY <1>1, <1>2, <1>4, <1>7, StoreStep

\* The lines SendBatch goes through name recipients and groups of its user.
LEMMA SendableRows ==
    ASSUME NEW d, StoreInvariant(d), NEW u, NEW row \in Sendable(d, u)
    PROVE  /\ row \in Row
           /\ row.recipient \in DOMAIN d.recipient /\ d.recipient[row.recipient].master = u
           /\ row.group \in DOMAIN d.group /\ d.group[row.group].master = u
<1>1. d \in Store
  BY IsStoreDef DEF StoreInvariant
<1>2. PICK m \in d.member :
        /\ m[2] \in Owned(d.group, u)
        /\ d.group[m[2]].template # NULL
        /\ Subscribed(d, d.recipient[m[1]].chat)
        /\ d.template[d.group[m[2]].template].text # NULL
        /\ row = [group |-> m[2], recipient |-> m[1], chat |-> d.recipient[m[1]].chat,
                  text |-> d.template[d.group[m[2]].template].text]
  BY DEF Sendable
<1>3. /\ m[1] \in DOMAIN d.recipient
      /\ m[2] \in DOMAIN d.group
      /\ d.group[m[2]].master = u
      /\ d.recipient[m[1]].master = u
      /\ d.group[m[2]].template \in DOMAIN d.template
  BY <1>2 DEF StoreInvariant, References, MembersShareMaster, Owned
<1>4. d.recipient[m[1]].chat \in Chat
  <2>1. d.contact \in Table(Chat, ContactRow)
    BY <1>1, StoreTables
  <2>2. DOMAIN d.contact \subseteq Chat
    BY <2>1, TableDef
  <2>. QED  BY <1>2, <2>2 DEF Subscribed
<1>5. d.template[d.group[m[2]].template].text \in Text
  BY <1>1, <1>2, <1>3, StoreRows DEF TemplateRow
<1>6. m[1] \in Recipient /\ m[2] \in Group
  BY <1>1, <1>3, StoreRows
<1>7. row \in Row
  BY <1>2, <1>4, <1>5, <1>6 DEF Row
<1>. QED  BY <1>2, <1>3, <1>7

LEMMA SelectRowsPreserves ==
    ASSUME IInv, NEW c \in Call, SelectRows(c)
    PROVE  IInv'
<1> DEFINE u == call[c].req.user
           rows == Sendable(db, u)
           s == [call[c] EXCEPT !.pc = "loop", !.rows = rows, !.todo = rows]
<1>1. /\ call \in [Call -> CallState]
      /\ call' = [call EXCEPT ![c] = s] /\ call[c].pc = "info"
      /\ UNCHANGED <<db, issued, edits, origin, delivered>>
      /\ delivered' \in [Notification -> Nat]
  BY DEF SelectRows, IInv, TypeOK
<1>2. \A row \in rows :
        /\ row \in Row
        /\ row.recipient \in DOMAIN db.recipient /\ db.recipient[row.recipient].master = u
        /\ row.group \in DOMAIN db.group /\ db.group[row.group].master = u
  BY SendableRows DEF IInv
<1> HIDE DEF rows
<1>3. "loop" \in PC /\ rows \in SUBSET Row
  BY <1>2 DEF PC
<1>4. s \in CallState
  BY <1>1, <1>3 DEF CallState
<1>5. s.pc = "loop" /\ s.req = call[c].req /\ s.todo = rows
  BY <1>1 DEF CallState
<1>6. call'[c] = s
  BY <1>1
<1> HIDE DEF s
<1>7. Safe(c)
  BY CarriedSafe DEF IInv
<1>8. \A row \in rows : row.recipient \in issued /\ row.group \in issued
  BY <1>2 DEF IInv, TypeOK, Keys
<1>9. Safe(c)'
  BY <1>1, <1>2, <1>5, <1>6, <1>7, <1>8 DEF Safe, Carrying, Sending
<1>. QED  BY <1>1, <1>4, <1>9, LocalStep

LEMMA RecordNotificationPreserves ==
    ASSUME IInv, NEW c \in Call, RecordNotification(c)
    PROVE  IInv'
<1> DEFINE b == call[c].req.arg
           u == call[c].req.user
<1>1. PICK row \in call[c].todo, n \in Notification \ issued :
        /\ NotificationKeysExist(db, b, row.recipient, row.group)
        /\ db' = InsertNotification(db, n, b, row.recipient, row.group)
        /\ issued' = issued \cup {n}
        /\ origin' = With(origin, n, [call |-> c, batch |-> b, row |-> row])
        /\ call' = [call EXCEPT ![c] =
              [call[c] EXCEPT !.pc = "send", !.todo = @ \ {row}, !.row = row,
                        !.notification = n, !.tries = 0, !.ids = @ \cup {n}]]
  BY NewIdIsNew DEF RecordNotification
<1> DEFINE s == [call[c] EXCEPT !.pc = "send", !.todo = @ \ {row}, !.row = row,
                                !.notification = n, !.tries = 0, !.ids = @ \cup {n}]
<1>2. /\ call \in [Call -> CallState] /\ call' = [call EXCEPT ![c] = s]
      /\ call[c].pc = "loop" /\ UNCHANGED <<edits, delivered>>
  BY <1>1 DEF RecordNotification, IInv, TypeOK
<1>3. s \in CallState
  <2>1. call[c] \in CallState /\ row \in Row /\ "send" \in PC
    BY <1>1, <1>2 DEF CallState, PC
  <2>2. /\ call[c].todo \ {row} \in SUBSET Row
        /\ call[c].ids \cup {n} \in SUBSET Notification
    BY <2>1, <1>1 DEF CallState
  <2>. QED  BY <1>1, <2>1, <2>2 DEF CallState
<1>4. s.pc = "send" /\ s.req = call[c].req /\ s.todo \subseteq call[c].todo
  BY <1>2 DEF CallState
<1>5. call'[c] = s /\ call' \in [Call -> CallState] /\ \A k \in Call : k # c => call'[k] = call[k]
  BY <1>2, <1>3
<1> HIDE DEF s
<1>6. /\ b \in DOMAIN db.batch /\ db.batch[b].master = u /\ db.batch[b].sent
      /\ db.recipient[row.recipient].master = u
      /\ db.group[row.group].master = u
  <2>1. Safe(c)
    BY CarriedSafe DEF IInv
  <2>. QED  BY <1>1, <1>2, <2>1 DEF Safe, Carrying, Sending, NotificationKeysExist
<1>7. StoreInvariant(db') /\ Evolves(db, db', issued) /\ Keys(db') \subseteq issued'
  <2> DEFINE r == row.recipient
             g == row.group
  <2>1. StoreInvariant(db) /\ Keys(db) \subseteq issued /\ n \in Notification
    BY DEF IInv, TypeOK
  <2>2. /\ NotificationKeysExist(db, b, r, g) /\ db.batch[b].sent
        /\ db.recipient[r].master = db.batch[b].master
        /\ db.group[g].master = db.batch[b].master
        /\ db' = InsertNotification(db, n, b, r, g) /\ issued' = issued \cup {n}
    BY <1>1, <1>6
  <2> HIDE DEF b, r, g
  <2>. QED  BY <2>1, <2>2, InsertNotificationPreserves
<1>8. \A k \in Call : Continues(k)
  BY <1>2, <1>4, <1>5 DEF Continues, Carrying, Sending
<1>9. CarriedStateIsSafe'
  <2>1. \A k \in Call : Safe(k)'
    BY <1>1, <1>7, <1>8, StillSafe DEF IInv
  <2>. QED  BY <2>1 DEF CarriedStateIsSafe, Safe, Carrying, Sending
<1>10. IsTable(origin', Notification, Origin)
  <2>1. origin \in Table(Notification, Origin)
    BY IsTableDef DEF IInv, TypeOK
  <2>2. row \in Row /\ b \in Batch
    BY <1>1, <1>2, <1>6, IsStoreDef, StoreRows DEF CallState, IInv, StoreInvariant
  <2>3. [call |-> c, batch |-> b, row |-> row] \in Origin
    BY <2>2 DEF Origin
  <2>. QED  BY <1>1, <2>1, <2>3, WithTable, IsTableDef
<1>11. /\ DOMAIN origin' = DOMAIN origin \cup {n} /\ origin'[n].batch = b
       /\ \A m \in DOMAIN origin : m # n => origin'[m] = origin[m]
  BY <1>1 DEF With
<1>12. TypeOK'
  BY <1>1, <1>2, <1>5, <1>7, <1>10, <1>11 DEF IInv, TypeOK, StoreInvariant
<1>13. OriginsIssued'
  BY <1>1, <1>6, <1>11 DEF IInv, TypeOK, OriginsIssued, Keys
<1>14. UnsentMeansUntouched'
  <2> SUFFICES ASSUME NEW x \in DOMAIN db'.batch, ~db'.batch[x].sent
               PROVE  /\ \A m \in DOMAIN origin' : origin'[m].batch # x
                      /\ \A m \in DOMAIN db'.notification : db'.notification[m].batch # x
    BY DEF UnsentMeansUntouched
  <2>1. b \in issued /\ (b \in DOMAIN db'.batch => db'.batch[b].sent)
    BY <1>6, <1>7 DEF IInv, TypeOK, Keys, Evolves
  <2>2. \A m \in DOMAIN origin : origin[m].batch # x
    BY <1>7 DEF IInv, OriginsIssued, UnsentMeansUntouched, Evolves
  <2>3. \A m \in DOMAIN origin' : origin'[m].batch # x
    BY <1>11, <2>1, <2>2
  <2>4. \A m \in DOMAIN db'.notification : db'.notification[m].batch # x
    BY <1>7 DEF StoreInvariant, NotifiedBatchesAreSent
  <2>. QED  BY <2>3, <2>4
<1>. QED  BY <1>7, <1>9, <1>12, <1>13, <1>14 DEF IInv, StoreInvariant

\* A message that arrives, or may have.
LEMMA AttemptPreserves ==
    ASSUME IInv, NEW c \in Call, MessageSent(c) \/ AttemptFails(c)
    PROVE  IInv'
<1>1. /\ call \in [Call -> CallState] /\ call[c].pc = "send"
      /\ UNCHANGED <<db, issued, edits, origin>>
  BY DEF MessageSent, AttemptFails, IInv, TypeOK
<1>2. delivered' \in [Notification -> Nat]
  <2>1. PICK k \in {0, 1} :
            delivered' = [delivered EXCEPT ![call[c].notification] = @ + k]
    BY DEF MessageSent, AttemptFails
  <2>. QED  BY <2>1, DeliveredType DEF IInv
<1>3. CASE MessageSent(c)
  <2>1. call' = [call EXCEPT ![c].pc = "loop"] /\ "loop" \in PC
    BY <1>3 DEF MessageSent, PC
  <2>. QED  BY <1>1, <1>2, <2>1, MovePreserves DEF Sending
<1>4. CASE AttemptFails(c)
  <2> DEFINE k == call[c].tries + 1
             p == IF k = Tries THEN "reply" ELSE "send"
             r == IF k = Tries THEN "ServerError" ELSE call[c].resp
             s == [call[c] EXCEPT !.tries = k, !.pc = p, !.resp = r]
  <2>1. call' = [call EXCEPT ![c] = s]
    BY <1>1, <1>4 DEF AttemptFails
  <2>2. k \in Nat /\ p \in {"reply", "send"} /\ p \in PC /\ r \in Response
    BY <1>1 DEF PC, Response, CallState
  <2> HIDE DEF k, p, r
  <2>3. /\ s \in CallState /\ s.pc = p
        /\ s.req = call[c].req /\ s.todo = call[c].todo
    BY <1>1, <2>2 DEF CallState
  <2> HIDE DEF s
  <2>4. call'[c] = s
    BY <1>1, <2>1
  <2>5. Continues(c)
    BY <1>1, <2>2, <2>3, <2>4 DEF Continues, Carrying, Sending
  <2>. QED  BY <1>1, <1>2, <2>1, <2>3, <2>5, LocalStep
<1>. QED  BY <1>3, <1>4

LEMMA EndPreserves ==
    ASSUME IInv, NEW c \in Call,
           RecordFails(c) \/ MessageRefused(c) \/ FinishBatch(c) \/ Reply(c)
    PROVE  IInv'
<1>1. /\ UNCHANGED <<db, issued, edits, origin>>
      /\ delivered' \in [Notification -> Nat]
  BY DEF RecordFails, MessageRefused, FinishBatch, Reply, IInv, TypeOK
<1>2. CASE Answer(c, "ServerError") \/ Answer(c, "Ok")
  BY <1>1, <1>2, AnswerPreserves DEF Response
<1>3. CASE Reply(c)
  <2>1. call' = [call EXCEPT ![c].pc = "done"] /\ "done" \in PC \ Carrying
    BY <1>3 DEF Reply, PC, Carrying
  <2>. QED  BY <1>1, <2>1, MovePreserves
<1>. QED  BY <1>2, <1>3 DEF RecordFails, MessageRefused, FinishBatch

LEMMA AbortPreserves ==
    ASSUME IInv, NEW c \in Call, Abort(c)
    PROVE  IInv'
<1> DEFINE s == [call[c] EXCEPT !.pc = "done", !.resp = "Aborted"]
<1>1. /\ call \in [Call -> CallState] /\ "done" \in PC /\ "Aborted" \in Response
      /\ UNCHANGED <<db, issued, edits, origin>>
  BY DEF Abort, IInv, TypeOK, PC, Response
<1>2. delivered' \in [Notification -> Nat]
  <2>1. CASE UNCHANGED delivered
    BY <2>1 DEF IInv, TypeOK
  <2>2. CASE \E k \in {0, 1} :
            delivered' = [delivered EXCEPT ![call[c].notification] = @ + k]
    BY <2>2, DeliveredType DEF IInv
  <2>. QED  BY <2>1, <2>2 DEF Abort
<1>3. s \in CallState /\ call' = [call EXCEPT ![c] = s] /\ call'[c] = s
  BY <1>1, CallUpdate DEF Abort
<1>4. s.pc = "done"
  BY <1>1 DEF CallState
<1>5. Continues(c)
  BY <1>3, <1>4 DEF Continues, Carrying, Sending
<1> HIDE DEF s
<1>. QED  BY <1>1, <1>2, <1>3, <1>5, LocalStep

LEMMA StepPreserves ==
    ASSUME IInv, NEW c \in Call, Step(c)
    PROVE  IInv'
<1>1. CASE BadArgument(c) \/ VerifyJWT(c)
  BY <1>1, VerifyJWTPreserves
<1>2. CASE CreateBatch(c)
  BY <1>2, CreateBatchPreserves
<1>3. CASE CancelNotification(c)
  BY <1>3, CancelNotificationPreserves
<1>4. CASE ReadNotifications(c)
  BY <1>4, ReadNotificationsPreserves
<1>5. CASE CheckBatch(c)
  BY <1>5, CheckBatchPreserves
<1>6. CASE MarkBatch(c)
  BY <1>6, MarkBatchPreserves
<1>7. CASE SelectRows(c)
  BY <1>7, SelectRowsPreserves
<1>8. CASE RecordNotification(c)
  BY <1>8, RecordNotificationPreserves
<1>9. CASE MessageSent(c) \/ AttemptFails(c)
  BY <1>9, AttemptPreserves
<1>10. CASE RecordFails(c) \/ MessageRefused(c) \/ FinishBatch(c) \/ Reply(c)
  BY <1>10, EndPreserves
<1>. QED
  BY <1>1, <1>2, <1>3, <1>4, <1>5, <1>6, <1>7, <1>8, <1>9, <1>10 DEF Step

-----------------------------------------------------------------------------
(* The statements of the other components.                                 *)

LEMMA EditStep ==
    ASSUME IInv, Edit,
           StoreInvariant(db'), Evolves(db, db', issued), Keys(db') \subseteq issued',
           issued \subseteq issued'
    PROVE  IInv'
<1>1. /\ call' \in [Call -> CallState] /\ edits' \in 0 .. MaxEdits
      /\ delivered' \in [Notification -> Nat]
  BY BoundsAssumption DEF Edit, IInv, TypeOK
<1>2. \A k \in Call : Continues(k)
  BY DEF Edit, Continues
<1>. QED  BY <1>1, <1>2, EvolvingStep DEF Edit

LEMMA EditAccountPreserves ==
    ASSUME IInv, EditAccount
    PROVE  IInv'
<1>1. /\ StoreInvariant(db) /\ Keys(db) \subseteq issued
      /\ Edit
  BY DEF IInv, TypeOK, EditAccount
<1>2. CASE \E u \in User \ issued, name \in Name, password \in Password :
              db' = InsertUser(db, u, name, password) /\ issued' = issued \cup {u}
  <2>1. PICK u \in User \ issued, name \in Name, password \in Password :
              db' = InsertUser(db, u, name, password) /\ issued' = issued \cup {u}
    BY <1>2
  <2>2. StoreInvariant(db') /\ Evolves(db, db', issued) /\ Keys(db') \subseteq issued'
    BY <1>1, <2>1, InsertUserPreserves
  <2>. QED  BY <1>1, <2>1, <2>2, EditStep
<1>3. CASE (\E u \in DOMAIN db.user : db' = DeleteUser(db, u)) /\ issued' = issued
  <2>1. StoreInvariant(db') /\ Evolves(db, db', issued) /\ Keys(db') \subseteq issued'
    BY <1>1, <1>3, DeleteUserPreserves
  <2>. QED  BY <1>1, <1>3, <2>1, EditStep
<1>. QED  BY <1>2, <1>3, NewIdIsNew DEF EditAccount

LEMMA EditTemplatePreserves ==
    ASSUME IInv, EditTemplate
    PROVE  IInv'
<1>1. /\ StoreInvariant(db) /\ Keys(db) \subseteq issued
      /\ Edit
  BY DEF IInv, TypeOK, EditTemplate
<1>2. PICK u \in DOMAIN db.user, text \in Text \cup {NULL} :
        \/ /\ Template \ issued # {}
           /\ db' = InsertTemplate(db, NewId(Template), u, text)
           /\ issued' = issued \cup {NewId(Template)}
        \/ /\ \E t \in Owned(db.template, u) :
                db' = UpdateTemplate(db, t, text) \/ db' = DeleteTemplate(db, t)
           /\ UNCHANGED issued
  BY DEF EditTemplate
<1>3. CASE \E t \in Template \ issued :
              db' = InsertTemplate(db, t, u, text) /\ issued' = issued \cup {t}
  <2>1. StoreInvariant(db') /\ Evolves(db, db', issued) /\ Keys(db') \subseteq issued'
    BY <1>1, <1>3, InsertTemplatePreserves
  <2>. QED  BY <1>1, <1>3, <2>1, EditStep
<1>4. CASE /\ \E t \in DOMAIN db.template :
                 db' = UpdateTemplate(db, t, text) \/ db' = DeleteTemplate(db, t)
           /\ issued' = issued
  <2>1. StoreInvariant(db') /\ Evolves(db, db', issued) /\ Keys(db') \subseteq issued'
    BY <1>1, <1>4, UpdateTemplatePreserves, DeleteTemplatePreserves
  <2>. QED  BY <1>1, <1>4, <2>1, EditStep
<1>. QED  BY <1>2, <1>3, <1>4, NewIdIsNew DEF Owned

LEMMA EditRecipientPreserves ==
    ASSUME IInv, EditRecipient
    PROVE  IInv'
<1>1. /\ StoreInvariant(db) /\ Keys(db) \subseteq issued
      /\ Edit
  BY DEF IInv, TypeOK, EditRecipient
<1>2. PICK u \in DOMAIN db.user, chat \in Chat \cup {NULL} :
        \/ /\ Recipient \ issued # {}
           /\ db' = InsertRecipient(db, NewId(Recipient), u, chat)
           /\ issued' = issued \cup {NewId(Recipient)}
        \/ /\ \E r \in Owned(db.recipient, u) :
                db' = UpdateRecipient(db, r, chat) \/ db' = DeleteRecipient(db, r)
           /\ UNCHANGED issued
  BY DEF EditRecipient
<1>3. CASE \E r \in Recipient \ issued :
              db' = InsertRecipient(db, r, u, chat) /\ issued' = issued \cup {r}
  <2>1. StoreInvariant(db') /\ Evolves(db, db', issued) /\ Keys(db') \subseteq issued'
    BY <1>1, <1>3, InsertRecipientPreserves
  <2>. QED  BY <1>1, <1>3, <2>1, EditStep
<1>4. CASE /\ \E r \in DOMAIN db.recipient :
                 db' = UpdateRecipient(db, r, chat) \/ db' = DeleteRecipient(db, r)
           /\ issued' = issued
  <2>1. StoreInvariant(db') /\ Evolves(db, db', issued) /\ Keys(db') \subseteq issued'
    BY <1>1, <1>4, UpdateRecipientPreserves, DeleteRecipientPreserves
  <2>. QED  BY <1>1, <1>4, <2>1, EditStep
<1>. QED  BY <1>2, <1>3, <1>4, NewIdIsNew DEF Owned

LEMMA EditGroupPreserves ==
    ASSUME IInv, EditGroup
    PROVE  IInv'
<1>1. /\ StoreInvariant(db) /\ Keys(db) \subseteq issued
      /\ Edit
  BY DEF IInv, TypeOK, EditGroup
<1>2. PICK u \in DOMAIN db.user, active \in BOOLEAN,
           template \in DOMAIN db.template \cup {NULL} :
        \/ /\ Group \ issued # {}
           /\ db' = InsertGroup(db, NewId(Group), u, active, template)
           /\ issued' = issued \cup {NewId(Group)}
        \/ /\ \E g \in Owned(db.group, u) :
                db' = UpdateGroup(db, g, active, template) \/ db' = DeleteGroup(db, g)
           /\ UNCHANGED issued
  BY DEF EditGroup
<1>3. CASE \E g \in Group \ issued :
              db' = InsertGroup(db, g, u, active, template) /\ issued' = issued \cup {g}
  <2>1. PICK g \in Group \ issued :
              db' = InsertGroup(db, g, u, active, template) /\ issued' = issued \cup {g}
    BY <1>3
  <2>2. StoreInvariant(db') /\ Evolves(db, db', issued) /\ Keys(db') \subseteq issued'
    BY <1>1, <2>1, InsertGroupPreserves
  <2>. QED  BY <1>1, <2>1, <2>2, EditStep
<1>4. CASE /\ \E g \in DOMAIN db.group :
                 db' = UpdateGroup(db, g, active, template) \/ db' = DeleteGroup(db, g)
           /\ issued' = issued
  <2>1. PICK g \in DOMAIN db.group :
              db' = UpdateGroup(db, g, active, template) \/ db' = DeleteGroup(db, g)
    BY <1>4
  <2>2. CASE db' = UpdateGroup(db, g, active, template)
    BY <1>1, <1>4, <2>1, <2>2, UpdateGroupPreserves, EditStep
  <2>3. CASE db' = DeleteGroup(db, g)
    BY <1>1, <1>4, <2>3, DeleteGroupPreserves, EditStep
  <2>. QED  BY <2>1, <2>2, <2>3
<1>. QED  BY <1>2, <1>3, <1>4, NewIdIsNew DEF Owned

LEMMA EditMemberPreserves ==
    ASSUME IInv, EditMember
    PROVE  IInv'
<1>1. /\ StoreInvariant(db) /\ Keys(db) \subseteq issued
      /\ Edit /\ issued' = issued
  BY DEF IInv, TypeOK, EditMember
<1>2. PICK r \in DOMAIN db.recipient, g \in DOMAIN db.group :
        /\ db.recipient[r].master = db.group[g].master
        /\ db' = InsertMember(db, r, g) \/ db' = DeleteMember(db, r, g)
  BY DEF EditMember, Owned
<1>3. CASE db' = InsertMember(db, r, g)
  <2>1. StoreInvariant(db') /\ Evolves(db, db', issued) /\ Keys(db') \subseteq issued'
    BY <1>1, <1>2, <1>3, InsertMemberPreserves
  <2>. QED  BY <1>1, <2>1, EditStep
<1>4. CASE db' = DeleteMember(db, r, g)
  <2>1. StoreInvariant(db') /\ Evolves(db, db', issued) /\ Keys(db') \subseteq issued'
    BY <1>1, <1>4, DeleteMemberPreserves
  <2>. QED  BY <1>1, <2>1, EditStep
<1>. QED  BY <1>2, <1>3, <1>4

LEMMA EditContactPreserves ==
    ASSUME IInv, EditContact
    PROVE  IInv'
<1>1. /\ StoreInvariant(db) /\ Keys(db) \subseteq issued
      /\ Edit /\ issued' = issued
  BY DEF IInv, TypeOK, EditContact
<1>2. StoreInvariant(db') /\ Evolves(db, db', issued) /\ Keys(db') \subseteq issued'
  BY <1>1, SetContactPreserves DEF EditContact
<1>. QED  BY <1>1, <1>2, EditStep

-----------------------------------------------------------------------------
(* The theorems.                                                           *)

LEMMA InitIInv == Init => IInv
<1> SUFFICES ASSUME Init
             PROVE  IInv
  OBVIOUS
<1>1. StoreInvariant(db)
  BY InitialStoresAssumption DEF Init
<1>2. Idle \in CallState
  BY DEF Idle, CallState, PC, Response, NoRequest, Request, Ops
<1>3. TypeOK
  <2>1. IsTable(origin, Notification, Origin)
    BY DEF Init, IsTable
  <2>2. call \in [Call -> CallState] /\ delivered \in [Notification -> Nat]
    BY <1>2 DEF Init
  <2>. QED  BY <1>1, <2>1, <2>2, BoundsAssumption DEF Init, TypeOK, StoreInvariant
<1>4. CarriedStateIsSafe
  BY DEF Init, Idle, CarriedStateIsSafe
<1>5. UnsentMeansUntouched /\ OriginsIssued
  BY <1>1 DEF Init, UnsentMeansUntouched, OriginsIssued, StoreInvariant,
              NotifiedBatchesAreSent
<1>. QED  BY <1>1, <1>3, <1>4, <1>5 DEF IInv

LEMMA NextIInv == IInv /\ [Next]_vars => IInv'
<1> SUFFICES ASSUME IInv, [Next]_vars
             PROVE  IInv'
  OBVIOUS
<1>1. CASE UNCHANGED vars
  BY <1>1 DEF vars, IInv, TypeOK, CarriedStateIsSafe, UnsentMeansUntouched,
              OriginsIssued, StoreInvariant
<1>2. ASSUME NEW c \in Call, Receive(c) \/ Step(c) \/ Abort(c)
      PROVE  IInv'
  BY <1>2, ReceivePreserves, StepPreserves, AbortPreserves
<1>3. CASE OtherComponents
  BY <1>3, EditAccountPreserves, EditTemplatePreserves, EditRecipientPreserves,
     EditGroupPreserves, EditMemberPreserves, EditContactPreserves DEF OtherComponents
<1>. QED  BY <1>1, <1>2, <1>3 DEF Next, AllDone

LEMMA Invariance == Spec => []IInv
  BY InitIInv, NextIInv, PTL DEF Spec

\* Every variable keeps its type, and every key in the database was issued.
THEOREM TypeCorrect == Spec => []TypeOK
<1>1. IInv => TypeOK
  BY DEF IInv
<1>. QED  BY Invariance, <1>1, PTL

\* The foreign keys hold between any two steps, and no interleaving of
\* SendBatch with other calls and components leaves a notification (or a
\* member of a group) that joins the rows of two users, or one cut off from
\* its batch.
THEOREM StoreConsistency == Spec => []StoreConsistent
<1>1. IInv => StoreConsistent
  BY DEF IInv, StoreInvariant, StoreConsistent
<1>. QED  BY Invariance, <1>1, PTL

\* What SendBatch holds from its earlier reads is gone or still its user's
\* when it uses it.
THEOREM CarriedStateSafety == Spec => []CarriedStateIsSafe
<1>1. IInv => CarriedStateIsSafe
  BY DEF IInv
<1>. QED  BY Invariance, <1>1, PTL

\* A batch that is not marked sent has never had a notification recorded.
THEOREM UnsentIsUntouched == Spec => []UnsentMeansUntouched
<1>1. IInv => UnsentMeansUntouched
  BY DEF IInv
<1>. QED  BY Invariance, <1>1, PTL
=============================================================================
