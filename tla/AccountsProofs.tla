---------------------------- MODULE AccountsProofs ----------------------------
(***************************************************************************)
(* Proofs about Accounts, for all values of the constants: its types,      *)
(* that names are unique, that deleted accounts stay deleted, and that it  *)
(* implements Registry.                                                    *)
(***************************************************************************)
EXTENDS Accounts, EnsStoreProofs, TLAPS

\* What the place of a call says about the rest of its state.
CallInv(c) ==
    /\ call[c].pc = "idle" => call[c].req = NULL
    /\ call[c].pc # "idle" => call[c].req \in Request /\ call[c].req # NULL
    /\ call[c].pc \in {"idle", "parse", "verify", "statement", "compare"}
        => call[c].resp = "none" /\ call[c].token = NULL
    /\ call[c].pc \in {"reply", "done"} => call[c].resp # "none"
    /\ call[c].pc = "compare" => call[c].row \in Stored /\ call[c].req.op = "Login"
    /\ call[c].pc = "verify" => call[c].req.op \in TokenOps
    /\ (call[c].pc \in {"verify", "statement"} /\ call[c].req.op \in BodyOps)
        => call[c].req.name # NULL

IInv ==
    /\ StoreInvariant(db)
    /\ UniqueNames(db)
    /\ DOMAIN db.user \subseteq issued
    /\ call \in [Call -> CallState]
    /\ \A c \in Call : CallInv(c)

\* The two functions that Registry sees.
Asked == [c \in Call |-> call[c].req]
Answers == [c \in Call |-> Effect(c)]

-----------------------------------------------------------------------------
(* Lemmas about one call.                                                  *)

\* A step of one call leaves the others as they are.
LEMMA Moves ==
  ASSUME IInv, NEW c \in Call, NEW st \in CallState, call' = [call EXCEPT ![c] = st]
  PROVE  /\ call' \in [Call -> CallState]
         /\ call'[c] = st
         /\ CallInv(c)' => \A d \in Call : CallInv(d)'
         /\ st.req = call[c].req => Asked' = Asked
         /\ Asked' = [Asked EXCEPT ![c] = st.req]
         /\ Answers' = [Answers EXCEPT ![c] = Effect(c)']
<1>1. call \in [Call -> CallState] /\ \A d \in Call : CallInv(d)
  BY DEF IInv
<1>2. call' \in [Call -> CallState] /\ call'[c] = st
  BY <1>1
<1>3. \A d \in Call : d # c => call'[d] = call[d]
  BY <1>1
<1>4. \A d \in Call : d # c => CallInv(d)'
  BY <1>1, <1>3 DEF CallInv
<1>5. \A d \in Call : d # c => Effect(d)' = Effect(d)
  BY <1>3 DEF Effect
<1>6. Answers' = [Answers EXCEPT ![c] = Effect(c)']
  BY <1>5 DEF Answers
<1>7. Asked' = [Asked EXCEPT ![c] = st.req]
  BY <1>2, <1>3 DEF Asked
<1>8. st.req = call[c].req => Asked' = Asked
  BY <1>7 DEF Asked
<1>9. QED
  BY <1>2, <1>4, <1>6, <1>7, <1>8

\* A call that is answered has that answer, for Registry too.
LEMMA Answered ==
  ASSUME IInv, NEW c \in Call, call[c].pc # "idle",
         NEW r \in Response \ {"none"}, NEW token \in User \cup {NULL},
         AnswerWith(c, r, token)
  PROVE  /\ call' \in [Call -> CallState]
         /\ \A d \in Call : CallInv(d)'
         /\ Asked' = Asked
         /\ Answers' = [Answers EXCEPT ![c] = [resp |-> r, token |-> token]]
<1> DEFINE st == [call[c] EXCEPT !.pc = "reply", !.resp = r, !.token = token]
<1>1. call \in [Call -> CallState] /\ call[c] \in CallState /\ CallInv(c)
  BY DEF IInv
<1>2. call' = [call EXCEPT ![c] = st]
  BY <1>1 DEF AnswerWith
<1>3. /\ st \in CallState
      /\ st.pc = "reply" /\ st.resp = r /\ st.token = token
      /\ st.req = call[c].req
  BY <1>1 DEF CallState, PC
<1> HIDE DEF st
<1>4. /\ call' \in [Call -> CallState]
      /\ call'[c] = st
      /\ CallInv(c)' => \A d \in Call : CallInv(d)'
      /\ Asked' = Asked
      /\ Answers' = [Answers EXCEPT ![c] = Effect(c)']
  BY <1>2, <1>3, Moves
<1>5. CallInv(c)'
  BY <1>1, <1>3, <1>4 DEF CallInv
<1>6. Effect(c)' = [resp |-> r, token |-> token]
  BY <1>3, <1>4 DEF Effect
<1>7. QED
  BY <1>4, <1>5, <1>6

\* A call that goes on is asked the same.
LEMMA Went ==
  ASSUME IInv, NEW c \in Call, NEW pc \in PC, call' = [call EXCEPT ![c].pc = pc]
  PROVE  /\ call' \in [Call -> CallState]
         /\ call'[c].pc = pc
         /\ call'[c].req = call[c].req /\ call'[c].row = call[c].row
         /\ call'[c].resp = call[c].resp /\ call'[c].token = call[c].token
         /\ CallInv(c)' => \A d \in Call : CallInv(d)'
         /\ Asked' = Asked
         /\ Answers' = [Answers EXCEPT ![c] = Effect(c)']
<1> DEFINE st == [call[c] EXCEPT !.pc = pc]
<1>1. call \in [Call -> CallState] /\ call[c] \in CallState
  BY DEF IInv
<1>2. call' = [call EXCEPT ![c] = st]
  BY <1>1
<1>3. /\ st \in CallState
      /\ st.pc = pc /\ st.req = call[c].req /\ st.row = call[c].row
      /\ st.resp = call[c].resp /\ st.token = call[c].token
  BY <1>1 DEF CallState
<1> HIDE DEF st
<1>4. QED
  BY <1>2, <1>3, Moves

\* Setting a field to what it is changes nothing.
LEMMA SameAnswers ==
  ASSUME NEW c \in Call, Answers' = [Answers EXCEPT ![c] = Effect(c)'],
         Effect(c)' = Effect(c)
  PROVE  Answers' = Answers
BY DEF Answers

\* Until a call takes effect Registry has not answered it.
LEMMA Pending ==
  ASSUME IInv, NEW c \in Call, NEW op \in Ops, call[c].req.op = op,
         call[c].pc \in {"parse", "verify"} \/ (call[c].pc = "statement" /\ op # "RefreshToken")
  PROVE  Promise!Asks(c, op) /\ Asked[c] = call[c].req
<1>1. call[c].req # NULL /\ call[c].resp = "none" /\ call[c].token = NULL
  BY DEF IInv, CallInv
<1>3. Effect(c) = [resp |-> "none", token |-> NULL]
  BY <1>1 DEF Effect
<1>4. QED
  BY <1>1, <1>3 DEF Promise!Asks, Promise!NoAnswer, Asked

-----------------------------------------------------------------------------
(* Lemmas about what a step does to the invariant and to Registry.         *)

\* A step of Registry, or none.
Promised == Promise!Next \/ UNCHANGED Promise!vars

LEMMA StoreKept ==
  ASSUME IInv, UNCHANGED <<db, issued>>, call' \in [Call -> CallState],
         \A d \in Call : CallInv(d)'
  PROVE  IInv'
BY DEF IInv

LEMMA Nothing ==
  ASSUME UNCHANGED <<db, issued, Asked, Answers>>
  PROVE  Promised
BY DEF Promised, Promise!vars, Asked, Answers

\* One of Registry's operations on the request of a call.
LEMMA Something ==
  ASSUME NEW c \in Call, Asked' = Asked,
         \/ Promise!Create(c, Asked[c]) \/ Promise!Login(c, Asked[c])
         \/ Promise!Modify(c, Asked[c]) \/ Promise!Refresh(c, Asked[c])
         \/ Promise!Delete(c, Asked[c]) \/ Promise!Malformed(c, Asked[c])
  PROVE  Promised
<1> DEFINE q == Asked[c]
<1>1. q \in {Asked[c]} /\ UNCHANGED Asked
  OBVIOUS
<1>2. \E r \in {Asked[c]} :
        \/ Promise!Create(c, r) \/ Promise!Login(c, r) \/ Promise!Modify(c, r)
        \/ Promise!Refresh(c, r) \/ Promise!Delete(c, r) \/ Promise!Malformed(c, r)
  BY <1>1
<1>3. Promise!Next
  BY <1>1, <1>2 DEF Promise!Next, Asked
<1>4. QED
  BY <1>3 DEF Promised

\* A refusal is one of Registry, if it may be.
LEMMA Refused ==
  ASSUME IInv, NEW c \in Call, call[c].pc # "idle", NEW r \in Response \ {"none"},
         Refuse(c, r)
  PROVE  IInv' /\ Asked' = Asked /\ Promise!Refuse(c, r)
<1>1. AnswerWith(c, r, NULL) /\ UNCHANGED <<db, issued>>
  BY DEF Refuse, Answer
<1>2. /\ call' \in [Call -> CallState]
      /\ \A d \in Call : CallInv(d)'
      /\ Asked' = Asked
      /\ Answers' = [Answers EXCEPT ![c] = [resp |-> r, token |-> NULL]]
  BY <1>1, Answered
<1>3. IInv'
  BY <1>1, <1>2, StoreKept
<1>4. Promise!Refuse(c, r)
  BY <1>1, <1>2 DEF Promise!Refuse, Promise!Finish, Answers
<1>5. QED
  BY <1>2, <1>3, <1>4

-----------------------------------------------------------------------------
(* The actions.                                                            *)

LEMMA ReceiveStep ==
  ASSUME IInv, NEW c \in Call, Receive(c)
  PROVE  IInv' /\ Promised
<1>1. PICK q \in Requests : call' = [call EXCEPT ![c].pc = "parse", ![c].req = q]
  BY DEF Receive
<1>2. /\ call[c].pc = "idle" /\ UNCHANGED <<db, issued>>
      /\ call \in [Call -> CallState] /\ call[c] \in CallState /\ CallInv(c)
  BY DEF Receive, IInv
<1>3. q \in Request /\ q # NULL
  BY AccountRequestsAssumption
<1> DEFINE st == [call[c] EXCEPT !.pc = "parse", !.req = q]
<1>4. call' = [call EXCEPT ![c] = st]
  BY <1>1, <1>2
<1>5. /\ st \in CallState
      /\ st.pc = "parse" /\ st.req = q /\ st.resp = call[c].resp
      /\ st.token = call[c].token
  BY <1>2, <1>3 DEF CallState, PC
<1> HIDE DEF st
<1>6. /\ call' \in [Call -> CallState]
      /\ call'[c] = st
      /\ CallInv(c)' => \A d \in Call : CallInv(d)'
      /\ Asked' = [Asked EXCEPT ![c] = q]
      /\ Answers' = [Answers EXCEPT ![c] = Effect(c)']
  BY <1>4, <1>5, Moves
<1>7. CallInv(c)'
  BY <1>2, <1>3, <1>5, <1>6 DEF CallInv
<1>8. IInv'
  BY <1>2, <1>6, <1>7, StoreKept
<1>9. Effect(c)' = Effect(c)
  BY <1>2, <1>5, <1>6 DEF Effect
<1>10. Answers' = Answers
  BY <1>6, <1>9, SameAnswers
<1>11. Asked[c] = NULL
  BY <1>2 DEF CallInv, Asked
<1>12. Promise!Ask(c)
  BY <1>2, <1>6, <1>10, <1>11 DEF Promise!Ask, Asked, Answers
<1>13. QED
  BY <1>8, <1>12 DEF Promised, Promise!Next

\* A step to another place that Registry does not see.
LEMMA GoesStep ==
  ASSUME IInv, NEW c \in Call, NEW pc \in PC, Goes(c, pc),
         pc = call'[c].pc => CallInv(c)' /\ Effect(c)' = Effect(c)
  PROVE  IInv' /\ Promised
<1>1. call' = [call EXCEPT ![c].pc = pc] /\ UNCHANGED <<db, issued>>
  BY DEF Goes
<1>2. /\ call' \in [Call -> CallState]
      /\ call'[c].pc = pc
      /\ CallInv(c)' => \A d \in Call : CallInv(d)'
      /\ Asked' = Asked
      /\ Answers' = [Answers EXCEPT ![c] = Effect(c)']
  BY <1>1, Went
<1>3. CallInv(c)' /\ Effect(c)' = Effect(c)
  BY <1>2
<1>4. IInv'
  BY <1>1, <1>2, <1>3, StoreKept
<1>5. Answers' = Answers
  BY <1>2, <1>3, SameAnswers
<1>6. QED
  BY <1>1, <1>2, <1>4, <1>5, Nothing

LEMMA ParseBodyStep ==
  ASSUME IInv, NEW c \in Call, ParseBody(c)
  PROVE  IInv' /\ Promised
<1>1. /\ call[c].pc = "parse" /\ CallInv(c) /\ call[c].req \in Request
      /\ call[c].resp = "none" /\ call[c].token = NULL
  BY DEF ParseBody, IInv, CallInv
<1>2. call[c].req.op \in Ops
  BY <1>1 DEF Request
<1>3. CASE call[c].req.op \in BodyOps /\ call[c].req.name = NULL /\ Refuse(c, "Invalid")
  <2>1. "Invalid" \in Response \ {"none"}
    BY DEF Response
  <2>2. IInv' /\ Asked' = Asked /\ Promise!Refuse(c, "Invalid")
    BY <1>1, <1>3, <2>1, Refused
  <2>3. Promise!Asks(c, call[c].req.op) /\ Asked[c] = call[c].req
    BY <1>1, <1>2, Pending
  <2>4. Promise!Malformed(c, Asked[c])
    BY <1>3, <2>2, <2>3 DEF Promise!Malformed, BodyOps
  <2>5. QED
    BY <2>2, <2>4, Something
<1>4. CASE /\ call[c].req.op \in BodyOps => call[c].req.name # NULL
           /\ Goes(c, IF call[c].req.op \in TokenOps THEN "verify" ELSE "statement")
  <2> DEFINE pc == IF call[c].req.op \in TokenOps THEN "verify" ELSE "statement"
  <2>1. pc \in PC /\ Goes(c, pc)
    BY <1>4 DEF PC
  <2>2. /\ call'[c].pc = pc /\ call'[c].req = call[c].req
        /\ call'[c].resp = call[c].resp /\ call'[c].token = call[c].token
    BY <2>1, Went DEF Goes
  <2>3. CallInv(c)'
    BY <1>1, <1>4, <2>2 DEF CallInv
  <2>4. Effect(c)' = Effect(c)
    BY <1>1, <2>2 DEF Effect, TokenOps
  <2>5. QED
    BY <2>1, <2>3, <2>4, GoesStep
<1>5. QED
  BY <1>3, <1>4 DEF ParseBody

LEMMA ReplyStep ==
  ASSUME IInv, NEW c \in Call, Reply(c)
  PROVE  IInv' /\ Promised
<1>1. /\ call[c].pc = "reply" /\ CallInv(c) /\ Goes(c, "done") /\ "done" \in PC
  BY DEF Reply, IInv, PC
<1>2. /\ call'[c].pc = "done" /\ call'[c].req = call[c].req
      /\ call'[c].resp = call[c].resp /\ call'[c].token = call[c].token
  BY <1>1, Went DEF Goes
<1>3. CallInv(c)'
  BY <1>1, <1>2 DEF CallInv
<1>4. Effect(c)' = Effect(c)
  BY <1>1, <1>2 DEF Effect
<1>5. QED
  BY <1>1, <1>3, <1>4, GoesStep

\* A call whose user is gone, or whose token is none, is refused one way or
\* the other.
LEMMA NoAccountStep ==
  ASSUME IInv, NEW c \in Call, call[c].req.op \in TokenOps,
         \/ call[c].pc = "verify"
         \/ call[c].pc = "statement" /\ call[c].req.op # "RefreshToken",
         NEW r,
         \/ call[c].req.user \notin DOMAIN db.user /\ r \in {"Unauthorized", "NotFound"}
         \/ call[c].req.user = NULL /\ r = "ServerError",
         Refuse(c, r)
  PROVE  IInv' /\ Promised
<1>1. r \in Response \ {"none"} /\ call[c].req.op \in Ops
  BY DEF Response, TokenOps, Ops
<1>2. IInv' /\ Asked' = Asked /\ Promise!Refuse(c, r)
  BY <1>1, Refused
<1>3. Promise!Asks(c, call[c].req.op) /\ Asked[c] = call[c].req
  BY <1>1, Pending
<1>4. Promise!NoAccount(c, Asked[c])
  BY <1>2, <1>3 DEF Promise!NoAccount
<1>5. \/ Promise!Modify(c, Asked[c]) \/ Promise!Refresh(c, Asked[c])
      \/ Promise!Delete(c, Asked[c])
  BY <1>3, <1>4 DEF Promise!Modify, Promise!Refresh, Promise!Delete, TokenOps
<1>6. QED
  BY <1>2, <1>5, Something

LEMMA VerifyJWTStep ==
  ASSUME IInv, NEW c \in Call, VerifyJWT(c)
  PROVE  IInv' /\ Promised
<1>1. /\ call[c].pc = "verify" /\ CallInv(c) /\ call[c].req.op \in TokenOps
      /\ call[c].req \in Request /\ call[c].req # NULL
      /\ call[c].resp = "none" /\ call[c].token = NULL
  BY DEF VerifyJWT, IInv, CallInv
<1>2. CASE call[c].req.user \in DOMAIN db.user /\ Goes(c, "statement")
  <2>1. "statement" \in PC /\ call' = [call EXCEPT ![c].pc = "statement"]
        /\ UNCHANGED <<db, issued>>
    BY <1>2 DEF PC, Goes
  <2>2. /\ call' \in [Call -> CallState]
        /\ call'[c].pc = "statement" /\ call'[c].req = call[c].req
        /\ call'[c].resp = call[c].resp /\ call'[c].token = call[c].token
        /\ CallInv(c)' => \A d \in Call : CallInv(d)'
        /\ Asked' = Asked
        /\ Answers' = [Answers EXCEPT ![c] = Effect(c)']
    BY <2>1, Went
  <2>3. CASE call[c].req.op # "RefreshToken"
    <3>1. CallInv(c)'
      <4>1. call[c].req.op \in BodyOps => call[c].req.name # NULL
        BY <1>1 DEF CallInv
      <4>2. QED
        BY <1>1, <2>2, <4>1 DEF CallInv
    <3>2. Effect(c)' = Effect(c)
      BY <1>1, <2>2, <2>3 DEF Effect
    <3>3. QED
      BY <1>2, <2>1, <3>1, <3>2, GoesStep
  <2>4. CASE call[c].req.op = "RefreshToken"
    <3>1. CallInv(c)'
      BY <1>1, <2>2, <2>4 DEF CallInv, BodyOps
    <3>2. IInv'
      BY <2>1, <2>2, <3>1, StoreKept
    <3>3. Effect(c)' = [resp |-> "Ok", token |-> call[c].req.user]
      BY <2>2, <2>4 DEF Effect
    <3>4. Promise!Asks(c, "RefreshToken") /\ Asked[c] = call[c].req
      BY <1>1, <2>4, Pending DEF Ops
    <3>5. Promise!Refresh(c, Asked[c])
      BY <1>2, <2>1, <2>2, <3>3, <3>4 DEF Promise!Refresh, Promise!Finish, Answers
    <3>6. QED
      BY <2>2, <3>2, <3>5, Something
  <2>5. QED
    BY <2>3, <2>4
<1>3. CASE /\ call[c].req.user \notin DOMAIN db.user
           /\ Refuse(c, IF call[c].req.op = "RefreshToken" THEN "NotFound" ELSE "Unauthorized")
  BY <1>1, <1>3, NoAccountStep
<1>4. CASE call[c].req.user = NULL /\ Refuse(c, "ServerError")
  BY <1>1, <1>4, NoAccountStep
<1>5. QED
  BY <1>2, <1>3, <1>4 DEF VerifyJWT

\* Writing an account under a name no other account has.
LEMMA SetAccount ==
  ASSUME IInv, NEW u \in User, NEW name \in Name, NEW password \in Password,
         \A v \in DOMAIN db.user \ {u} : db.user[v].name # name,
         db' = InsertUser(db, u, name, password)
  PROVE  /\ StoreInvariant(db') /\ UniqueNames(db')
         /\ db'.user = [v \in DOMAIN db.user \cup {u} |->
                           IF v = u THEN [name |-> name, password |-> password]
                           ELSE db.user[v]]
<1>1. StoreInvariant(db) /\ UniqueNames(db) /\ IsStore(db)
  BY DEF IInv, StoreInvariant
<1>2. StoreInvariant(InsertUser(db, u, name, password))
  BY <1>1, InsertUserPreserves
<1>3. db'.user = With(db.user, u, [name |-> name, password |-> password])
  BY <1>1 DEF InsertUser, IsStore
<1>4. UniqueNames(db')
  BY <1>1, <1>3 DEF UniqueNames, With
<1>5. QED
  BY <1>2, <1>3, <1>4 DEF With

LEMMA CreateStep ==
  ASSUME IInv, NEW c \in Call, Create(c)
  PROVE  IInv' /\ Promised
<1> DEFINE q == call[c].req
<1>1. /\ call[c].pc = "statement" /\ q.op = "Create" /\ q.name # NULL
      /\ q \in Request
  BY DEF Create, At, IInv, CallInv, BodyOps
<1>2. q.name \in Name /\ q.password \in Password
  BY <1>1 DEF Request
<1>3. Promise!Asks(c, "Create") /\ Asked[c] = q
  BY <1>1, Pending DEF Ops
<1>4. CASE NameTaken(db, q.name) /\ Refuse(c, "Conflict")
  <2>1. "Conflict" \in Response \ {"none"}
    BY DEF Response
  <2>2. IInv' /\ Asked' = Asked /\ Promise!Refuse(c, "Conflict")
    BY <1>1, <1>4, <2>1, Refused
  <2>3. Promise!Create(c, Asked[c])
    BY <1>3, <1>4, <2>2 DEF Promise!Create, Promise!Named, NameTaken
  <2>4. QED
    BY <2>2, <2>3, Something
<1>5. CASE /\ ~NameTaken(db, q.name)
           /\ User \ issued # {}
           /\ db' = InsertUser(db, NewId, q.name, q.password)
           /\ issued' = issued \cup {NewId}
           /\ AnswerWith(c, "Ok", NewId)
  <2> DEFINE u == NewId
  <2>1. u \in User /\ u \notin issued
    BY <1>5 DEF NewId
  <2> HIDE DEF u
  <2>2. "Ok" \in Response \ {"none"}
    BY DEF Response
  <2>3. /\ call' \in [Call -> CallState]
        /\ \A d \in Call : CallInv(d)'
        /\ Asked' = Asked
        /\ Answers' = [Answers EXCEPT ![c] = [resp |-> "Ok", token |-> u]]
    BY <1>1, <1>5, <2>1, <2>2, Answered DEF u
  <2>4. \A v \in DOMAIN db.user : db.user[v].name # q.name
    BY <1>5 DEF NameTaken
  <2>5. /\ StoreInvariant(db') /\ UniqueNames(db')
        /\ db'.user = [v \in DOMAIN db.user \cup {u} |->
                          IF v = u THEN [name |-> q.name, password |-> q.password]
                          ELSE db.user[v]]
    BY <1>2, <1>5, <2>1, <2>4, SetAccount DEF u
  <2>6. DOMAIN db'.user \subseteq issued'
    BY <1>5, <2>5 DEF u, IInv
  <2>7. IInv'
    BY <2>3, <2>5, <2>6 DEF IInv
  <2>8. Promise!Set(u, q)
    BY <2>5 DEF Promise!Set
  <2>9. Promise!Finish(c, "Ok", u)
    BY <2>3 DEF Promise!Finish, Answers
  <2>10. Promise!Named(q.name) = {}
    BY <2>4 DEF Promise!Named
  <2>11. u \in User \ issued /\ issued' = issued \cup {u}
    BY <1>5, <2>1 DEF u
  <2>12. Promise!Create(c, q)
    BY <1>3, <2>8, <2>9, <2>10, <2>11 DEF Promise!Create
  <2>13. QED
    BY <1>3, <2>3, <2>7, <2>12, Something
<1>6. QED
  BY <1>4, <1>5 DEF Create

LEMMA SelectUserStep ==
  ASSUME IInv, NEW c \in Call, SelectUser(c)
  PROVE  IInv' /\ Promised
<1> DEFINE q == call[c].req
<1>1. /\ call[c].pc = "statement" /\ q.op = "Login" /\ CallInv(c)
      /\ q \in Request /\ q # NULL /\ call[c].resp = "none" /\ call[c].token = NULL
  BY DEF SelectUser, At, IInv, CallInv
<1>2. Promise!Asks(c, "Login") /\ Asked[c] = q
  BY <1>1, Pending DEF Ops
<1>3. ASSUME NEW u \in DOMAIN db.user, db.user[u].name = q.name,
             call' = [call EXCEPT ![c].pc = "compare",
                                  ![c].row = [user |-> u, password |-> db.user[u].password]],
             UNCHANGED <<db, issued>>
      PROVE  IInv' /\ Promised
  <2> DEFINE row == [user |-> u, password |-> db.user[u].password]
             st == [call[c] EXCEPT !.pc = "compare", !.row = row]
  <2>1. call \in [Call -> CallState] /\ call[c] \in CallState
    BY DEF IInv
  <2>2. u \in User /\ db.user[u] \in UserRow
    BY DEF IInv, StoreInvariant, IsStore, IsTable
  <2>3. row \in Stored /\ row.user = u /\ row.password = db.user[u].password
    BY <2>2 DEF Stored, UserRow
  <2>4. call' = [call EXCEPT ![c] = st]
    BY <1>3, <2>1
  <2> HIDE DEF row
  <2>5. /\ st \in CallState
        /\ st.pc = "compare" /\ st.row = row /\ st.req = q
        /\ st.resp = "none" /\ st.token = NULL
    BY <1>1, <2>1, <2>3 DEF CallState, PC
  <2> HIDE DEF st
  <2>6. /\ call' \in [Call -> CallState]
        /\ call'[c] = st
        /\ CallInv(c)' => \A d \in Call : CallInv(d)'
        /\ Asked' = Asked
        /\ Answers' = [Answers EXCEPT ![c] = Effect(c)']
    BY <2>4, <2>5, Moves
  <2>7. CallInv(c)'
    BY <1>1, <2>3, <2>5, <2>6 DEF CallInv
  <2>8. IInv'
    BY <1>3, <2>6, <2>7, StoreKept
  <2>9. Effect(c)' = IF db.user[u].password = q.password
                     THEN [resp |-> "Ok", token |-> u]
                     ELSE [resp |-> "Unauthorized", token |-> NULL]
    BY <2>3, <2>5, <2>6 DEF Effect
  <2>10. u \in Promise!Named(q.name)
    BY <1>3 DEF Promise!Named
  <2>11. Promise!Login(c, q)
    <3>1. CASE db.user[u].password = q.password
      <4>1. Promise!Finish(c, "Ok", u)
        BY <2>6, <2>9, <3>1 DEF Promise!Finish, Answers
      <4>2. QED
        BY <1>2, <1>3, <2>10, <3>1, <4>1 DEF Promise!Login
    <3>2. CASE db.user[u].password # q.password
      <4>1. Promise!Refuse(c, "Unauthorized")
        BY <1>3, <2>6, <2>9, <3>2 DEF Promise!Refuse, Promise!Finish, Answers
      <4>2. QED
        BY <1>2, <2>10, <3>2, <4>1 DEF Promise!Login
    <3>3. QED
      BY <3>1, <3>2
  <2>12. QED
    BY <1>2, <2>6, <2>8, <2>11, Something
<1>4. CASE ~NameTaken(db, q.name) /\ Refuse(c, "NotFound")
  <2>1. "NotFound" \in Response \ {"none"}
    BY DEF Response
  <2>2. IInv' /\ Asked' = Asked /\ Promise!Refuse(c, "NotFound")
    BY <1>1, <1>4, <2>1, Refused
  <2>3. Promise!Login(c, Asked[c])
    BY <1>2, <1>4, <2>2 DEF Promise!Login, Promise!Named, NameTaken
  <2>4. QED
    BY <2>2, <2>3, Something
<1>5. QED
  BY <1>3, <1>4 DEF SelectUser

\* What Login does after its SELECT was decided there.
LEMMA LoginStep ==
  ASSUME IInv, NEW c \in Call, Login(c)
  PROVE  IInv' /\ Promised
<1>1. /\ call[c].pc = "compare" /\ call[c].row \in Stored /\ UNCHANGED <<db, issued>>
  BY DEF Login, IInv, CallInv
<1>2. /\ call[c].row.user \in User \cup {NULL} /\ NULL \in User \cup {NULL}
      /\ "Ok" \in Response \ {"none"} /\ "Unauthorized" \in Response \ {"none"}
  BY <1>1 DEF Stored, Response
<1>3. ASSUME NEW r \in Response \ {"none"}, NEW token \in User \cup {NULL},
             AnswerWith(c, r, token), Effect(c) = [resp |-> r, token |-> token]
      PROVE  IInv' /\ Promised
  <2>1. /\ call' \in [Call -> CallState]
        /\ \A d \in Call : CallInv(d)'
        /\ Asked' = Asked
        /\ Answers' = [Answers EXCEPT ![c] = Effect(c)]
    BY <1>1, <1>3, Answered
  <2>2. Answers' = Answers
    BY <2>1 DEF Answers
  <2>3. QED
    BY <1>1, <2>1, <2>2, StoreKept, Nothing
<1>4. CASE /\ call[c].row.password = call[c].req.password
           /\ AnswerWith(c, "Ok", call[c].row.user)
  <2>1. Effect(c) = [resp |-> "Ok", token |-> call[c].row.user]
    BY <1>1, <1>4 DEF Effect
  <2>2. QED
    BY <1>2, <1>3, <1>4, <2>1
<1>5. CASE /\ call[c].row.password # call[c].req.password
           /\ AnswerWith(c, "Unauthorized", NULL)
  <2>1. Effect(c) = [resp |-> "Unauthorized", token |-> NULL]
    BY <1>1, <1>5 DEF Effect
  <2>2. QED
    BY <1>2, <1>3, <1>5, <2>1
<1>6. QED
  BY <1>4, <1>5 DEF Login, Answer

\* What RefreshToken does after VerifyJWT was decided there.
LEMMA RefreshTokenStep ==
  ASSUME IInv, NEW c \in Call, RefreshToken(c)
  PROVE  IInv' /\ Promised
<1>1. /\ call[c].pc = "statement" /\ call[c].req.op = "RefreshToken"
      /\ call[c].req \in Request
      /\ AnswerWith(c, "Ok", call[c].req.user) /\ UNCHANGED <<db, issued>>
  BY DEF RefreshToken, At, IInv, CallInv
<1>2. call[c].req.user \in User \cup {NULL} /\ "Ok" \in Response \ {"none"}
  BY <1>1 DEF Request, Response
<1>3. /\ call' \in [Call -> CallState]
      /\ \A d \in Call : CallInv(d)'
      /\ Asked' = Asked
      /\ Answers' = [Answers EXCEPT ![c] = [resp |-> "Ok", token |-> call[c].req.user]]
  BY <1>1, <1>2, Answered
<1>4. Effect(c) = [resp |-> "Ok", token |-> call[c].req.user]
  BY <1>1 DEF Effect
<1>5. Answers' = Answers
  BY <1>3, <1>4 DEF Answers
<1>6. QED
  BY <1>1, <1>3, <1>5, StoreKept, Nothing

LEMMA ModifyUserStep ==
  ASSUME IInv, NEW c \in Call, ModifyUser(c)
  PROVE  IInv' /\ Promised
<1> DEFINE q == call[c].req
           taken == \E v \in DOMAIN db.user \ {q.user} : db.user[v].name = q.name
<1>1. /\ call[c].pc = "statement" /\ q.op = "Modify" /\ q.name # NULL
      /\ q \in Request /\ q.op \in TokenOps
  BY DEF ModifyUser, At, IInv, CallInv, BodyOps, TokenOps
<1>2. q.name \in Name /\ q.password \in Password
  BY <1>1 DEF Request
<1>3. Promise!Asks(c, "Modify") /\ Asked[c] = q
  BY <1>1, Pending DEF Ops
<1>4. taken <=> ~(Promise!Named(q.name) \subseteq {q.user})
  BY DEF Promise!Named
<1> HIDE DEF taken
<1>5. CASE /\ q.user \in DOMAIN db.user /\ ~taken
           /\ db' = UpdateUser(db, q.user, q.name, q.password)
           /\ Answer(c, "Ok") /\ UNCHANGED issued
  <2> DEFINE u == q.user
  <2>1. u \in User /\ DOMAIN db.user \subseteq User
    BY <1>5 DEF IInv, StoreInvariant, IsStore, IsTable
  <2>2. "Ok" \in Response \ {"none"}
    BY DEF Response
  <2>3. /\ call' \in [Call -> CallState]
        /\ \A d \in Call : CallInv(d)'
        /\ Asked' = Asked
        /\ Answers' = [Answers EXCEPT ![c] = [resp |-> "Ok", token |-> NULL]]
    BY <1>1, <1>5, <2>2, Answered DEF Answer
  <2>4. \A v \in DOMAIN db.user \ {u} : db.user[v].name # q.name
    BY <1>5 DEF taken
  <2>5. db' = InsertUser(db, u, q.name, q.password)
    BY <1>5 DEF UpdateUser, InsertUser
  <2>6. /\ StoreInvariant(db') /\ UniqueNames(db')
        /\ db'.user = [v \in DOMAIN db.user \cup {u} |->
                          IF v = u THEN [name |-> q.name, password |-> q.password]
                          ELSE db.user[v]]
    BY <1>2, <2>1, <2>4, <2>5, SetAccount
  <2>7. DOMAIN db'.user \subseteq issued'
    BY <1>5, <2>6 DEF IInv
  <2>8. IInv'
    BY <2>3, <2>6, <2>7 DEF IInv
  <2>9. Promise!Set(u, q)
    BY <2>6 DEF Promise!Set
  <2>10. Promise!Finish(c, "Ok", NULL)
    BY <2>3 DEF Promise!Finish, Answers
  <2>11. Promise!Modify(c, q)
    BY <1>3, <1>4, <1>5, <2>9, <2>10 DEF Promise!Modify
  <2>12. QED
    BY <1>3, <2>3, <2>8, <2>11, Something
<1>6. CASE q.user \in DOMAIN db.user /\ taken /\ Refuse(c, "ServerError")
  <2>1. "ServerError" \in Response \ {"none"}
    BY DEF Response
  <2>2. IInv' /\ Asked' = Asked /\ Promise!Refuse(c, "ServerError")
    BY <1>1, <1>6, <2>1, Refused
  <2>3. Promise!Modify(c, Asked[c])
    BY <1>3, <1>4, <1>6, <2>2 DEF Promise!Modify
  <2>4. QED
    BY <2>2, <2>3, Something
<1>7. CASE q.user \notin DOMAIN db.user /\ Refuse(c, "NotFound")
  BY <1>1, <1>7, NoAccountStep
<1>8. QED
  BY <1>5, <1>6, <1>7 DEF ModifyUser, taken

LEMMA DeleteAccountStep ==
  ASSUME IInv, NEW c \in Call, DeleteAccount(c)
  PROVE  IInv' /\ Promised
<1> DEFINE q == call[c].req
           u == q.user
<1>1. /\ call[c].pc = "statement" /\ q.op = "Delete" /\ q \in Request /\ q.op \in TokenOps
  BY DEF DeleteAccount, At, IInv, CallInv, TokenOps
<1>2. Promise!Asks(c, "Delete") /\ Asked[c] = q
  BY <1>1, Pending DEF Ops
<1>3. CASE /\ u \in DOMAIN db.user
           /\ db' = DeleteUser(db, u)
           /\ Answer(c, "Ok") /\ UNCHANGED issued
  <2>1. "Ok" \in Response \ {"none"}
    BY DEF Response
  <2>2. /\ call' \in [Call -> CallState]
        /\ \A d \in Call : CallInv(d)'
        /\ Asked' = Asked
        /\ Answers' = [Answers EXCEPT ![c] = [resp |-> "Ok", token |-> NULL]]
    BY <1>1, <1>3, <2>1, Answered DEF Answer
  <2>3. StoreInvariant(db) /\ UniqueNames(db) /\ IsStore(db)
    BY DEF IInv, StoreInvariant
  <2>4. StoreInvariant(db')
    BY <1>3, <2>3, DeleteUserPreserves
  <2>5. db'.user = Restrict(db.user, DOMAIN db.user \ {u})
    BY <1>3, <2>3 DEF DeleteUser, Without, IsStore
  <2>6. UniqueNames(db')
    BY <2>3, <2>5 DEF UniqueNames, Restrict
  <2>7. DOMAIN db'.user \subseteq issued'
    BY <1>3, <2>5 DEF IInv, Restrict
  <2>8. IInv'
    BY <2>2, <2>4, <2>6, <2>7 DEF IInv
  <2>9. Promise!Finish(c, "Ok", NULL)
    BY <2>2 DEF Promise!Finish, Answers
  <2>10. Promise!Delete(c, q)
    <3>1. q.user \in DOMAIN db.user /\ issued' = issued
      BY <1>3
    <3>2. db'.user = Promise!Restrict(db.user, DOMAIN db.user \ {q.user})
      BY <2>5 DEF Restrict, Promise!Restrict
    <3>3. QED
      BY <1>2, <2>9, <3>1, <3>2, Zenon DEF Promise!Delete
  <2>11. QED
    BY <1>2, <2>2, <2>8, <2>10, Something
<1>4. CASE u \notin DOMAIN db.user /\ Refuse(c, "NotFound")
  BY <1>1, <1>4, NoAccountStep
<1>5. QED
  BY <1>3, <1>4 DEF DeleteAccount

LEMMA AbortStep ==
  ASSUME IInv, NEW c \in Call, Abort(c)
  PROVE  IInv' /\ Promised
<1> DEFINE st == [call[c] EXCEPT !.pc = "done", !.resp = "Aborted", !.token = NULL]
<1>1. /\ call[c].pc \notin {"idle", "done"} /\ UNCHANGED <<db, issued>>
      /\ call \in [Call -> CallState] /\ call[c] \in CallState /\ CallInv(c)
      /\ call[c].req \in Request /\ call[c].req # NULL
  BY DEF Abort, IInv, CallInv
<1>2. call' = [call EXCEPT ![c] = st]
  BY <1>1 DEF Abort
<1>3. /\ st \in CallState
      /\ st.pc = "done" /\ st.resp = "Aborted" /\ st.token = NULL
      /\ st.req = call[c].req
  BY <1>1 DEF CallState, PC, Response
<1> HIDE DEF st
<1>4. /\ call' \in [Call -> CallState]
      /\ call'[c] = st
      /\ CallInv(c)' => \A d \in Call : CallInv(d)'
      /\ Asked' = Asked
      /\ Answers' = [Answers EXCEPT ![c] = Effect(c)']
  BY <1>2, <1>3, Moves
<1>5. CallInv(c)'
  BY <1>1, <1>3, <1>4 DEF CallInv
<1>6. IInv'
  BY <1>1, <1>4, <1>5, StoreKept
<1>7. Effect(c)' = [resp |-> "Aborted", token |-> NULL]
  BY <1>3, <1>4 DEF Effect
<1>8. Asked[c] # NULL
  BY <1>1 DEF Asked
<1>9. Promise!Lose(c) /\ UNCHANGED Asked
  BY <1>1, <1>4, <1>7, <1>8 DEF Promise!Lose, Promise!Finish, Asked, Answers
<1>10. QED
  BY <1>6, <1>9 DEF Promised, Promise!Next, Asked

-----------------------------------------------------------------------------
(* The theorems.                                                           *)

LEMMA InitStep == Init => IInv /\ Promise!Init
<1> SUFFICES ASSUME Init PROVE IInv /\ Promise!Init
  OBVIOUS
<1>1. StoreInvariant(db) /\ UniqueNames(db) /\ IsStore(db)
  BY AccountStoresAssumption DEF Init, StoreInvariant
<1>2. Idle \in CallState
  BY DEF Idle, CallState, PC, Response
<1>3. \A c \in Call : call[c] = Idle
  BY DEF Init
<1>4. \A c \in Call : CallInv(c)
  BY <1>3 DEF CallInv, Idle
<1>5. IInv
  BY <1>1, <1>2, <1>4 DEF IInv, Init
<1>6. /\ DOMAIN db.user \in SUBSET User
      /\ db.user \in [DOMAIN db.user -> [name : Name, password : Password]]
      /\ \A u, v \in DOMAIN db.user : db.user[u].name = db.user[v].name => u = v
  BY <1>1 DEF IsStore, IsTable, UserRow, UniqueNames
<1>7. \A c \in Call : Effect(c) = [resp |-> "none", token |-> NULL]
  BY <1>3 DEF Effect, Idle
<1>8. Asked = [c \in Call |-> NULL] /\ Answers = [c \in Call |-> Promise!NoAnswer]
  BY <1>3, <1>7 DEF Asked, Answers, Idle, Promise!NoAnswer
<1>9. Promise!Init
  BY <1>6, <1>8 DEF Promise!Init, Asked, Answers, Init
<1>10. QED
  BY <1>5, <1>9

LEMMA NextStep == IInv /\ [Next]_vars => IInv' /\ [Promise!Next]_(Promise!vars)
<1> SUFFICES ASSUME IInv, [Next]_vars PROVE IInv' /\ Promised
  BY DEF Promised
<1>1. ASSUME NEW c \in Call,
             \/ Receive(c) \/ ParseBody(c) \/ VerifyJWT(c)
             \/ Create(c) \/ SelectUser(c) \/ Login(c) \/ ModifyUser(c) \/ RefreshToken(c)
             \/ DeleteAccount(c)
             \/ Reply(c) \/ Abort(c)
      PROVE  IInv' /\ Promised
  BY <1>1, ReceiveStep, ParseBodyStep, VerifyJWTStep, CreateStep, SelectUserStep,
     LoginStep, ModifyUserStep, RefreshTokenStep, DeleteAccountStep, ReplyStep, AbortStep
<1>2. CASE UNCHANGED vars
  <2>1. IInv'
    BY <1>2 DEF vars, IInv, CallInv
  <2>2. Asked' = Asked /\ Answers' = Answers
    BY <1>2 DEF vars, Asked, Answers, Effect
  <2>3. QED
    BY <1>2, <2>1, <2>2, Nothing DEF vars
<1>3. QED
  BY <1>1, <1>2 DEF Next, AllDone

LEMMA Invariance == Spec => []IInv
BY InitStep, NextStep, PTL DEF Spec

\* The variables of the accounts component have their types.
THEOREM TypeCorrect == Spec => []TypeOK
<1>1. IInv => TypeOK
  BY DEF IInv, CallInv, TypeOK, StoreInvariant
<1>2. QED
  BY <1>1, Invariance, PTL

\* Create and ModifyUser, however they overlap, leave no two accounts with
\* one name.
THEOREM UniqueNamesAlways == Spec => []NamesAreUnique
<1>1. IInv => NamesAreUnique
  BY DEF IInv, NamesAreUnique
<1>2. QED
  BY <1>1, Invariance, PTL

LEMMA NoneComesBack ==
  ASSUME IInv, [Next]_vars, NEW u \in issued, u \notin DOMAIN db.user
  PROVE  u \notin DOMAIN db'.user
<1>1. IsStore(db)
  BY DEF IInv, StoreInvariant
<1>2. CASE db' = db
  BY <1>2
<1>3. ASSUME NEW c \in Call, Create(c), db' # db
      PROVE  u \notin DOMAIN db'.user
  <2>1. User \ issued # {} /\ db' = InsertUser(db, NewId, call[c].req.name, call[c].req.password)
    BY <1>3 DEF Create, Refuse
  <2>2. NewId \notin issued
    BY <2>1 DEF NewId
  <2>3. DOMAIN db'.user = DOMAIN db.user \cup {NewId}
    BY <1>1, <2>1 DEF InsertUser, With, IsStore
  <2>4. QED
    BY <2>2, <2>3
<1>4. ASSUME NEW c \in Call, ModifyUser(c), db' # db
      PROVE  u \notin DOMAIN db'.user
  <2> DEFINE q == call[c].req
  <2>1. q.user \in DOMAIN db.user /\ db' = UpdateUser(db, q.user, q.name, q.password)
    BY <1>4 DEF ModifyUser, Refuse
  <2>2. DOMAIN db'.user = DOMAIN db.user
    BY <1>1, <2>1 DEF UpdateUser, With, IsStore
  <2>3. QED
    BY <2>2
<1>5. ASSUME NEW c \in Call, DeleteAccount(c), db' # db
      PROVE  u \notin DOMAIN db'.user
  <2>1. db' = DeleteUser(db, call[c].req.user)
    BY <1>5 DEF DeleteAccount, Refuse
  <2>2. DOMAIN db'.user \subseteq DOMAIN db.user
    BY <1>1, <2>1 DEF DeleteUser, Without, IsStore, Restrict
  <2>3. QED
    BY <2>2
<1>6. QED
  BY <1>2, <1>3, <1>4, <1>5
  DEF Next, AllDone, vars, Receive, ParseBody, VerifyJWT, SelectUser, Login, RefreshToken,
      Reply, Abort, Refuse, Goes

\* The generator never returns an id twice, and no statement but Create's adds
\* a row: an account that was deleted does not come back.
THEOREM DeletedStaysDeleted == Spec => DeletedForGood
<1>1. IInv /\ [Next]_vars =>
        [\A u \in issued : u \notin DOMAIN db.user => u \notin DOMAIN db'.user]_vars
  BY NoneComesBack
<1>2. QED
  BY <1>1, Invariance, PTL DEF Spec, DeletedForGood

\* Every answer of a call, in however many steps and among however many other
\* calls, is what the registry answers in one step while the call lasts.
THEOREM AnswersAtomic == Spec => AnswersAreAtomic
<1>1. Spec => Promise!Init /\ [][Promise!Next]_(Promise!vars)
  BY Invariance, InitStep, NextStep, PTL DEF Spec
<1>2. QED
  BY <1>1 DEF AnswersAreAtomic, Promise!Spec
=============================================================================
