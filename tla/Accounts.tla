------------------------------- MODULE Accounts -------------------------------
(***************************************************************************)
(* Accounts: the handlers of src/user/handlers.cpp, UserManager and        *)
(* JWTManager, with one action per SQL statement or transaction and one    *)
(* for what follows a read.  Calls run concurrently, and any call may be   *)
(* cut short.                                                              *)
(*                                                                         *)
(* A token is the user it names: issue times, expiry and signatures are    *)
(* left out.  NULL is a token that does not verify: a bad signature, an    *)
(* expired one, or a text that does not even decode.  A password stands    *)
(* for its salted hashes, which are equal when the passwords are.          *)
(***************************************************************************)
EXTENDS EnsStore

CONSTANTS
    Call,           \* requests the clients make, one each
    Requests,       \* what a client may ask for
    InitialStores   \* the databases the service may be started on

Ops == {"Create", "Login", "Modify", "RefreshToken", "Delete"}
TokenOps == {"Modify", "RefreshToken", "Delete"}
BodyOps == {"Create", "Login", "Modify"}

\* A request: user is whom the token names, NULL when it does not verify or
\* none is asked for; name is NULL when the body is not the JSON of a user.
Request == [op : Ops, user : User \cup {NULL}, name : Name \cup {NULL}, password : Password]

ASSUME AccountRequestsAssumption == Requests \subseteq Request /\ NULL \notin Name \cup Requests

ASSUME AccountStoresAssumption ==
    \A d \in InitialStores : StoreInvariant(d) /\ UniqueNames(d)

VARIABLES
    db,         \* the store
    issued,     \* ids that accounts were ever given
    call        \* the state of each call

vars == <<db, issued, call>>

PC == {"idle", "parse", "verify", "statement", "compare", "reply", "done"}

Response == {"none", "Ok", "NotFound", "Invalid", "Conflict", "Unauthorized",
             "ServerError", "Aborted"}

\* What Login has read.
Stored == [user : User, password : Password]

CallState == [pc : PC, req : Request \cup {NULL}, row : Stored \cup {NULL},
              token : User \cup {NULL}, resp : Response]

TypeOK ==
    /\ IsStore(db)
    /\ call \in [Call -> CallState]
    /\ \A c \in Call : call[c].pc # "idle" => call[c].req \in Request
    /\ \A c \in Call : call[c].pc = "compare" => call[c].row \in Stored
    /\ DOMAIN db.user \subseteq issued

Idle == [pc |-> "idle", req |-> NULL, row |-> NULL, token |-> NULL, resp |-> "none"]

Init ==
    /\ db \in InitialStores
    /\ issued = DOMAIN db.user
    /\ call = [c \in Call |-> Idle]

\* The next id of the generator: it has never been returned before.
NewId == CHOOSE i \in User : i \notin issued

\* The handler has computed its answer (or an exception became one); token is
\* whom the JWT pair in it names.
AnswerWith(c, r, token) ==
    call' = [call EXCEPT ![c].pc = "reply", ![c].resp = r, ![c].token = token]

Answer(c, r) == AnswerWith(c, r, NULL)

Refuse(c, r) == Answer(c, r) /\ UNCHANGED <<db, issued>>

Goes(c, pc) == call' = [call EXCEPT ![c].pc = pc] /\ UNCHANGED <<db, issued>>

At(c, op) == call[c].pc = "statement" /\ call[c].req.op = op

-----------------------------------------------------------------------------
(* What the handlers do first.                                             *)

Receive(c) ==
    /\ call[c].pc = "idle"
    /\ \E q \in Requests : call' = [call EXCEPT ![c].pc = "parse", ![c].req = q]
    /\ UNCHANGED <<db, issued>>

\* A fault: a body without a name is taken as it is.
ParseAnyBody(c) ==
    /\ call[c].pc = "parse"
    /\ Goes(c, IF call[c].req.op \in TokenOps THEN "verify" ELSE "statement")

\* The body is parsed before the token is looked at.
ParseBody(c) ==
    /\ call[c].pc = "parse"
    /\ \/ call[c].req.op \in BodyOps /\ call[c].req.name = NULL /\ Refuse(c, "Invalid")
       \/ /\ call[c].req.op \in BodyOps => call[c].req.name # NULL
          /\ Goes(c, IF call[c].req.op \in TokenOps THEN "verify" ELSE "statement")

\* The handler of RefreshToken has a code of its own for a bad token.  Nobody
\* catches what jwt-cpp throws at a token that is not base64 or JSON, or that
\* has no user_id.
VerifyJWT(c) ==
    /\ call[c].pc = "verify"
    /\ \/ call[c].req.user \in DOMAIN db.user /\ Goes(c, "statement")
       \/ /\ call[c].req.user \notin DOMAIN db.user
          /\ Refuse(c, IF call[c].req.op = "RefreshToken" THEN "NotFound" ELSE "Unauthorized")
       \/ call[c].req.user = NULL /\ Refuse(c, "ServerError")

-----------------------------------------------------------------------------
(* The methods of UserManager.                                             *)

\* ON CONFLICT (name) DO NOTHING, then the row count.
Create(c) ==
    /\ At(c, "Create")
    /\ \/ /\ ~NameTaken(db, call[c].req.name)
          /\ User \ issued # {}
          /\ db' = InsertUser(db, NewId, call[c].req.name, call[c].req.password)
          /\ issued' = issued \cup {NewId}
          /\ AnswerWith(c, "Ok", NewId)
       \/ NameTaken(db, call[c].req.name) /\ Refuse(c, "Conflict")

\* Login: the SELECT.
SelectUser(c) ==
    /\ At(c, "Login")
    /\ \/ /\ \E u \in DOMAIN db.user :
                /\ db.user[u].name = call[c].req.name
                /\ call' = [call EXCEPT
                              ![c].pc = "compare",
                              ![c].row = [user |-> u, password |-> db.user[u].password]]
          /\ UNCHANGED <<db, issued>>
       \/ ~NameTaken(db, call[c].req.name) /\ Refuse(c, "NotFound")

\* A fault: the token is made out to whoever has the name by now.
LoginNamesakes(c) ==
    /\ call[c].pc = "compare"
    /\ \E u \in DOMAIN db.user :
        /\ db.user[u].name = call[c].req.name
        /\ call[c].row.password = call[c].req.password
        /\ AnswerWith(c, "Ok", u)
    /\ UNCHANGED <<db, issued>>

\* Login: the rest, with the row of the SELECT ("May log in by old credentials
\* due to unfinished ModifyUser", user.cpp:54).
Login(c) ==
    /\ call[c].pc = "compare"
    /\ \/ /\ call[c].row.password = call[c].req.password
          /\ AnswerWith(c, "Ok", call[c].row.user)
       \/ /\ call[c].row.password # call[c].req.password
          /\ Answer(c, "Unauthorized")
    /\ UNCHANGED <<db, issued>>

\* A fault: names are not UNIQUE.
ModifyAnyName(c) ==
    /\ At(c, "Modify")
    /\ LET q == call[c].req
       IN  \/ /\ q.user \in DOMAIN db.user
              /\ db' = UpdateUser(db, q.user, q.name, q.password)
              /\ Answer(c, "Ok") /\ UNCHANGED issued
           \/ q.user \notin DOMAIN db.user /\ Refuse(c, "NotFound")

\* A fault: ON CONFLICT DO UPDATE, an account that is gone comes back.
ModifyUpserts(c) ==
    /\ At(c, "Modify")
    /\ LET q == call[c].req
       IN  \/ /\ \A v \in DOMAIN db.user \ {q.user} : db.user[v].name # q.name
              /\ db' = UpdateUser(db, q.user, q.name, q.password)
              /\ Answer(c, "Ok") /\ UNCHANGED issued
           \/ /\ \E v \in DOMAIN db.user \ {q.user} : db.user[v].name = q.name
              /\ Refuse(c, "ServerError")

\* Another user's name is a unique violation, which nobody catches.
ModifyUser(c) ==
    /\ At(c, "Modify")
    /\ LET q == call[c].req
           taken == \E v \in DOMAIN db.user \ {q.user} : db.user[v].name = q.name
       IN  \/ /\ q.user \in DOMAIN db.user /\ ~taken
              /\ db' = UpdateUser(db, q.user, q.name, q.password)
              /\ Answer(c, "Ok") /\ UNCHANGED issued
           \/ q.user \in DOMAIN db.user /\ taken /\ Refuse(c, "ServerError")
           \/ q.user \notin DOMAIN db.user /\ Refuse(c, "NotFound")

\* Nothing is read again: the token is made out to the user found before.
RefreshToken(c) ==
    /\ At(c, "RefreshToken")
    /\ AnswerWith(c, "Ok", call[c].req.user)
    /\ UNCHANGED <<db, issued>>

DeleteAccount(c) ==
    /\ At(c, "Delete")
    /\ \/ /\ call[c].req.user \in DOMAIN db.user
          /\ db' = DeleteUser(db, call[c].req.user)
          /\ Answer(c, "Ok") /\ UNCHANGED issued
       \/ call[c].req.user \notin DOMAIN db.user /\ Refuse(c, "NotFound")

-----------------------------------------------------------------------------

Reply(c) == call[c].pc = "reply" /\ Goes(c, "done")

\* The process stops, the database refuses a statement, or the client is cut
\* off: an open transaction is rolled back.
Abort(c) ==
    /\ call[c].pc \notin {"idle", "done"}
    /\ call' = [call EXCEPT ![c].pc = "done", ![c].resp = "Aborted", ![c].token = NULL]
    /\ UNCHANGED <<db, issued>>

\* Every call has been answered: nothing is left for this component to do.
AllDone == (\A c \in Call : call[c].pc = "done") /\ UNCHANGED vars

Next ==
    \/ \E c \in Call :
        \/ Receive(c) \/ ParseBody(c) \/ VerifyJWT(c)
        \/ Create(c) \/ SelectUser(c) \/ Login(c) \/ ModifyUser(c) \/ RefreshToken(c)
        \/ DeleteAccount(c)
        \/ Reply(c) \/ Abort(c)
    \/ AllDone

Spec == Init /\ [][Next]_vars

-----------------------------------------------------------------------------
(* Safety.                                                                 *)

\* No two accounts have one name, whatever calls create, rename and delete
\* accounts at the same time: SelectUser never has two rows to choose from.
NamesAreUnique == UniqueNames(db)

\* A deleted account never comes back: an id that was given to an account and
\* is without one stays so, although calls that have verified its token go on.
DeletedForGood ==
    [][\A u \in issued : u \notin DOMAIN db.user => u \notin DOMAIN db'.user]_vars

\* The moment a call takes effect is its last look at the table: Login's
\* SELECT, RefreshToken's VerifyJWT, and the only statement of the others.
Effect(c) ==
    CASE call[c].pc = "compare" /\ call[c].row.password = call[c].req.password
            -> [resp |-> "Ok", token |-> call[c].row.user]
      [] call[c].pc = "compare" /\ call[c].row.password # call[c].req.password
            -> [resp |-> "Unauthorized", token |-> NULL]
      [] call[c].pc = "statement" /\ call[c].req.op = "RefreshToken"
            -> [resp |-> "Ok", token |-> call[c].req.user]
      [] OTHER -> [resp |-> call[c].resp, token |-> call[c].token]

Promise == INSTANCE Registry WITH
    accounts <- db.user,
    used <- issued,
    asked <- [c \in Call |-> call[c].req],
    answer <- [c \in Call |-> Effect(c)]

\* The calls of accounts, in several steps each, are those of the registry:
\* every answer is what one step at some moment during the call gives.
AnswersAreAtomic == Promise!Spec
=============================================================================
