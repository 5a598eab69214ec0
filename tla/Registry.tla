------------------------------- MODULE Registry -------------------------------
(***************************************************************************)
(* What the accounts component promises: every call takes effect and gets  *)
(* its answer in one step, at some moment between its request and its      *)
(* reply.  Module Accounts, where calls read, wait and write in several    *)
(* steps, implements it.                                                   *)
(***************************************************************************)
EXTENDS Functions

CONSTANTS User, Name, Password, Call, Requests, NULL

VARIABLES
    accounts,   \* the account of each user that has one
    used,       \* ids that were ever given to an account
    asked,      \* the request of each call, NULL before it
    answer      \* the answer of each call: its code, and whose token it has

vars == <<accounts, used, asked, answer>>

NoAnswer == [resp |-> "none", token |-> NULL]

Init ==
    /\ \E U \in SUBSET User :
        /\ accounts \in [U -> [name : Name, password : Password]]
        /\ \A u, v \in U : accounts[u].name = accounts[v].name => u = v
    /\ used = DOMAIN accounts
    /\ asked = [c \in Call |-> NULL]
    /\ answer = [c \in Call |-> NoAnswer]

Ask(c) ==
    /\ asked[c] = NULL
    /\ \E q \in Requests : asked' = [asked EXCEPT ![c] = q]
    /\ UNCHANGED <<accounts, used, answer>>

Asks(c, op) == asked[c] # NULL /\ asked[c].op = op /\ answer[c] = NoAnswer

Finish(c, resp, token) == answer' = [answer EXCEPT ![c] = [resp |-> resp, token |-> token]]

Refuse(c, resp) == Finish(c, resp, NULL) /\ UNCHANGED <<accounts, used>>

\* The user who has this name.
Named(name) == {u \in DOMAIN accounts : accounts[u].name = name}

Set(u, q) ==
    accounts' = [v \in DOMAIN accounts \cup {u} |->
                    IF v = u THEN [name |-> q.name, password |-> q.password]
                    ELSE accounts[v]]

Create(c, q) ==
    /\ Asks(c, "Create")
    /\ \/ /\ Named(q.name) = {}
          /\ \E u \in User \ used :
                Set(u, q) /\ used' = used \cup {u} /\ Finish(c, "Ok", u)
       \/ Named(q.name) # {} /\ Refuse(c, "Conflict")

Login(c, q) ==
    /\ Asks(c, "Login")
    /\ \/ Named(q.name) = {} /\ Refuse(c, "NotFound")
       \/ \E u \in Named(q.name) :
            \/ /\ accounts[u].password = q.password
               /\ Finish(c, "Ok", u)
               /\ UNCHANGED <<accounts, used>>
            \/ accounts[u].password # q.password /\ Refuse(c, "Unauthorized")

\* A call whose token names no account (any more), or is none at all.
NoAccount(c, q) ==
    \/ /\ q.user \notin DOMAIN accounts
       /\ \E r \in {"Unauthorized", "NotFound"} : Refuse(c, r)
    \/ q.user = NULL /\ Refuse(c, "ServerError")

Modify(c, q) ==
    /\ Asks(c, "Modify")
    /\ \/ /\ q.user \in DOMAIN accounts /\ Named(q.name) \subseteq {q.user}
          /\ Set(q.user, q) /\ UNCHANGED used /\ Finish(c, "Ok", NULL)
       \/ /\ q.user \in DOMAIN accounts /\ ~(Named(q.name) \subseteq {q.user})
          /\ Refuse(c, "ServerError")
       \/ NoAccount(c, q)

Refresh(c, q) ==
    /\ Asks(c, "RefreshToken")
    /\ \/ /\ q.user \in DOMAIN accounts
          /\ Finish(c, "Ok", q.user) /\ UNCHANGED <<accounts, used>>
       \/ NoAccount(c, q)

Delete(c, q) ==
    /\ Asks(c, "Delete")
    /\ \/ /\ q.user \in DOMAIN accounts
          /\ accounts' = Restrict(accounts, DOMAIN accounts \ {q.user})
          /\ Finish(c, "Ok", NULL) /\ UNCHANGED used
       \/ NoAccount(c, q)

\* The request is not what the handler expects.
Malformed(c, q) ==
    /\ \E op \in {"Create", "Login", "Modify"} : Asks(c, op)
    /\ q.name = NULL
    /\ Refuse(c, "Invalid")

\* The client is never told, whether the call has taken effect or not.
Lose(c) == asked[c] # NULL /\ Finish(c, "Aborted", NULL) /\ UNCHANGED <<accounts, used>>

Next ==
    \E c \in Call :
        \/ Ask(c)
        \/ /\ \E q \in {asked[c]} :
                \/ Create(c, q) \/ Login(c, q) \/ Modify(c, q) \/ Refresh(c, q)
                \/ Delete(c, q) \/ Malformed(c, q)
           /\ UNCHANGED asked
        \/ Lose(c) /\ UNCHANGED asked

Spec == Init /\ [][Next]_vars
=============================================================================
