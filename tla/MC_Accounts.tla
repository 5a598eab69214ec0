----------------------------- MODULE MC_Accounts -----------------------------
(***************************************************************************)
(* A small instance of Accounts for TLC: the database the service starts   *)
(* on and the requests the clients make.                                   *)
(***************************************************************************)
EXTENDS Accounts

CONSTANTS u1, u2, name1, name2, name3, pwd1, pwd2

Empty == [k \in {} |-> NULL]

\* Two users and none of their data.
TwoUsers ==
    [user |-> [u \in {u1, u2} |-> [name |-> IF u = u1 THEN name1 ELSE name2,
                                   password |-> pwd1]],
     template |-> Empty, recipient |-> Empty, group |-> Empty, member |-> {},
     batch |-> Empty, notification |-> Empty, contact |-> Empty,
     templateDraft |-> Empty, recipientDraft |-> Empty, groupDraft |-> Empty]

Store == {TwoUsers}

Body(op, name, password) == [op |-> op, user |-> NULL, name |-> name, password |-> password]
Of(u, q) == [q EXCEPT !.user = u]

\* Every operation, on names that are taken, free, or become so, with tokens
\* and bodies that are no good as well.
Everything ==
    {Body("Create", name, pwd1) : name \in {name1, name3, NULL}}
    \cup {Body("Login", name1, pwd) : pwd \in Password}
    \cup {Of(u1, Body("Modify", name, pwd2)) : name \in {name1, name3, NULL}}
    \cup {Of(u2, Body("Modify", name, pwd2)) : name \in {name1, name3}}
    \cup {Of(u1, Body(op, NULL, pwd1)) : op \in {"RefreshToken", "Delete"}}
    \cup {Body("RefreshToken", NULL, pwd1)}
=============================================================================
