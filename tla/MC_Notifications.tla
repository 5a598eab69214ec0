-------------------------- MODULE MC_Notifications --------------------------
(***************************************************************************)
(* Small instances of Notifications for TLC: the databases the service     *)
(* starts on and the requests the clients make.                            *)
(***************************************************************************)
EXTENDS Notifications

CONSTANTS u1, u2, t1, t2, r1, r2, g1, g2, b1, b2, n1, c1, c2, hi, name1, name2, pwd1

\* Two users.  u1 has a batch to send and a group g1 with members r1 and r2,
\* both with telegram; u2 has a batch and an empty group.
TwoUsers ==
    [user |-> [u \in {u1, u2} |-> [name |-> IF u = u1 THEN name1 ELSE name2,
                                   password |-> pwd1]],
     template |-> [t \in {t1} |-> [master |-> u1, text |-> hi]],
     recipient |-> [r \in {r1, r2} |-> [master |-> u1,
                                        chat |-> IF r = r1 THEN c1 ELSE c2]],
     group |-> [g \in {g1, g2} |-> [master |-> IF g = g1 THEN u1 ELSE u2,
                                    active |-> TRUE, template |-> t1]],
     member |-> {<<r1, g1>>, <<r2, g1>>},
     batch |-> [b \in {b1, b2} |-> [master |-> IF b = b1 THEN u1 ELSE u2,
                                    sent |-> FALSE]],
     notification |-> [n \in {} |-> NULL],
     contact |-> [c \in {c1, c2} |-> [active |-> TRUE]],
     templateDraft |-> [d \in {} |-> NULL],
     recipientDraft |-> [d \in {} |-> NULL],
     groupDraft |-> [d \in {} |-> NULL]]

\* The same, later: u1's batch was sent, and the notification of r1 remains.
AlreadySent ==
    [TwoUsers EXCEPT
        !.batch[b1].sent = TRUE,
        !.notification = [n \in {n1} |-> [batch |-> b1, recipient |-> r1, group |-> g1,
                                          completed |-> FALSE]]]

Fresh == {TwoUsers}
FreshOrSent == {TwoUsers, AlreadySent}

Ask(op, u, arg) == [op |-> op, user |-> u, arg |-> arg]

\* Both calls send the same batch, or one of them cancels what the other
\* may have recorded.
SendAndCancel ==
    {Ask("SendBatch", u1, b1), Ask("CancelNotification", u1, n1)}

SendOnly == {Ask("SendBatch", u1, b1)}

\* Every operation, with tokens and arguments that are no good as well.
Everything ==
    {Ask("CreateBatch", u1, NULL), Ask("CreateBatch", NULL, NULL),
     Ask("SendBatch", u1, b1), Ask("SendBatch", u2, b1), Ask("SendBatch", u1, NULL),
     Ask("CancelNotification", u1, n1), Ask("GetById", u1, n1),
     Ask("GetAll", u1, NULL), Ask("GetPending", u1, NULL)}
=============================================================================
