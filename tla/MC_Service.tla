----------------------------- MODULE MC_Service -----------------------------
(***************************************************************************)
(* A small instance of Service for TLC: one user with one group of two     *)
(* recipients, who may or may not have written to the bot before.          *)
(***************************************************************************)
EXTENDS Service

CONSTANTS u1, t1, r1, r2, g1, b1, c1, c2, hi, name1, pwd1

OneGroup(contacts) ==
    [user |-> [u \in {u1} |-> [name |-> name1, password |-> pwd1]],
     template |-> [t \in {t1} |-> [master |-> u1, text |-> hi]],
     recipient |-> [r \in {r1, r2} |-> [master |-> u1,
                                        chat |-> IF r = r1 THEN c1 ELSE c2]],
     group |-> [g \in {g1} |-> [master |-> u1, active |-> TRUE, template |-> t1]],
     member |-> {<<r1, g1>>, <<r2, g1>>},
     batch |-> [b \in {b1} |-> [master |-> u1, sent |-> FALSE]],
     notification |-> [n \in {} |-> NULL],
     contact |-> contacts,
     templateDraft |-> [d \in {} |-> NULL],
     recipientDraft |-> [d \in {} |-> NULL],
     groupDraft |-> [d \in {} |-> NULL]]

\* c1 has no row yet, or one of either kind; c2 has stopped.
Contacts(C) == {f \in [C -> [active : BOOLEAN]] : c2 \in C => ~f[c2].active}

Databases == {OneGroup(f) : f \in UNION {Contacts({c2} \cup C) : C \in SUBSET {c1}}}

Send == {[op |-> "SendBatch", user |-> u1, arg |-> b1]}

\* The commands that change a subscription, and a message without a text.
Written == {"send_notifications", "stop_notifications", "no_text"}
=============================================================================
