----------------------------- MODULE MC_Catalog -----------------------------
(***************************************************************************)
(* Small instances of Catalog for TLC: the database the service starts on  *)
(* and the requests the clients make.                                      *)
(***************************************************************************)
EXTENDS Catalog, TLC

CONSTANTS u1, u2, t1, t2, tnew1, r1, r2, r3, g1, g2, d1, d2, d3,
          d4, b1, n1, c1, hi, name1, name2, pwd1

\* Two users.  u1 has a template t1, recipients r1 and r2, a group g1 that
\* uses t1 and has r1 as member, an empty group g2, a draft of each kind, and
\* a draft of a group that uses a template of another user, t2, which no check
\* rules out; u2 has that template and a recipient r3.
TwoUsers ==
    [user |-> [u \in {u1, u2} |-> [name |-> IF u = u1 THEN name1 ELSE name2,
                                   password |-> pwd1]],
     template |-> [t \in {t1, t2} |-> [master |-> IF t = t2 THEN u2 ELSE u1, text |-> hi]],
     recipient |-> [r \in {r1, r2, r3} |-> [master |-> IF r = r3 THEN u2 ELSE u1,
                                            chat |-> c1]],
     group |-> [g \in {g1, g2} |-> [master |-> u1, active |-> TRUE,
                                    template |-> IF g = g1 THEN t1 ELSE NULL]],
     member |-> {<<r1, g1>>},
     batch |-> [b \in {b1} |-> [master |-> u1, sent |-> TRUE]],
     notification |-> [n \in {n1} |-> [batch |-> b1, recipient |-> r1, group |-> g1,
                                       completed |-> FALSE]],
     contact |-> [c \in {c1} |-> [active |-> TRUE]],
     templateDraft |-> [d \in {d1} |-> [master |-> u1, text |-> hi]],
     recipientDraft |-> [d \in {d2} |-> [master |-> u1, chat |-> c1]],
     groupDraft |-> [d \in {d3, d4} |-> [master |-> u1, active |-> TRUE,
                                         template |-> IF d = d4 THEN t2 ELSE t1]]]

Store == {TwoUsers}

\* No call is different from another.
SameCalls == Permutations(Call)

Ask(op, arg) == [op |-> op, user |-> u1, arg |-> arg, recipient |-> NULL, body |-> NULL]
AskMember(op, r, g) == [Ask(op, g) EXCEPT !.recipient = r]
AskBody(op, arg, body) == [Ask(op, arg) EXCEPT !.body = body]

Uses(template) == [active |-> FALSE, template |-> template]

\* Every operation, most of them on rows that exist, and every way to be
\* turned away.  Nobody has made tnew1 when it is asked for.
Everything ==
    {Ask(op, NULL) : op \in ListOps \cup {"GroupDeleteGroup", "TemplateCreate"}}
    \cup {Ask(op, t1) : op \in {"TemplateGetById", "TemplateDelete"}}
    \cup {Ask(op, r1) : op \in {"RecipientGetById", "RecipientDelete"}}
    \cup {Ask(op, g1) : op \in {"GroupGetById", "GroupGetRecipients", "GroupDeleteGroup"}}
    \cup {Ask("TemplateConfirmCreation", d1), Ask("RecipientConfirmCreation", d2),
          Ask("GroupConfirmCreation", d3), Ask("GroupConfirmCreation", d4),
          Ask("GroupConfirmCreation", d1),
          Ask("GroupGetRecipients", g2)}
    \cup {AskBody("TemplateCreate", NULL, [text |-> NULL]),
          AskBody("TemplateModify", t1, [text |-> NULL]),
          AskBody("RecipientCreate", NULL, [chat |-> c1]),
          AskBody("RecipientModify", r1, [chat |-> NULL])}
    \cup {AskBody(op, arg, Uses(template)) :
            op \in {"GroupModifyGroup"}, arg \in {g1}, template \in {NULL, t1, BadId}}
    \cup {AskBody("GroupCreate", NULL, Uses(template)) : template \in {NULL, t1, tnew1, BadId}}
    \cup {AskMember(op, r, g1) : op \in MemberOps, r \in {r1, r2, r3, NULL}}
    \cup {[Ask("RecipientDelete", r1) EXCEPT !.user = NULL]}

\* Calls that add, remove, confirm and delete the same few rows.
Writes ==
    {AskMember(op, r1, g1) : op \in MemberOps}
    \cup {Ask("TemplateDelete", t1), Ask("RecipientDelete", r1),
          Ask("TemplateConfirmCreation", d1), Ask("RecipientConfirmCreation", d2),
          AskBody("GroupModifyGroup", g1, Uses(t1)), Ask("GroupGetRecipients", g1)}

ConfirmGroup == {Ask("GroupConfirmCreation", d3)}
=============================================================================
