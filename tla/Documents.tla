------------------------------ MODULE Documents ------------------------------
(***************************************************************************)
(* What becomes of the contents of a template, a recipient or a group on   *)
(* the way from the body of a request through a draft and a row to an      *)
(* answer: the parsers, the conversions of template ids, the VARCHAR       *)
(* columns and the serialisers.                                            *)
(*                                                                         *)
(* The model follows the last draft and the last object one user has made  *)
(* of one kind.  Every request is one action: each is one statement on one *)
(* row here (Catalog has the tokens, the ids that are wrong and what       *)
(* overlapping requests do to each other).  Deletions of templates, which  *)
(* draft and object of a group may name, come in between.                  *)
(***************************************************************************)
EXTENDS Schemas, Integers

CONSTANTS
    Word,       \* texts that do not end in spaces
    Length,     \* and how long they are
    Unstorable, \* those with a character that PostgreSQL takes into no text
    Bodies,     \* the bodies a client may send for a kind of object
    Template,   \* templates of the user
    Spelled,    \* the words that spell their ids, and whose
    Spelling,   \* the one of them that to_string gives
    Me, Id      \* the ids of the user and of a draft or an object

Kinds == {"template", "recipient", "group"}

\* A text is a word and the spaces behind it.
Text(word) == [word |-> word, spaces |-> 0]
Size(text) == Length[text.word] + text.spaces

Texts == [word : Word, spaces : Nat]

\* A JSON value holds what its type says.
WellTyped(json) ==
    /\ json.type # "missing"
    /\ json.type = "null" <=> json.value = NULL
    /\ json.type = "string" => json.value \in Texts

\* Bodies are JSON; ids are neither missing nor exceptions, and read back the
\* way to_string has written them.
ASSUME ContentsAssumption ==
    /\ NULL \notin Texts \cup {Thrown}
    /\ Unstorable \subseteq Word
    /\ Length \in [Word -> Nat] /\ Spelling \in [Template -> Word]
    /\ \A w \in DOMAIN Spelled : Spelled[w] \notin {NULL, Thrown}
    /\ \A t \in Template : Spelling[t] \in DOMAIN Spelled /\ Spelled[Spelling[t]] = t
    /\ \A k \in Kinds : \A body \in Bodies[k] : body.type = "object" =>
            \A p \in DOMAIN body.value : WellTyped(body.value[p])

VARIABLES
    kind,       \* the kind of the objects
    templates,  \* the templates that exist
    draft,      \* the row of the last draft, or NULL
    row,        \* the row of the last object, or NULL
    last,       \* the last request: operation, complaints, status, answer
    shown       \* history: the answer that showed the last draft

vars == <<kind, templates, draft, row, last, shown>>

(***************************************************************************)
(* Bodies and answers of each kind.                                        *)
(***************************************************************************)

Parse(body) ==
    CASE kind = "template"  -> ParseNotificationTemplateWithoutId(body)
      [] kind = "recipient" -> ParseRecipientWithoutId(body)
      [] kind = "group"     -> ParseRecipientGroupWithoutId(body)

DraftAnswer(struct) ==
    LET given == Merge(struct, [master_id |-> Text(Me), draft_id |-> Text(Id)])
    IN  CASE kind = "template"  -> SerializeNotificationTemplateDraft(given)
          [] kind = "recipient" -> SerializeRecipientDraft(given)
          [] kind = "group"     -> SerializeRecipientGroupDraft(given)

IdMember(k) ==
    CASE k = "template"  -> "notification_template_id"
      [] k = "recipient" -> "recipient_id"
      [] k = "group"     -> "recipient_group_id"

ObjectAnswer(struct) ==
    LET given == Merge(struct, [p \in {"master_id", IdMember(kind)} |->
                                    IF p = "master_id" THEN Text(Me) ELSE Text(Id)])
    IN  CASE kind = "template"  -> SerializeNotificationTemplateWithId(given)
          [] kind = "recipient" -> SerializeRecipientWithId(given)
          [] kind = "group"     -> SerializeRecipientGroupWithId(given)

(***************************************************************************)
(* Rows.                                                                   *)
(***************************************************************************)

\* VARCHAR(n) of the tables of objects, and of the tables of their drafts.
TemplateLimits       == [name |-> 64, message_text |-> 1024]
TemplateDraftLimits  == [name |-> 64, message_text |-> 1024]
RecipientLimits      == [name |-> 64, email |-> 512, phone_number |-> 32]
RecipientDraftLimits == [name |-> 64, email |-> 512, phone_number |-> 32]
GroupLimits          == [name |-> 64]
GroupDraftLimits     == [name |-> 64]

Limits == CASE kind = "template"  -> TemplateLimits
            [] kind = "recipient" -> RecipientLimits
            [] kind = "group"     -> GroupLimits

DraftLimits == CASE kind = "template"  -> TemplateDraftLimits
                 [] kind = "recipient" -> RecipientDraftLimits
                 [] kind = "group"     -> GroupDraftLimits

\* PostgreSQL refuses a text that is too long, unless the rest is spaces,
\* which it cuts off.
TooLong(struct, limits) ==
    \E p \in DOMAIN limits : struct[p] # NULL /\ Length[struct[p].word] > limits[p]

\* And it refuses, before it looks at any row, a text with the character
\* U+0000, which JSON can write and the server's encoding has no place for.
HasUnstorable(struct, limits) ==
    \E p \in DOMAIN limits : struct[p] # NULL /\ struct[p].word \in Unstorable

Cut(struct, limits) ==
    [p \in DOMAIN struct |->
        IF p \in DOMAIN limits /\ struct[p] # NULL /\ Size(struct[p]) > limits[p]
        THEN [struct[p] EXCEPT !.spaces = limits[p] - Length[struct[p].word]]
        ELSE struct[p]]

\* boost::lexical_cast takes any spelling of a uuid, and no spaces.
optional_str_to_uuid(text) ==
    IF text = NULL THEN NULL
    ELSE IF text.word \in DOMAIN Spelled /\ text.spaces = 0 THEN Spelled[text.word]
    ELSE Thrown

optional_uuid_to_str(uuid) == IF uuid = NULL THEN NULL ELSE Text(Spelling[uuid])

\* The template a group names is a uuid in its row (column template_id).
Named(struct) == IF kind = "group" THEN struct.notification_template_id ELSE NULL

Columns(struct) ==
    IF kind = "group"
    THEN [struct EXCEPT !.notification_template_id = optional_str_to_uuid(@)]
    ELSE struct

\* A fault: the template is not read back.
StructWithoutTemplate(columns) ==
    IF kind = "group" THEN [columns EXCEPT !.notification_template_id = NULL] ELSE columns

StructOf(columns) ==
    IF kind = "group"
    THEN [columns EXCEPT !.notification_template_id = optional_uuid_to_str(@)]
    ELSE columns

ForeignKeyHolds(columns) == Named(columns) \in templates \cup {NULL}

(***************************************************************************)
(* Requests.                                                               *)
(***************************************************************************)

\* BaseNotificationTemplate, BaseRecipient and BaseRecipientGroup of
\* swagger/schemas.yaml.
TemplateSchema == [required |-> [name |-> "string"],
                   optional |-> [message_text |-> "string"]]

RecipientSchema ==
    [required |-> [name |-> "string"],
     optional |-> [email |-> "string", phone_number |-> "string", telegram_id |-> "int64"]]

GroupSchema == [required |-> [name |-> "string", active |-> "bool"],
                optional |-> [notification_template_id |-> "string"]]

Schema == CASE kind = "template"  -> TemplateSchema
            [] kind = "recipient" -> RecipientSchema
            [] kind = "group"     -> GroupSchema

Required == Schema.required
Optional == Schema.optional

OfType(body, p, type) == body.value[p].type = type

\* What there is to say against a body: what the schema does not allow, where
\* a null stands for a member that is left out; a template that does not
\* exist; and what the documentation does not speak of, texts that are longer
\* than their columns or that no column takes.
Documented(body) ==
    /\ body.type = "object"
    /\ DOMAIN Required \subseteq DOMAIN body.value
    /\ \A p \in DOMAIN body.value :
            \/ p \in DOMAIN Required /\ OfType(body, p, Required[p])
            \/ p \in DOMAIN Optional /\ (OfType(body, p, Optional[p]) \/ OfType(body, p, "null"))

TemplateKnown(body) ==
    LET named == Property(body.value, "notification_template_id")
    IN  \/ kind # "group"
        \/ named.type \in {"missing", "null"}
        \/ \E t \in templates : \E w \in DOMAIN Spelled : Spelled[w] = t /\ named.value = Text(w)

\* The words of a body that go to a column with a limit.
TextsOf(body) ==
    {p \in DOMAIN body.value \cap DOMAIN Limits : body.value[p].type = "string"}

FitsColumns(body) ==
    \A p \in TextsOf(body) : Length[body.value[p].value.word] <= Limits[p]

IsStorable(body) == \A p \in TextsOf(body) : body.value[p].value.word \notin Unstorable

Complaints(body) ==
    IF ~Documented(body) THEN {"undocumented"}
    ELSE {c \in {"unknown template", "too long", "unstorable"} :
            \/ c = "unknown template" /\ ~TemplateKnown(body)
            \/ c = "too long" /\ ~FitsColumns(body)
            \/ c = "unstorable" /\ ~IsStorable(body)}

Request(op, complaints, status, answer) ==
    [op |-> op, complaints |-> complaints, status |-> status, answer |-> answer]

\* No statement is sent for a body that cannot be read.
Readable(struct) == struct # Thrown /\ Named(Columns(struct)) # Thrown

\* The handler's exceptions in the order they are met: the body, the id of
\* the template, the parameters of the statement, and in the statement the
\* lengths and then the foreign key.  Nothing catches the errors of PostgreSQL
\* about texts.
Refusal(struct, limits) ==
    IF ~Readable(struct) THEN "invalid"
    ELSE IF HasUnstorable(struct, limits) \/ TooLong(struct, limits) THEN "server error"
    ELSE IF ~ForeignKeyHolds(Columns(struct)) THEN "invalid"
    ELSE "none"

\* The draft is answered as the client has written it.
Create(body) ==
    LET struct  == Parse(body)
        refusal == Refusal(struct, DraftLimits)
    IN  /\ IF refusal = "none"
           THEN /\ draft' = Cut(Columns(struct), DraftLimits)
                /\ last' = Request("Create", Complaints(body), "ok", DraftAnswer(struct))
                /\ shown' = last'.answer
           ELSE /\ UNCHANGED <<draft, shown>>
                /\ last' = Request("Create", Complaints(body), refusal, NULL)
        /\ UNCHANGED <<kind, templates, row>>

\* INSERT ... SELECT of the columns of the draft.  A group's draft stays.
ConfirmCreation ==
    LET status == IF draft = NULL THEN "not found"
                  ELSE IF TooLong(draft, Limits) \/ ~ForeignKeyHolds(draft) THEN "server error"
                  ELSE "ok"
    IN  /\ IF status = "ok"
           THEN /\ row' = Cut(draft, Limits)
                /\ draft' = IF kind = "group" THEN draft ELSE NULL
                /\ last' = Request("ConfirmCreation", {}, "ok", ObjectAnswer(StructOf(row')))
           ELSE /\ last' = Request("ConfirmCreation", {}, status, NULL)
                /\ UNCHANGED <<draft, row>>
        /\ UNCHANGED <<kind, templates, shown>>

\* An UPDATE that finds no row has read its parameters, and may have looked at
\* their lengths all the same: that is up to the plan.
Modify(body) ==
    LET struct  == Parse(body)
        refusal == Refusal(struct, Limits)
    IN  /\ \/ /\ row # NULL /\ refusal = "none"
              /\ row' = Cut(Columns(struct), Limits)
              /\ last' = Request("Modify", Complaints(body), "ok", ObjectAnswer(StructOf(row')))
           \/ /\ refusal # "none"
              /\ row # NULL \/ ~Readable(struct) \/ refusal = "server error"
              /\ last' = Request("Modify", Complaints(body), refusal, NULL)
              /\ row' = row
           \/ /\ row = NULL /\ Readable(struct) /\ ~HasUnstorable(struct, Limits)
              /\ last' = Request("Modify", Complaints(body), "not found", NULL)
              /\ row' = row
        /\ UNCHANGED <<kind, templates, draft, shown>>

\* The lists, and GetById of templates and recipients.
Read ==
    /\ row # NULL
    /\ \E op \in {"GetAll", "GetById"} :
        /\ op = "GetById" => kind # "group"
        /\ last' = Request(op, {}, "ok", ObjectAnswer(StructOf(row)))
    /\ UNCHANGED <<kind, templates, draft, row, shown>>

\* GetById of groups takes the uuid of the template for a text: As<string>
\* refuses the column, or gives its bytes, which go into the answer between
\* quotes although they are no UTF-8 (a version 7 uuid begins with 01 9x).
GroupGetById ==
    /\ kind = "group" /\ row # NULL
    /\ \/ /\ Named(row) = NULL
          /\ last' = Request("GroupGetById", {}, "ok", ObjectAnswer(StructOf(row)))
       \/ /\ Named(row) # NULL
          /\ last' = Request("GroupGetById", {}, "server error", NULL)
       \/ /\ Named(row) # NULL
          /\ last' = Request("GroupGetById", {}, "ok",
                [ObjectAnswer(StructOf(row)) EXCEPT
                    !.notification_template_id = Json("bytes", Named(row))])
    /\ UNCHANGED <<kind, templates, draft, row, shown>>

Delete ==
    /\ row # NULL
    /\ row' = NULL
    /\ last' = Request("Delete", {}, "ok", NULL)
    /\ UNCHANGED <<kind, templates, draft, shown>>

\* A fault: the template is not looked up in the rows.
StaysNamed(columns, t) == columns

\* ON DELETE SET NULL of groups and of drafts of groups.
SetNull(columns, t) ==
    IF columns # NULL /\ kind = "group"
    THEN [columns EXCEPT !.notification_template_id = IF @ = t THEN NULL ELSE @]
    ELSE columns

DeleteTemplate(t) ==
    /\ kind = "group" /\ t \in templates
    /\ templates' = templates \ {t}
    /\ draft' = SetNull(draft, t)
    /\ row' = SetNull(row, t)
    /\ last' = Request("DeleteTemplate", {}, "ok", NULL)
    /\ UNCHANGED <<kind, shown>>

Init ==
    /\ kind \in Kinds
    /\ templates = Template
    /\ draft = NULL
    /\ row = NULL
    /\ last = Request("none", {}, "ok", NULL)
    /\ shown = NULL

Next ==
    \/ \E body \in Bodies[kind] : Create(body) \/ Modify(body)
    \/ ConfirmCreation \/ Read \/ GroupGetById \/ Delete
    \/ \E t \in Template : DeleteTemplate(t)

Spec == Init /\ [][Next]_vars

(***************************************************************************)
(* Properties.                                                             *)
(***************************************************************************)

\* Reading an object, taking the ids off and sending it back as a
\* modification changes nothing: every answer about a row parses to exactly
\* what the row holds.  It relates schemas.cpp, schemas_parsers.ipp, the order
\* of the parameters and columns of every statement and both conversions of
\* uuids.  (GetById of groups, groups.cpp:73, is left out: of a group that has
\* a template its answer is an error or no JSON.)
AnswersCanBeSentBack ==
    last.op \in {"ConfirmCreation", "Modify", "GetAll", "GetById"} /\ last.status = "ok" =>
        LET ids    == {"master_id", IdMember(kind)}
            struct == Parse(Json("object", [p \in DOMAIN last.answer \ ids |-> last.answer[p]]))
        IN  /\ Readable(struct)
            /\ Cut(Columns(struct), Limits) = row

\* What a user is shown of a draft is what the confirmation makes of it: the
\* object that is answered has the same members as the draft had in its answer,
\* numbers and flags unchanged, texts with at most some of the spaces at their
\* end cut off, and the same template however its id was spelled.  Only a
\* template that was deleted in between is missing.  The two answers are made
\* by different statements and serialisers, and the draft's is made from the
\* body, the object's from two tables the contents have gone through.
SameValue(p, before, after) ==
    CASE p = "notification_template_id" ->
            /\ after.type = "string"
            /\ before.value.word \in DOMAIN Spelled /\ after.value.word \in DOMAIN Spelled
            /\ Spelled[before.value.word] = Spelled[after.value.word]
      [] p # "notification_template_id" /\ before.type = "string" ->
            /\ after.type = "string" /\ after.value.word = before.value.word
            /\ after.value.spaces <= before.value.spaces
      [] OTHER -> after = before

TemplateGone(p) ==
    /\ p = "notification_template_id"
    /\ Spelled[shown[p].value.word] \notin templates

ConfirmedAsShown ==
    last.op = "ConfirmCreation" /\ last.status = "ok" =>
        /\ DOMAIN last.answer \ {IdMember(kind)} =
                {p \in DOMAIN shown \ {"draft_id"} : ~TemplateGone(p)}
        /\ \A p \in DOMAIN last.answer \ {IdMember(kind)} :
                SameValue(p, shown[p], last.answer[p])

\* A body is refused for a reason: a 422 is the answer to what schemas.yaml
\* does not allow or to a template that does not exist, whatever was deleted
\* since; a 500, which the documents keep for failures of the service, only to
\* a text that is too long for its column (tests for that are a TODO of
\* db_1.sql:1) or that PostgreSQL takes into none; and what is accepted has no
\* such fault.
ErrorsAreEarned ==
    last.op \in {"Create", "Modify"} =>
        /\ last.status = "ok" => last.complaints = {}
        /\ last.status = "invalid" => last.complaints \cap {"undocumented", "unknown template"} # {}
        /\ last.status = "server error" => last.complaints \cap {"too long", "unstorable"} # {}

\* What was accepted as a draft can be confirmed, if no other request is under
\* way at the same time (Catalog has those), whatever happens between the two
\* requests to the template it names: the columns of an object are as wide as
\* those of its draft, and the foreign key of the INSERT finds the template or
\* a NULL.
DraftsCanBeConfirmed == last.op = "ConfirmCreation" => last.status # "server error"
=============================================================================
