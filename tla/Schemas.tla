------------------------------ MODULE Schemas -------------------------------
(***************************************************************************)
(* The JSON documents of the service: the structs of                       *)
(* src/schemas/schemas.hpp, the parsers that read the bodies of requests   *)
(* (schemas_parsers.ipp) and the serialisers that write the answers        *)
(* (schemas.cpp).                                                          *)
(*                                                                         *)
(* A JSON object is a function from the names of its properties to JSON    *)
(* values, a JSON value a record of its type and its value.  A struct is a *)
(* function from its members to values, an empty std::optional is NULL.    *)
(* Texts and numbers stay abstract: no parser and no serialiser looks      *)
(* into them.                                                              *)
(*                                                                         *)
(* Only what a handler calls is here.  The parsers of the documents the    *)
(* service returns are generated but never called, the lists of            *)
(* notifications fail before they serialise anything (Notifications), and  *)
(* the documents of accounts are in Accounts, as names and passwords.      *)
(***************************************************************************)

CONSTANT NULL   \* no value

\* What an exception leaves behind: no struct, and no uuid either.
Thrown == [what |-> "exception"]

(***************************************************************************)
(* JSON.                                                                   *)
(***************************************************************************)

Json(type, value) == [type |-> type, value |-> value]

\* json[p] of userver: a property that is not there can be asked for.
Property(json, p) ==
    IF p \in DOMAIN json THEN json[p] ELSE Json("missing", NULL)

Merge(json, patch) ==
    [p \in DOMAIN json \cup DOMAIN patch |->
        IF p \in DOMAIN patch THEN patch[p] ELSE json[p]]

\* CheckNotMissing, CheckObjectOrNull, As<Primitive> of the required and
\* As<optional<Primitive>> of the other members.  Null is no object here: it
\* has no properties, and every document has a required one.
Holds(body, required, optional) ==
    /\ body.type = "object"
    /\ \A p \in DOMAIN required : Property(body.value, p).type = required[p]
    /\ \A p \in DOMAIN optional :
            Property(body.value, p).type \in {optional[p], "null", "missing"}

\* The members of a struct that the parser has found valid.
Members(body, required, optional) ==
    [p \in DOMAIN required \cup DOMAIN optional |-> Property(body.value, p).value]

ValidateNoAdditionalProperties(body, names) == DOMAIN body.value \subseteq names

\* A fault: the names of the properties are not looked at.
ParsedWithExtras(body, required, optional, names) ==
    IF Holds(body, required, optional) THEN Members(body, required, optional) ELSE Thrown

Parsed(body, required, optional, names) ==
    IF Holds(body, required, optional) /\ ValidateNoAdditionalProperties(body, names)
    THEN Members(body, required, optional)
    ELSE Thrown

\* What a serialiser puts into its builder: these members always, those if
\* they have a value.
Written(struct, types, always, ifSet) ==
    [p \in always \cup {q \in ifSet : struct[q] # NULL} |-> Json(types[p], struct[p])]

(***************************************************************************)
(* Templates.                                                              *)
(***************************************************************************)

BaseNotificationTemplate == [name |-> "string", message_text |-> "string"]
ReturnedNotificationTemplate == Merge(BaseNotificationTemplate, [master_id |-> "string"])
NotificationTemplateDraft == Merge(ReturnedNotificationTemplate, [draft_id |-> "string"])
NotificationTemplateWithId ==
    Merge(ReturnedNotificationTemplate, [notification_template_id |-> "string"])

ParseBaseNotificationTemplate(body) ==
    Parsed(body, [name |-> "string"], [message_text |-> "string"], {"name", "message_text"})

\* The part of its own takes every property as an extra one.
ParseNotificationTemplateWithoutId(body) == ParseBaseNotificationTemplate(body)

SerializeBaseNotificationTemplate(struct) ==
    Written(struct, BaseNotificationTemplate, {"name"}, {"message_text"})

SerializeReturnedNotificationTemplate(struct) ==
    Merge(SerializeBaseNotificationTemplate(struct),
          Written(struct, ReturnedNotificationTemplate, {"master_id"}, {}))

SerializeNotificationTemplateDraft(struct) ==
    Merge(SerializeReturnedNotificationTemplate(struct),
          Written(struct, NotificationTemplateDraft, {"draft_id"}, {}))

SerializeNotificationTemplateWithId(struct) ==
    Merge(SerializeReturnedNotificationTemplate(struct),
          Written(struct, NotificationTemplateWithId, {"notification_template_id"}, {}))

(***************************************************************************)
(* Recipients.                                                             *)
(***************************************************************************)

BaseRecipient ==
    [name |-> "string", email |-> "string", phone_number |-> "string", telegram_id |-> "int64"]
ReturnedRecipient == Merge(BaseRecipient, [master_id |-> "string"])
RecipientDraft == Merge(ReturnedRecipient, [draft_id |-> "string"])
RecipientWithId == Merge(ReturnedRecipient, [recipient_id |-> "string"])

ParseBaseRecipient(body) ==
    Parsed(body, [name |-> "string"],
           [email |-> "string", phone_number |-> "string", telegram_id |-> "int64"],
           {"name", "email", "phone_number", "telegram_id"})

ParseRecipientWithoutId(body) == ParseBaseRecipient(body)

\* A fault: a member is forgotten.
SerializeWithoutTelegram(struct) ==
    Written(struct, BaseRecipient, {"name"}, {"email", "phone_number"})

SerializeBaseRecipient(struct) ==
    Written(struct, BaseRecipient, {"name"}, {"email", "phone_number", "telegram_id"})

SerializeReturnedRecipient(struct) ==
    Merge(SerializeBaseRecipient(struct),
          Written(struct, ReturnedRecipient, {"master_id"}, {}))

SerializeRecipientDraft(struct) ==
    Merge(SerializeReturnedRecipient(struct),
          Written(struct, RecipientDraft, {"draft_id"}, {}))

SerializeRecipientWithId(struct) ==
    Merge(SerializeReturnedRecipient(struct),
          Written(struct, RecipientWithId, {"recipient_id"}, {}))

(***************************************************************************)
(* Groups.                                                                 *)
(***************************************************************************)

BaseRecipientGroup ==
    [name |-> "string", notification_template_id |-> "string", active |-> "bool"]
ReturnedRecipientGroup == Merge(BaseRecipientGroup, [master_id |-> "string"])
RecipientGroupDraft == Merge(ReturnedRecipientGroup, [draft_id |-> "string"])
RecipientGroupWithId == Merge(ReturnedRecipientGroup, [recipient_group_id |-> "string"])

ParseBaseRecipientGroup(body) ==
    Parsed(body, [name |-> "string", active |-> "bool"],
           [notification_template_id |-> "string"],
           {"name", "notification_template_id", "active"})

ParseRecipientGroupWithoutId(body) == ParseBaseRecipientGroup(body)

SerializeBaseRecipientGroup(struct) ==
    Written(struct, BaseRecipientGroup, {"name", "active"}, {"notification_template_id"})

SerializeReturnedRecipientGroup(struct) ==
    Merge(SerializeBaseRecipientGroup(struct),
          Written(struct, ReturnedRecipientGroup, {"master_id"}, {}))

SerializeRecipientGroupDraft(struct) ==
    Merge(SerializeReturnedRecipientGroup(struct),
          Written(struct, RecipientGroupDraft, {"draft_id"}, {}))

SerializeRecipientGroupWithId(struct) ==
    Merge(SerializeReturnedRecipientGroup(struct),
          Written(struct, RecipientGroupWithId, {"recipient_group_id"}, {}))
=============================================================================
