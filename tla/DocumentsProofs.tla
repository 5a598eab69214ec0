--------------------------- MODULE DocumentsProofs ---------------------------
(***************************************************************************)
(* For all bodies, texts and ids: what is answered about a row can be sent *)
(* back, what is refused has a fault, and what is accepted as a draft can  *)
(* be confirmed and becomes the object that was shown.                     *)
(*                                                                         *)
(* The lemmas at the start say what the generated parsers and serialisers  *)
(* of the three kinds have in common; after them no proof looks at the     *)
(* members of a kind again.                                                *)
(***************************************************************************)
EXTENDS Documents, TLAPS

\* The members of the structs of a kind.
Names == DOMAIN Required \cup DOMAIN Optional

\* The members of the kind that are texts.
TextMember(p) ==
    \/ p \in DOMAIN Required /\ Required[p] = "string"
    \/ p \in DOMAIN Optional /\ Optional[p] = "string"

-----------------------------------------------------------------------------
(* The kinds.                                                              *)

\* The members of each kind.
LEMMA SchemaOfKind ==
    /\ kind = "template" => /\ Required = [name |-> "string"]
                            /\ Optional = [message_text |-> "string"]
    /\ kind = "recipient" => /\ Required = [name |-> "string"]
                             /\ Optional = [email |-> "string", phone_number |-> "string",
                                            telegram_id |-> "int64"]
    /\ kind = "group" => /\ Required = [name |-> "string", active |-> "bool"]
                         /\ Optional = [notification_template_id |-> "string"]
  BY DEF Required, Optional, Schema, TemplateSchema, RecipientSchema, GroupSchema

\* The columns of a draft are as wide as those of its object; only texts have
\* a limit; no id is a member of a body.
LEMMA KindFacts ==
    ASSUME kind \in Kinds
    PROVE  /\ Limits = DraftLimits
           /\ \A p \in DOMAIN Limits : Limits[p] \in Nat /\ p # "notification_template_id"
           /\ \A p \in DOMAIN Limits :
                    \/ p \in DOMAIN Required /\ Required[p] = "string"
                    \/ p \in DOMAIN Optional /\ Optional[p] = "string"
           /\ DOMAIN Required \cap DOMAIN Optional = {}
           /\ {"master_id", "draft_id", IdMember(kind)} \cap Names = {}
           /\ \A p \in DOMAIN Required : Required[p] \notin {"null", "missing"}
           /\ \A p \in DOMAIN Optional : Optional[p] \notin {"null", "missing"}
           /\ kind = "group" =>
                    /\ "notification_template_id" \in DOMAIN Optional
                    /\ Optional["notification_template_id"] = "string"
           /\ \A p \in Names :
                    /\ p = "notification_template_id" => kind = "group"
                    /\ TextMember(p) => p \in DOMAIN Limits \cup {"notification_template_id"}
<1>1. CASE kind = "template"
  BY <1>1, SchemaOfKind DEF Limits, DraftLimits, TemplateLimits, TemplateDraftLimits,
              IdMember, Names, TextMember
<1>2. CASE kind = "recipient"
  BY <1>2, SchemaOfKind DEF Limits, DraftLimits, RecipientLimits, RecipientDraftLimits,
              IdMember, Names, TextMember
<1>3. CASE kind = "group"
  BY <1>3, SchemaOfKind DEF Limits, DraftLimits, GroupLimits, GroupDraftLimits,
              IdMember, Names, TextMember
<1>. QED  BY <1>1, <1>2, <1>3 DEF Kinds

\* No step changes the kind.
LEMMA SameKind ==
    ASSUME kind' = kind
    PROVE  Required' = Required /\ Optional' = Optional /\ Limits' = Limits
  BY DEF Required, Optional, Schema, TemplateSchema, RecipientSchema, GroupSchema,
         Limits, TemplateLimits, RecipientLimits, GroupLimits

\* The parser of every kind is the same one, for the kind's members.
LEMMA ParserOfKind ==
    ASSUME kind \in Kinds, NEW body
    PROVE  Parse(body) = Parsed(body, Required, Optional, Names)
<1>1. CASE kind = "template"
  <2>1. Names = {"name", "message_text"}
    BY <1>1, SchemaOfKind DEF Names
  <2>. QED  BY <1>1, <2>1, SchemaOfKind
       DEF Parse, ParseNotificationTemplateWithoutId, ParseBaseNotificationTemplate
<1>2. CASE kind = "recipient"
  <2>1. Names = {"name", "email", "phone_number", "telegram_id"}
    BY <1>2, SchemaOfKind DEF Names
  <2>. QED  BY <1>2, <2>1, SchemaOfKind DEF Parse, ParseRecipientWithoutId, ParseBaseRecipient
<1>3. CASE kind = "group"
  <2>1. Names = {"name", "notification_template_id", "active"}
    BY <1>3, SchemaOfKind DEF Names
  <2>. QED  BY <1>3, <2>1, SchemaOfKind
       DEF Parse, ParseRecipientGroupWithoutId, ParseBaseRecipientGroup
<1>. QED  BY <1>1, <1>2, <1>3 DEF Kinds

\* What a document of a struct is: the members that have a value, and two ids.
IsDocument(answer, struct, ids) ==
    /\ DOMAIN answer = ids \cup DOMAIN Required \cup {p \in DOMAIN Optional : struct[p] # NULL}
    /\ answer["master_id"] = Json("string", Text(Me))
    /\ \A p \in DOMAIN Required : answer[p] = Json(Required[p], struct[p])
    /\ \A p \in DOMAIN Optional : struct[p] # NULL => answer[p] = Json(Optional[p], struct[p])

\* The three layers of a serialiser: the members of the body, the id of the
\* owner, the id of the document.
Layered(given, types, owned, whole, id) ==
    Merge(Merge(Written(given, types, DOMAIN Required, DOMAIN Optional),
                Written(given, owned, {"master_id"}, {})),
          Written(given, whole, {id}, {}))

\* Structs, types and ids that fit together.
Fitting(struct, ids, types, owned, whole, id) ==
    /\ DOMAIN struct = Names
    /\ id # "master_id" /\ {"master_id", id} \cap Names = {}
    /\ DOMAIN ids = {"master_id", id}
    /\ \A p \in DOMAIN Required : types[p] = Required[p]
    /\ \A p \in DOMAIN Optional : types[p] = Optional[p]
    /\ owned["master_id"] = "string" /\ ids["master_id"] = Text(Me)

LEMMA Layers ==
    ASSUME NEW struct, NEW ids, NEW types, NEW owned, NEW whole, NEW id,
           Fitting(struct, ids, types, owned, whole, id)
    PROVE  IsDocument(Layered(Merge(struct, ids), types, owned, whole, id),
                      struct, {"master_id", id})
<1>. DEFINE always == DOMAIN Required
            ifSet == DOMAIN Optional
            given == Merge(struct, ids)
            body == Written(given, types, always, ifSet)
            master == Written(given, owned, {"master_id"}, {})
            mine == Written(given, whole, {id}, {})
            answer == Merge(Merge(body, master), mine)
<1>. /\ DOMAIN struct = always \cup ifSet
     /\ id # "master_id" /\ {"master_id", id} \cap (always \cup ifSet) = {}
     /\ DOMAIN ids = {"master_id", id}
     /\ \A p \in always : types[p] = Required[p]
     /\ \A p \in ifSet : types[p] = Optional[p]
     /\ owned["master_id"] = "string" /\ ids["master_id"] = Text(Me)
  BY DEF Fitting, Names
<1>1. /\ DOMAIN given = {"master_id", id} \cup always \cup ifSet
      /\ \A p \in always \cup ifSet : given[p] = struct[p]
      /\ given["master_id"] = Text(Me)
  BY DEF Merge
<1>2. /\ DOMAIN body = always \cup {p \in ifSet : struct[p] # NULL}
      /\ \A p \in DOMAIN body : body[p] = Json(types[p], struct[p])
  <2>1. {p \in ifSet : given[p] # NULL} = {p \in ifSet : struct[p] # NULL}
    BY <1>1
  <2>. HIDE DEF given
  <2>. QED  BY <1>1, <2>1 DEF Written
<1>3. DOMAIN master = {"master_id"} /\ master["master_id"] = Json("string", Text(Me))
  <2>. HIDE DEF given
  <2>. QED  BY <1>1 DEF Written
<1>4. DOMAIN mine = {id}
  BY DEF Written
<1>. HIDE DEF given, body, master, mine
<1>5. /\ DOMAIN answer = DOMAIN body \cup DOMAIN master \cup DOMAIN mine
      /\ \A p \in DOMAIN answer :
            answer[p] = IF p \in DOMAIN mine THEN mine[p]
                        ELSE IF p \in DOMAIN master THEN master[p] ELSE body[p]
  BY DEF Merge
<1>. HIDE DEF answer
<1>6. IsDocument(answer, struct, {"master_id", id})
  BY <1>2, <1>3, <1>4, <1>5 DEF IsDocument, Names
<1>. QED  BY <1>6 DEF given, body, master, mine, answer, Layered

\* What every kind answers about an object.
LEMMA ObjectDocument ==
    ASSUME kind \in Kinds, NEW struct, DOMAIN struct = Names
    PROVE  IsDocument(ObjectAnswer(struct), struct, {"master_id", IdMember(kind)})
<1>. DEFINE ids == [p \in {"master_id", IdMember(kind)} |->
                        IF p = "master_id" THEN Text(Me) ELSE Text(Id)]
<1>1. DOMAIN ids = {"master_id", IdMember(kind)} /\ ids["master_id"] = Text(Me)
  OBVIOUS
<1>. HIDE DEF ids
<1>2. CASE kind = "template"
  <2>1. DOMAIN Required = {"name"} /\ DOMAIN Optional = {"message_text"}
    BY <1>2, SchemaOfKind
  <2>2. ReturnedNotificationTemplate["master_id"] = "string"
    BY DEF Merge, BaseNotificationTemplate, ReturnedNotificationTemplate
  <2>3. /\ \A p \in DOMAIN Required : BaseNotificationTemplate[p] = Required[p]
        /\ \A p \in DOMAIN Optional : BaseNotificationTemplate[p] = Optional[p]
    BY <1>2, SchemaOfKind DEF BaseNotificationTemplate
  <2>4. DOMAIN ids = {"master_id", "notification_template_id"}
    BY <1>1, <1>2 DEF IdMember
  <2>5. ObjectAnswer(struct) =
            Layered(Merge(struct, ids), BaseNotificationTemplate,
                    ReturnedNotificationTemplate, NotificationTemplateWithId,
                    "notification_template_id")
    BY <1>2, <2>1 DEF Layered, ObjectAnswer, ids, SerializeNotificationTemplateWithId,
             SerializeReturnedNotificationTemplate, SerializeBaseNotificationTemplate
  <2>6. {"master_id", "notification_template_id"} \cap Names = {}
    BY <2>1 DEF Names
  <2>7. Fitting(struct, ids, BaseNotificationTemplate,
                ReturnedNotificationTemplate, NotificationTemplateWithId,
                "notification_template_id")
    BY <1>1, <2>2, <2>3, <2>4, <2>6 DEF Fitting
  <2>8. IsDocument(ObjectAnswer(struct), struct, {"master_id", "notification_template_id"})
    BY <2>5, <2>7, Layers
  <2>. QED  BY <1>2, <2>8 DEF IdMember
<1>3. CASE kind = "recipient"
  <2>1. DOMAIN Required = {"name"} /\ DOMAIN Optional = {"email", "phone_number", "telegram_id"}
    BY <1>3, SchemaOfKind
  <2>2. ReturnedRecipient["master_id"] = "string"
    BY DEF Merge, BaseRecipient, ReturnedRecipient
  <2>3. /\ \A p \in DOMAIN Required : BaseRecipient[p] = Required[p]
        /\ \A p \in DOMAIN Optional : BaseRecipient[p] = Optional[p]
    BY <1>3, SchemaOfKind DEF BaseRecipient
  <2>4. DOMAIN ids = {"master_id", "recipient_id"}
    BY <1>1, <1>3 DEF IdMember
  <2>5. ObjectAnswer(struct) =
            Layered(Merge(struct, ids), BaseRecipient,
                    ReturnedRecipient, RecipientWithId, "recipient_id")
    BY <1>3, <2>1 DEF Layered, ObjectAnswer, ids, SerializeRecipientWithId,
             SerializeReturnedRecipient, SerializeBaseRecipient
  <2>6. {"master_id", "recipient_id"} \cap Names = {}
    BY <2>1 DEF Names
  <2>7. Fitting(struct, ids, BaseRecipient,
                ReturnedRecipient, RecipientWithId, "recipient_id")
    BY <1>1, <2>2, <2>3, <2>4, <2>6 DEF Fitting
  <2>8. IsDocument(ObjectAnswer(struct), struct, {"master_id", "recipient_id"})
    BY <2>5, <2>7, Layers
  <2>. QED  BY <1>3, <2>8 DEF IdMember
<1>4. CASE kind = "group"
  <2>1. DOMAIN Required = {"name", "active"} /\ DOMAIN Optional = {"notification_template_id"}
    BY <1>4, SchemaOfKind
  <2>2. ReturnedRecipientGroup["master_id"] = "string"
    BY DEF Merge, BaseRecipientGroup, ReturnedRecipientGroup
  <2>3. /\ \A p \in DOMAIN Required : BaseRecipientGroup[p] = Required[p]
        /\ \A p \in DOMAIN Optional : BaseRecipientGroup[p] = Optional[p]
    BY <1>4, SchemaOfKind DEF BaseRecipientGroup
  <2>4. DOMAIN ids = {"master_id", "recipient_group_id"}
    BY <1>1, <1>4 DEF IdMember
  <2>5. ObjectAnswer(struct) =
            Layered(Merge(struct, ids), BaseRecipientGroup,
                    ReturnedRecipientGroup, RecipientGroupWithId, "recipient_group_id")
    BY <1>4, <2>1 DEF Layered, ObjectAnswer, ids, SerializeRecipientGroupWithId,
             SerializeReturnedRecipientGroup, SerializeBaseRecipientGroup
  <2>6. {"master_id", "recipient_group_id"} \cap Names = {}
    BY <2>1 DEF Names
  <2>7. Fitting(struct, ids, BaseRecipientGroup,
                ReturnedRecipientGroup, RecipientGroupWithId, "recipient_group_id")
    BY <1>1, <2>2, <2>3, <2>4, <2>6 DEF Fitting
  <2>8. IsDocument(ObjectAnswer(struct), struct, {"master_id", "recipient_group_id"})
    BY <2>5, <2>7, Layers
  <2>. QED  BY <1>4, <2>8 DEF IdMember
<1>. QED  BY <1>2, <1>3, <1>4 DEF Kinds

\* And about a draft.
LEMMA DraftDocument ==
    ASSUME kind \in Kinds, NEW struct, DOMAIN struct = Names
    PROVE  IsDocument(DraftAnswer(struct), struct, {"master_id", "draft_id"})
<1>. DEFINE ids == [master_id |-> Text(Me), draft_id |-> Text(Id)]
<1>1. DOMAIN ids = {"master_id", "draft_id"} /\ ids["master_id"] = Text(Me)
  OBVIOUS
<1>. HIDE DEF ids
<1>2. CASE kind = "template"
  <2>1. DOMAIN Required = {"name"} /\ DOMAIN Optional = {"message_text"}
    BY <1>2, SchemaOfKind
  <2>2. ReturnedNotificationTemplate["master_id"] = "string"
    BY DEF Merge, BaseNotificationTemplate, ReturnedNotificationTemplate
  <2>3. /\ \A p \in DOMAIN Required : BaseNotificationTemplate[p] = Required[p]
        /\ \A p \in DOMAIN Optional : BaseNotificationTemplate[p] = Optional[p]
    BY <1>2, SchemaOfKind DEF BaseNotificationTemplate
  <2>4. DOMAIN ids = {"master_id", "draft_id"}
    BY <1>1, <1>2 DEF IdMember
  <2>5. DraftAnswer(struct) =
            Layered(Merge(struct, ids), BaseNotificationTemplate,
                    ReturnedNotificationTemplate, NotificationTemplateDraft, "draft_id")
    BY <1>2, <2>1 DEF Layered, DraftAnswer, ids, SerializeNotificationTemplateDraft,
             SerializeReturnedNotificationTemplate, SerializeBaseNotificationTemplate
  <2>6. {"master_id", "draft_id"} \cap Names = {}
    BY <2>1 DEF Names
  <2>7. Fitting(struct, ids, BaseNotificationTemplate,
                ReturnedNotificationTemplate, NotificationTemplateDraft, "draft_id")
    BY <1>1, <2>2, <2>3, <2>4, <2>6 DEF Fitting
  <2>8. IsDocument(DraftAnswer(struct), struct, {"master_id", "draft_id"})
    BY <2>5, <2>7, Layers
  <2>. QED  BY <1>2, <2>8 DEF IdMember
<1>3. CASE kind = "recipient"
  <2>1. DOMAIN Required = {"name"} /\ DOMAIN Optional = {"email", "phone_number", "telegram_id"}
    BY <1>3, SchemaOfKind
  <2>2. ReturnedRecipient["master_id"] = "string"
    BY DEF Merge, BaseRecipient, ReturnedRecipient
  <2>3. /\ \A p \in DOMAIN Required : BaseRecipient[p] = Required[p]
        /\ \A p \in DOMAIN Optional : BaseRecipient[p] = Optional[p]
    BY <1>3, SchemaOfKind DEF BaseRecipient
  <2>4. DOMAIN ids = {"master_id", "draft_id"}
    BY <1>1, <1>3 DEF IdMember
  <2>5. DraftAnswer(struct) =
            Layered(Merge(struct, ids), BaseRecipient,
                    ReturnedRecipient, RecipientDraft, "draft_id")
    BY <1>3, <2>1 DEF Layered, DraftAnswer, ids, SerializeRecipientDraft,
             SerializeReturnedRecipient, SerializeBaseRecipient
  <2>6. {"master_id", "draft_id"} \cap Names = {}
    BY <2>1 DEF Names
  <2>7. Fitting(struct, ids, BaseRecipient,
                ReturnedRecipient, RecipientDraft, "draft_id")
    BY <1>1, <2>2, <2>3, <2>4, <2>6 DEF Fitting
  <2>8. IsDocument(DraftAnswer(struct), struct, {"master_id", "draft_id"})
    BY <2>5, <2>7, Layers
  <2>. QED  BY <1>3, <2>8 DEF IdMember
<1>4. CASE kind = "group"
  <2>1. DOMAIN Required = {"name", "active"} /\ DOMAIN Optional = {"notification_template_id"}
    BY <1>4, SchemaOfKind
  <2>2. ReturnedRecipientGroup["master_id"] = "string"
    BY DEF Merge, BaseRecipientGroup, ReturnedRecipientGroup
  <2>3. /\ \A p \in DOMAIN Required : BaseRecipientGroup[p] = Required[p]
        /\ \A p \in DOMAIN Optional : BaseRecipientGroup[p] = Optional[p]
    BY <1>4, SchemaOfKind DEF BaseRecipientGroup
  <2>4. DOMAIN ids = {"master_id", "draft_id"}
    BY <1>1, <1>4 DEF IdMember
  <2>5. DraftAnswer(struct) =
            Layered(Merge(struct, ids), BaseRecipientGroup,
                    ReturnedRecipientGroup, RecipientGroupDraft, "draft_id")
    BY <1>4, <2>1 DEF Layered, DraftAnswer, ids, SerializeRecipientGroupDraft,
             SerializeReturnedRecipientGroup, SerializeBaseRecipientGroup
  <2>6. {"master_id", "draft_id"} \cap Names = {}
    BY <2>1 DEF Names
  <2>7. Fitting(struct, ids, BaseRecipientGroup,
                ReturnedRecipientGroup, RecipientGroupDraft, "draft_id")
    BY <1>1, <2>2, <2>3, <2>4, <2>6 DEF Fitting
  <2>8. IsDocument(DraftAnswer(struct), struct, {"master_id", "draft_id"})
    BY <2>5, <2>7, Layers
  <2>. QED  BY <1>4, <2>8 DEF IdMember
<1>. QED  BY <1>2, <1>3, <1>4 DEF Kinds

-----------------------------------------------------------------------------
(* Bodies and structs.                                                     *)

\* The parser takes what the documentation allows, a null for a member that
\* is left out.
LEMMA ParsesDocumented ==
    ASSUME kind \in Kinds, NEW body \in Bodies[kind]
    PROVE  /\ Documented(body) <=> Parse(body) # Thrown
           /\ Documented(body) => Parse(body) = Members(body, Required, Optional)
<1>1. Members(body, Required, Optional) # Thrown
  <2>1. DOMAIN Members(body, Required, Optional) # {"what"}
    <3>1. DOMAIN Members(body, Required, Optional) = Names
      BY DEF Members, Names
    <3>2. "name" \in Names
      BY SchemaOfKind DEF Names, Kinds
    <3>. QED  BY <3>1, <3>2
  <2>. QED  BY <2>1 DEF Thrown
<1>2. Documented(body) <=> /\ Holds(body, Required, Optional)
                           /\ ValidateNoAdditionalProperties(body, Names)
  <2>1. body.type = "object" =>
            \A p \in DOMAIN body.value : body.value[p].type # "missing"
    BY ContentsAssumption DEF WellTyped
  <2>3. ASSUME Documented(body)
        PROVE  Holds(body, Required, Optional) /\ ValidateNoAdditionalProperties(body, Names)
    <3>1. \A p \in DOMAIN Required : Property(body.value, p).type = Required[p]
      BY <2>3, KindFacts DEF Documented, OfType, Property
    <3>2. \A p \in DOMAIN Optional :
            Property(body.value, p).type \in {Optional[p], "null", "missing"}
      BY <2>3, KindFacts DEF Documented, OfType, Property, Json
    <3>3. DOMAIN body.value \subseteq Names
      BY <2>3 DEF Documented, Names
    <3>. QED  BY <2>3, <3>1, <3>2, <3>3 DEF Documented, Holds, ValidateNoAdditionalProperties
  <2>4. ASSUME Holds(body, Required, Optional), ValidateNoAdditionalProperties(body, Names)
        PROVE  Documented(body)
    <3>1. \A p \in DOMAIN Required : p \in DOMAIN body.value /\ body.value[p].type = Required[p]
      BY <2>4, KindFacts DEF Holds, Property, Json
    <3>2. \A p \in DOMAIN Optional : p \in DOMAIN body.value =>
            body.value[p].type \in {Optional[p], "null"}
      BY <2>1, <2>4 DEF Holds, Property, Json
    <3>3. DOMAIN body.value \subseteq DOMAIN Required \cup DOMAIN Optional
      BY <2>4 DEF ValidateNoAdditionalProperties, Names
    <3>. QED  BY <2>4, <3>1, <3>2, <3>3 DEF Documented, Holds, OfType
  <2>. QED  BY <2>3, <2>4
<1>3. Parse(body) = Parsed(body, Required, Optional, Names)
  BY ParserOfKind
<1>. QED  BY <1>1, <1>2, <1>3 DEF Parsed

\* What a member of a struct is in the body.
LEMMA MemberOfBody ==
    ASSUME kind \in Kinds, NEW body \in Bodies[kind], Documented(body),
           NEW p \in Names
    PROVE  /\ DOMAIN Parse(body) = Names
           /\ Parse(body)[p] = Property(body.value, p).value
           /\ TextMember(p) => Parse(body)[p] \in Texts \cup {NULL}
           /\ TextMember(p) /\ Parse(body)[p] # NULL =>
                    /\ p \in DOMAIN body.value /\ body.value[p].type = "string"
                    /\ Parse(body)[p] = body.value[p].value
           /\ Parse(body)[p] = NULL => Property(body.value, p).type \in {"null", "missing"}
<1>1. /\ DOMAIN Parse(body) = Names
      /\ Parse(body)[p] = Property(body.value, p).value
  BY ParsesDocumented DEF Members, Names
<1>2. p \in DOMAIN body.value => WellTyped(body.value[p])
  BY ContentsAssumption DEF Documented
<1>3. TextMember(p) => Property(body.value, p).type \in {"string", "null", "missing"}
  BY KindFacts DEF Documented, OfType, TextMember, Property, Json
<1>. QED  BY <1>1, <1>2, <1>3 DEF WellTyped, Property, Json

-----------------------------------------------------------------------------
(* Refusals.                                                               *)

\* The text that names a template, in the body and in the struct.
LEMMA NamedInBody ==
    ASSUME kind = "group", NEW body \in Bodies[kind], Documented(body)
    PROVE  LET text == Parse(body).notification_template_id
               json == Property(body.value, "notification_template_id")
           IN  /\ Named(Columns(Parse(body))) = optional_str_to_uuid(text)
               /\ text = NULL <=> json.type \in {"null", "missing"}
               /\ text # NULL => text \in Texts /\ json.value = text
<1>. DEFINE p == "notification_template_id"
            text == Parse(body)[p]
            json == Property(body.value, p)
<1>1. kind \in Kinds /\ p \in Names /\ TextMember(p)
  BY KindFacts DEF Kinds, Names, TextMember
<1>2. /\ DOMAIN Parse(body) = Names
      /\ text = json.value /\ text \in Texts \cup {NULL}
      /\ text # NULL => json.type = "string"
      /\ text = NULL => json.type \in {"null", "missing"}
  BY <1>1, MemberOfBody DEF Property
<1>3. Named(Columns(Parse(body))) = optional_str_to_uuid(text)
  BY <1>1, <1>2 DEF Named, Columns
<1>. QED  BY <1>2, <1>3

\* A text that optional_str_to_uuid takes is exactly one word that spells an id.
LEMMA UuidOfText ==
    ASSUME NEW text \in Texts
    PROVE  /\ \A w \in DOMAIN Spelled : text = Text(w) => optional_str_to_uuid(text) = Spelled[w]
           /\ \/ optional_str_to_uuid(text) = Thrown
              \/ \E w \in DOMAIN Spelled : text = Text(w)
           /\ optional_str_to_uuid(text) # NULL
<1>1. text # NULL /\ Thrown # NULL
  BY ContentsAssumption
<1>2. text = [word |-> text.word, spaces |-> text.spaces]
  BY DEF Texts
<1>. QED  BY <1>1, <1>2, ContentsAssumption DEF optional_str_to_uuid, Text, Texts

LEMMA TemplateIsKnown ==
    ASSUME kind \in Kinds, templates \subseteq Template,
           NEW body \in Bodies[kind], Documented(body)
    PROVE  TemplateKnown(body) <=> ForeignKeyHolds(Columns(Parse(body)))
<1>1. CASE kind # "group"
  BY <1>1 DEF TemplateKnown, ForeignKeyHolds, Named
<1>2. CASE kind = "group"
  <2>. DEFINE text == Parse(body).notification_template_id
              json == Property(body.value, "notification_template_id")
  <2>1. /\ Named(Columns(Parse(body))) = optional_str_to_uuid(text)
        /\ text = NULL <=> json.type \in {"null", "missing"}
        /\ text # NULL => text \in Texts /\ json.value = text
    BY <1>2, NamedInBody
  <2>2. Thrown \notin templates /\ NULL \notin templates
    BY ContentsAssumption
  <2>. HIDE DEF text, json
  <2>3. TemplateKnown(body) <=> \/ json.type \in {"missing", "null"}
                                \/ \E t \in templates : \E w \in DOMAIN Spelled :
                                        Spelled[w] = t /\ json.value = Text(w)
    BY <1>2 DEF TemplateKnown, json
  <2>4. ForeignKeyHolds(Columns(Parse(body))) <=>
            optional_str_to_uuid(text) \in templates \cup {NULL}
    BY <2>1 DEF ForeignKeyHolds
  <2>5. CASE text = NULL
    BY <2>1, <2>3, <2>4, <2>5 DEF optional_str_to_uuid
  <2>6. CASE text # NULL
    BY <2>1, <2>2, <2>3, <2>4, <2>6, UuidOfText
  <2>. QED  BY <2>5, <2>6
<1>. QED  BY <1>1, <1>2

\* What the database says of the texts, and what is said of a body.
LEMMA TextsFit ==
    ASSUME kind \in Kinds, NEW body \in Bodies[kind], Documented(body)
    PROVE  /\ FitsColumns(body) <=> ~TooLong(Parse(body), Limits)
           /\ IsStorable(body) <=> ~HasUnstorable(Parse(body), Limits)
<1>1. \A p \in DOMAIN Limits : p \in Names /\ TextMember(p) /\ Limits[p] \in Nat
  BY KindFacts DEF Names, TextMember
<1>2. ASSUME NEW p \in DOMAIN Limits
      PROVE  /\ p \in TextsOf(body) =>
                    Parse(body)[p] = body.value[p].value /\ Parse(body)[p] \in Texts
             /\ Parse(body)[p] # NULL =>
                    /\ p \in TextsOf(body)
                    /\ Parse(body)[p] = body.value[p].value /\ Parse(body)[p] \in Texts
  <2>1. p \in DOMAIN body.value => WellTyped(body.value[p])
    BY ContentsAssumption DEF Documented
  <2>. QED  BY <1>1, <2>1, MemberOfBody DEF Property, WellTyped, TextsOf
<1>3. \A text \in Texts : Length[text.word] \in Nat /\ text # NULL
  BY ContentsAssumption DEF Texts
<1>4. TextsOf(body) \subseteq DOMAIN Limits
  BY DEF TextsOf
<1>5. FitsColumns(body) <=> ~TooLong(Parse(body), Limits)
  BY <1>1, <1>2, <1>3, <1>4 DEF FitsColumns, TooLong
<1>6. IsStorable(body) <=> ~HasUnstorable(Parse(body), Limits)
  BY <1>2, <1>3, <1>4 DEF IsStorable, HasUnstorable
<1>. QED  BY <1>5, <1>6

\* A refusal has its reason in the body or in a template that is gone, and
\* what is not refused has no fault.
LEMMA RefusalIsEarned ==
    ASSUME kind \in Kinds, templates \subseteq Template, NEW body \in Bodies[kind],
           NEW limits, limits = Limits
    PROVE  LET refusal == Refusal(Parse(body), limits)
           IN  /\ refusal = "none" => Complaints(body) = {}
               /\ refusal = "invalid" =>
                        Complaints(body) \cap {"undocumented", "unknown template"} # {}
               /\ refusal = "server error" =>
                        Complaints(body) \cap {"too long", "unstorable"} # {}
               /\ ~Readable(Parse(body)) => refusal = "invalid"
               /\ refusal = "none" => Documented(body)
<1>1. CASE ~Documented(body)
  <2>1. Parse(body) = Thrown
    BY <1>1, ParsesDocumented
  <2>2. Refusal(Parse(body), limits) = "invalid"
    BY <2>1 DEF Refusal, Readable
  <2>. QED  BY <1>1, <2>2 DEF Complaints
<1>2. CASE Documented(body)
  <2>1. Parse(body) # Thrown
    BY <1>2, ParsesDocumented
  <2>2. TemplateKnown(body) <=> ForeignKeyHolds(Columns(Parse(body)))
    BY <1>2, TemplateIsKnown
  <2>3. /\ FitsColumns(body) <=> ~TooLong(Parse(body), limits)
        /\ IsStorable(body) <=> ~HasUnstorable(Parse(body), limits)
    BY <1>2, TextsFit
  <2>4. Named(Columns(Parse(body))) = Thrown => ~ForeignKeyHolds(Columns(Parse(body)))
    BY ContentsAssumption DEF ForeignKeyHolds
  <2>5. Complaints(body) = {c \in {"unknown template", "too long", "unstorable"} :
                                \/ c = "unknown template" /\ ~TemplateKnown(body)
                                \/ c = "too long" /\ ~FitsColumns(body)
                                \/ c = "unstorable" /\ ~IsStorable(body)}
    BY <1>2 DEF Complaints
  <2>. QED  BY <1>2, <2>1, <2>2, <2>3, <2>4, <2>5 DEF Refusal, Readable
<1>. QED  BY <1>1, <1>2

-----------------------------------------------------------------------------
(* Rows.                                                                   *)

\* A row that the tables hold: every member has its column, the texts fit,
\* and a template is an id.
WellFormed(columns) ==
    /\ columns = [p \in Names |-> columns[p]]
    /\ \A p \in DOMAIN Limits : columns[p] # NULL =>
            columns[p] \in Texts /\ Size(columns[p]) <= Limits[p]
    /\ Named(columns) \in Template \cup {NULL}

\* What PostgreSQL has accepted and cut off fits; nothing else is changed.
LEMMA CutFits ==
    ASSUME kind \in Kinds, NEW columns, columns = [p \in Names |-> columns[p]],
           \A p \in DOMAIN Limits : columns[p] # NULL => columns[p] \in Texts,
           Named(columns) \in Template \cup {NULL},
           ~TooLong(columns, Limits)
    PROVE  WellFormed(Cut(columns, Limits)) /\ Named(Cut(columns, Limits)) = Named(columns)
<1>. DEFINE cut == Cut(columns, Limits)
<1>1. DOMAIN columns = Names
  OBVIOUS
<1>2. cut = [p \in Names |-> cut[p]]
  BY <1>1 DEF Cut
<1>3. ASSUME NEW p \in DOMAIN Limits, cut[p] # NULL
      PROVE  cut[p] \in Texts /\ Size(cut[p]) <= Limits[p]
  <2>1. p \in Names /\ Limits[p] \in Nat
    BY KindFacts DEF Names
  <2>2. columns[p] \in Texts /\ Length[columns[p].word] \in Nat
    BY <1>1, <1>3, <2>1, ContentsAssumption DEF Cut, Texts
  <2>3. Length[columns[p].word] <= Limits[p]
    <3>1. columns[p] # NULL
      BY <2>2, ContentsAssumption
    <3>2. ~(Length[columns[p].word] > Limits[p])
      BY <3>1 DEF TooLong
    <3>. QED  BY <2>1, <2>2, <3>2
  <2>4. CASE Size(columns[p]) > Limits[p]
    <3>1. cut[p] = [columns[p] EXCEPT !.spaces = Limits[p] - Length[columns[p].word]]
      BY <1>1, <2>1, <2>2, <2>4, ContentsAssumption DEF Cut
    <3>2. cut[p].word = columns[p].word /\ cut[p].spaces = Limits[p] - Length[columns[p].word]
      BY <2>2, <3>1 DEF Texts
    <3>. QED  BY <2>1, <2>2, <2>3, <3>1, <3>2 DEF Texts, Size
  <2>5. CASE ~(Size(columns[p]) > Limits[p])
    <3>1. cut[p] = columns[p] /\ Size(columns[p]) \in Nat
      BY <1>1, <2>1, <2>2, <2>5 DEF Cut, Texts, Size
    <3>. QED  BY <2>1, <2>2, <2>5, <3>1
  <2>. QED  BY <2>4, <2>5
<1>4. Named(cut) = Named(columns)
  BY <1>1, KindFacts DEF Named, Cut, Names
<1>. QED  BY <1>2, <1>3, <1>4 DEF WellFormed

\* The statements of a request write a row like that, and one that names a
\* template that exists or none.
LEMMA WritesFit ==
    ASSUME kind \in Kinds, templates \subseteq Template, NEW body \in Bodies[kind],
           Refusal(Parse(body), Limits) = "none"
    PROVE  LET columns == Cut(Columns(Parse(body)), Limits)
           IN  WellFormed(columns) /\ ForeignKeyHolds(columns)
<1>. DEFINE struct == Parse(body)
            columns == Columns(struct)
<1>1. Documented(body)
  BY RefusalIsEarned
<1>2. DOMAIN struct = Names /\ struct = [p \in Names |-> struct[p]]
  <2>1. struct = Members(body, Required, Optional)
    BY <1>1, ParsesDocumented
  <2>. QED  BY <2>1 DEF Members, Names
<1>3. \A p \in DOMAIN Limits : /\ p \in Names
                               /\ columns[p] = struct[p]
                               /\ columns[p] # NULL => columns[p] \in Texts
  <2>1. \A p \in DOMAIN Limits :
            p \in Names /\ TextMember(p) /\ p # "notification_template_id"
    BY KindFacts DEF Names, TextMember
  <2>2. \A p \in Names \ {"notification_template_id"} : columns[p] = struct[p]
    BY <1>2 DEF Columns
  <2>3. \A p \in Names : TextMember(p) => struct[p] \in Texts \cup {NULL}
    BY <1>1, MemberOfBody
  <2>. HIDE DEF struct, columns
  <2>. QED  BY <2>1, <2>2, <2>3
<1>4. columns = [p \in Names |-> columns[p]]
  BY <1>2 DEF Columns
<1>5. ~TooLong(struct, Limits) /\ ForeignKeyHolds(columns)
  BY DEF Refusal
<1>6. ~TooLong(columns, Limits)
  BY <1>3, <1>5 DEF TooLong
<1>7. Named(columns) \in Template \cup {NULL}
  BY <1>5 DEF ForeignKeyHolds
<1>. HIDE DEF columns
<1>8. WellFormed(Cut(columns, Limits)) /\ Named(Cut(columns, Limits)) = Named(columns)
  BY <1>3, <1>4, <1>6, <1>7, CutFits
<1>. QED  BY <1>5, <1>8 DEF ForeignKeyHolds, columns

\* A row of a draft fits the table of its object as well, unchanged.
LEMMA RowsFit ==
    ASSUME kind \in Kinds, NEW columns, WellFormed(columns)
    PROVE  ~TooLong(columns, Limits) /\ Cut(columns, Limits) = columns
<1>1. DOMAIN columns = Names /\ columns = [p \in Names |-> columns[p]]
  BY DEF WellFormed
<1>2. \A p \in DOMAIN Limits : columns[p] # NULL =>
            /\ Length[columns[p].word] \in Nat /\ Length[columns[p].word] <= Limits[p]
            /\ Size(columns[p]) \in Nat /\ Size(columns[p]) <= Limits[p]
            /\ Limits[p] \in Nat
  <2>1. ASSUME NEW text \in Texts
        PROVE  /\ Length[text.word] \in Nat /\ Size(text) \in Nat
               /\ Length[text.word] <= Size(text)
    <3>1. text.word \in Word /\ text.spaces \in Nat
      BY DEF Texts
    <3>2. Length[text.word] \in Nat
      BY <3>1, ContentsAssumption
    <3>. QED  BY <3>1, <3>2 DEF Size
  <2>2. ASSUME NEW p \in DOMAIN Limits, columns[p] # NULL
        PROVE  /\ Limits[p] \in Nat
               /\ columns[p] \in Texts /\ Size(columns[p]) <= Limits[p]
    BY <2>2, KindFacts DEF WellFormed
  <2>3. \A m, n, k \in Nat : m <= n /\ n <= k => m <= k
    OBVIOUS
  <2>. QED  BY <2>1, <2>2, <2>3
<1>3. \A p \in Names : Cut(columns, Limits)[p] = columns[p]
  BY <1>1, <1>2 DEF Cut
<1>4. Cut(columns, Limits) = [p \in Names |-> Cut(columns, Limits)[p]]
  BY <1>1 DEF Cut
<1>. QED  BY <1>1, <1>2, <1>3, <1>4 DEF TooLong

\* The deletion of a template takes it out of the rows.
LEMMA SetNullFits ==
    ASSUME kind = "group", NEW columns, WellFormed(columns), ForeignKeyHolds(columns),
           NULL # columns, NEW t \in Template
    PROVE  /\ WellFormed(SetNull(columns, t))
           /\ Named(SetNull(columns, t)) \in (templates \ {t}) \cup {NULL}
<1>. DEFINE p == "notification_template_id"
            new == SetNull(columns, t)
<1>1. kind \in Kinds /\ p \in Names /\ p \notin DOMAIN Limits
  BY KindFacts DEF Kinds, Names
<1>2. DOMAIN columns = Names
  BY DEF WellFormed
<1>3. /\ new = [q \in Names |-> new[q]]
      /\ \A q \in Names \ {p} : new[q] = columns[q]
      /\ new[p] = IF columns[p] = t THEN NULL ELSE columns[p]
  BY <1>1, <1>2 DEF SetNull
<1>4. DOMAIN Limits \subseteq Names \ {p}
  BY <1>1, KindFacts DEF Names
<1>5. Named(new) = new[p] /\ Named(columns) = columns[p]
  BY DEF Named
<1>. HIDE DEF new
<1>6. Named(new) \in (templates \ {t}) \cup {NULL} /\ Named(new) \in Template \cup {NULL}
  BY <1>3, <1>5 DEF WellFormed, ForeignKeyHolds
<1>7. WellFormed(new)
  BY <1>3, <1>4, <1>6 DEF WellFormed
<1>. QED  BY <1>6, <1>7 DEF new

-----------------------------------------------------------------------------
(* Answers.                                                                *)

\* A struct is the columns of its row, with the template spelled out.
LEMMA StructOfRow ==
    ASSUME kind \in Kinds, NEW columns, WellFormed(columns)
    PROVE  /\ StructOf(columns) = [p \in Names |-> StructOf(columns)[p]]
           /\ Columns(StructOf(columns)) = columns
           /\ Named(Columns(StructOf(columns))) # Thrown
<1>. DEFINE q == "notification_template_id"
            struct == StructOf(columns)
            back == Columns(struct)
<1>1. DOMAIN columns = Names /\ columns = [p \in Names |-> columns[p]]
  BY DEF WellFormed
<1>2. Named(columns) # Thrown
  BY ContentsAssumption DEF WellFormed
<1>3. CASE kind # "group"
  <2>1. struct = columns /\ Columns(columns) = columns
    BY <1>3 DEF StructOf, Columns
  <2>. HIDE DEF struct
  <2>. QED  BY <1>1, <1>2, <2>1 DEF struct
<1>4. CASE kind = "group"
  <2>1. q \in Names /\ Named(columns) = columns[q] /\ columns[q] \in Template \cup {NULL}
    BY <1>4, KindFacts DEF Names, Named, WellFormed
  <2>2. /\ struct = [p \in Names |-> struct[p]]
        /\ \A p \in Names \ {q} : struct[p] = columns[p]
        /\ struct[q] = optional_uuid_to_str(columns[q])
    BY <1>1, <1>4, <2>1 DEF StructOf
  <2>. HIDE DEF struct
  <2>3. /\ back = [p \in Names |-> back[p]]
        /\ \A p \in Names \ {q} : back[p] = struct[p]
        /\ back[q] = optional_str_to_uuid(struct[q])
    BY <1>4, <2>1, <2>2 DEF Columns
  <2>4. optional_str_to_uuid(optional_uuid_to_str(columns[q])) = columns[q]
    <3>1. CASE columns[q] = NULL
      BY <3>1 DEF optional_uuid_to_str, optional_str_to_uuid
    <3>2. CASE columns[q] \in Template
      <4>. DEFINE word == Spelling[columns[q]]
      <4>1. /\ columns[q] # NULL /\ word \in DOMAIN Spelled /\ word \in Word
            /\ Spelled[word] = columns[q]
        BY <3>2, ContentsAssumption
      <4>2. Text(word) \in Texts
        BY <4>1 DEF Text, Texts
      <4>. QED  BY <4>1, <4>2, UuidOfText DEF optional_uuid_to_str
    <3>. QED  BY <2>1, <3>1, <3>2
  <2>. HIDE DEF back
  <2>5. back = columns
    BY <1>1, <2>1, <2>2, <2>3, <2>4
  <2>. QED  BY <1>2, <2>2, <2>5 DEF struct, back
<1>. QED  BY <1>3, <1>4

\* The answer about a row, without its ids, is a body that parses to what the
\* row holds.
SentBack(answer) ==
    LET ids == {"master_id", IdMember(kind)}
    IN  Parse(Json("object", [p \in DOMAIN answer \ ids |-> answer[p]]))

LEMMA RoundTrip ==
    ASSUME kind \in Kinds, NEW columns, WellFormed(columns)
    PROVE  LET struct == SentBack(ObjectAnswer(StructOf(columns)))
           IN  Readable(struct) /\ Cut(Columns(struct), Limits) = columns
<1>. DEFINE ids == {"master_id", IdMember(kind)}
            given == StructOf(columns)
            answer == ObjectAnswer(given)
            value == [p \in DOMAIN answer \ ids |-> answer[p]]
            body == Json("object", value)
<1>1. given = [p \in Names |-> given[p]] /\ Columns(given) = columns
  BY StructOfRow
<1>2. DOMAIN given = Names
  BY <1>1
<1>3. IsDocument(answer, given, ids)
  BY <1>2, ObjectDocument
<1>. HIDE DEF given, answer
<1>4. /\ DOMAIN value = DOMAIN Required \cup {p \in DOMAIN Optional : given[p] # NULL}
      /\ \A p \in DOMAIN Required : value[p] = Json(Required[p], given[p])
      /\ \A p \in DOMAIN Optional : given[p] # NULL => value[p] = Json(Optional[p], given[p])
  BY <1>3, KindFacts DEF IsDocument, Names
<1>. HIDE DEF value
<1>5. /\ \A p \in DOMAIN Required : Property(value, p) = Json(Required[p], given[p])
      /\ \A p \in DOMAIN Optional :
            Property(value, p) = Json(IF given[p] = NULL THEN "missing" ELSE Optional[p], given[p])
  BY <1>4, KindFacts DEF Property, Json
<1>6. Holds(body, Required, Optional) /\ ValidateNoAdditionalProperties(body, Names)
  BY <1>4, <1>5 DEF Holds, ValidateNoAdditionalProperties, Json, Names
<1>7. Parse(body) = Members(body, Required, Optional)
  BY <1>6, ParserOfKind DEF Parsed
<1>8. Parse(body) = given
  <2>1. Parse(body) = [p \in Names |-> Property(value, p).value]
    BY <1>7 DEF Members, Names, Json
  <2>2. \A p \in Names : Property(value, p).value = given[p]
    BY <1>5 DEF Names, Json
  <2>. QED  BY <1>1, <2>1, <2>2
<1>9. given # Thrown
  <2>1. "name" \in Names
    BY SchemaOfKind DEF Names, Kinds
  <2>. QED  BY <1>2, <2>1 DEF Thrown
<1>10. Readable(given)
  BY <1>9, StructOfRow DEF Readable, given
<1>11. Cut(Columns(given), Limits) = columns
  BY <1>1, RowsFit
<1>12. SentBack(answer) = given
  BY <1>8 DEF SentBack, body, value
<1>. QED  BY <1>10, <1>11, <1>12 DEF given, answer

-----------------------------------------------------------------------------
(* The rows at any time.                                                   *)

\* Draft and object fit their tables and name a template that exists or none.
RowsInv ==
    /\ kind \in Kinds /\ templates \subseteq Template
    /\ \A columns \in {draft, row} :
            columns # NULL => WellFormed(columns) /\ ForeignKeyHolds(columns)

\* What is said of structs and rows depends on the kind, which stays.
LEMMA KindStays ==
    ASSUME kind' = kind, NEW x
    PROVE  /\ Named(x)' = Named(x) /\ Columns(x)' = Columns(x) /\ Parse(x)' = Parse(x)
           /\ WellFormed(x)' <=> WellFormed(x)
<1>1. Named(x)' = Named(x) /\ Columns(x)' = Columns(x) /\ Parse(x)' = Parse(x)
  BY DEF Named, Columns, Parse
<1>2. Required' = Required /\ Optional' = Optional /\ Limits' = Limits /\ Names' = Names
  BY SameKind DEF Names
<1>3. WellFormed(x)' <=> WellFormed(x)
  BY <1>1, <1>2 DEF WellFormed
<1>. QED  BY <1>1, <1>3

LEMMA RowsStay ==
    ASSUME kind \in Kinds, kind' = kind, templates' \subseteq Template,
           NEW d, draft' = d, d # NULL => WellFormed(d) /\ Named(d) \in templates' \cup {NULL},
           NEW r, row' = r, r # NULL => WellFormed(r) /\ Named(r) \in templates' \cup {NULL}
    PROVE  RowsInv'
<1>1. ASSUME NEW columns \in {d, r}, columns # NULL
      PROVE  WellFormed(columns)' /\ ForeignKeyHolds(columns)'
  BY <1>1, KindStays DEF ForeignKeyHolds
<1>2. \A columns \in {draft', row'} :
            columns # NULL => WellFormed(columns)' /\ ForeignKeyHolds(columns)'
  BY <1>1
<1>. QED  BY <1>2 DEF RowsInv

LEMMA InitRows == Init => RowsInv
  BY DEF Init, RowsInv

LEMMA NextRows == RowsInv /\ [Next]_vars => RowsInv'
<1>. SUFFICES ASSUME RowsInv, [Next]_vars
              PROVE  RowsInv'
  OBVIOUS
<1>1. /\ kind \in Kinds /\ templates \subseteq Template
      /\ draft # NULL => WellFormed(draft) /\ Named(draft) \in templates \cup {NULL}
      /\ row # NULL => WellFormed(row) /\ Named(row) \in templates \cup {NULL}
  BY DEF RowsInv, ForeignKeyHolds
<1>2. ASSUME kind' = kind, templates' = templates, draft' \in {draft, NULL}, row' \in {row, NULL}
      PROVE  RowsInv'
  BY <1>1, <1>2, RowsStay
<1>3. ASSUME NEW body \in Bodies[kind], Create(body)
      PROVE  RowsInv'
  <2>1. CASE Refusal(Parse(body), DraftLimits) = "none"
    <3>1. /\ draft' = Cut(Columns(Parse(body)), Limits)
          /\ Refusal(Parse(body), Limits) = "none"
          /\ kind' = kind /\ templates' = templates /\ row' = row
      BY <1>1, <1>3, <2>1, KindFacts DEF Create
    <3>2. PICK d : d = Cut(Columns(Parse(body)), Limits)
      OBVIOUS
    <3>3. WellFormed(d) /\ Named(d) \in templates \cup {NULL}
      BY <1>1, <3>1, <3>2, WritesFit DEF ForeignKeyHolds
    <3>. QED  BY <1>1, <3>1, <3>2, <3>3, RowsStay
  <2>2. CASE Refusal(Parse(body), DraftLimits) # "none"
    BY <1>2, <1>3, <2>2 DEF Create
  <2>. QED  BY <2>1, <2>2
<1>4. ASSUME NEW body \in Bodies[kind], Modify(body)
      PROVE  RowsInv'
  <2>1. CASE Refusal(Parse(body), Limits) = "none" /\ row' = Cut(Columns(Parse(body)), Limits)
    <3>1. kind' = kind /\ templates' = templates /\ draft' = draft
      BY <1>4 DEF Modify
    <3>2. PICK r : r = Cut(Columns(Parse(body)), Limits)
      OBVIOUS
    <3>3. WellFormed(r) /\ Named(r) \in templates \cup {NULL}
      BY <1>1, <2>1, <3>2, WritesFit DEF ForeignKeyHolds
    <3>. QED  BY <1>1, <2>1, <3>1, <3>2, <3>3, RowsStay
  <2>2. CASE row' = row
    BY <1>2, <1>4, <2>2 DEF Modify
  <2>. QED  BY <1>4, <2>1, <2>2 DEF Modify
<1>5. ASSUME ConfirmCreation
      PROVE  RowsInv'
  <2>1. CASE draft # NULL /\ row' = Cut(draft, Limits)
    <3>1. row' = draft /\ draft' \in {draft, NULL} /\ kind' = kind /\ templates' = templates
      BY <1>1, <1>5, <2>1, RowsFit DEF ConfirmCreation
    <3>. QED  BY <1>1, <2>1, <3>1, RowsStay
  <2>2. CASE row' = row
    BY <1>2, <1>5, <2>2 DEF ConfirmCreation
  <2>. QED  BY <1>5, <2>1, <2>2 DEF ConfirmCreation
<1>6. ASSUME NEW t \in Template, DeleteTemplate(t)
      PROVE  RowsInv'
  <2>1. /\ kind = "group" /\ kind' = kind /\ templates' = templates \ {t}
        /\ draft' = SetNull(draft, t) /\ row' = SetNull(row, t)
    BY <1>6 DEF DeleteTemplate
  <2>2. ASSUME NEW columns,
               columns # NULL => WellFormed(columns) /\ Named(columns) \in templates \cup {NULL},
               NEW new, new = SetNull(columns, t)
        PROVE  new # NULL => WellFormed(new) /\ Named(new) \in templates' \cup {NULL}
    <3>1. CASE columns = NULL
      BY <2>2, <3>1 DEF SetNull
    <3>2. CASE columns # NULL
      BY <2>1, <2>2, <3>2, SetNullFits DEF ForeignKeyHolds
    <3>. QED  BY <3>1, <3>2
  <2>3. PICK d : d = SetNull(draft, t)
    OBVIOUS
  <2>4. PICK r : r = SetNull(row, t)
    OBVIOUS
  <2>5. /\ d # NULL => WellFormed(d) /\ Named(d) \in templates' \cup {NULL}
        /\ r # NULL => WellFormed(r) /\ Named(r) \in templates' \cup {NULL}
    BY <1>1, <2>2, <2>3, <2>4
  <2>. QED  BY <1>1, <2>1, <2>3, <2>4, <2>5, RowsStay
<1>7. ASSUME Read \/ GroupGetById \/ Delete
      PROVE  RowsInv'
  BY <1>2, <1>7 DEF Read, GroupGetById, Delete
<1>8. CASE UNCHANGED vars
  BY <1>2, <1>8 DEF vars
<1>. QED  BY <1>3, <1>4, <1>5, <1>6, <1>7, <1>8 DEF Next

LEMMA RowsAlways == Spec => []RowsInv
  BY InitRows, NextRows, PTL DEF Spec

-----------------------------------------------------------------------------
(* The properties.                                                         *)

\* What AnswersCanBeSentBack asks of an answer about a row.
Returns(answer, columns) ==
    LET struct == SentBack(answer)
    IN  Readable(struct) /\ Cut(Columns(struct), Limits) = columns

LEMMA ReturnsAnswer ==
    ASSUME kind' = kind, NEW answer, last'.answer = answer, NEW columns, row' = columns,
           Returns(answer, columns)
    PROVE  AnswersCanBeSentBack'
<1>1. Limits' = Limits /\ IdMember(kind)' = IdMember(kind)
  BY SameKind
<1>2. \A x : Named(x)' = Named(x) /\ Columns(x)' = Columns(x) /\ Parse(x)' = Parse(x)
  BY KindStays
<1>3. PICK body :
        body = Json("object", [p \in DOMAIN answer \ {"master_id", IdMember(kind)} |-> answer[p]])
  OBVIOUS
<1>4. PICK struct : struct = Parse(body)
  OBVIOUS
<1>5. struct = SentBack(answer)
  BY <1>3, <1>4 DEF SentBack
<1>6. Readable(struct)' /\ Cut(Columns(struct), Limits)' = columns
  BY <1>1, <1>2, <1>5 DEF Returns, Readable, Cut
<1>7. Parse(body)' = struct
  BY <1>2, <1>4
<1>. QED  BY <1>1, <1>3, <1>6, <1>7 DEF AnswersCanBeSentBack

\* A request that answers with the object in the row.
LEMMA RowAnswered ==
    ASSUME kind \in Kinds, kind' = kind,
           NEW columns, WellFormed(columns), row' = columns,
           NEW op, NEW complaints,
           last' = Request(op, complaints, "ok", ObjectAnswer(StructOf(columns)))
    PROVE  AnswersCanBeSentBack'
<1>1. PICK answer : answer = ObjectAnswer(StructOf(columns))
  OBVIOUS
<1>2. last'.answer = answer
  BY <1>1 DEF Request
<1>3. Returns(answer, columns)
  BY <1>1, RoundTrip DEF Returns
<1>. QED  BY <1>2, <1>3, ReturnsAnswer

\* A request that answers with nothing, or is not one of those.
LEMMA NothingAnswered ==
    ASSUME \/ last'.status # "ok"
           \/ last'.op \notin {"ConfirmCreation", "Modify", "GetAll", "GetById"}
    PROVE  AnswersCanBeSentBack'
  BY DEF AnswersCanBeSentBack

\* Answers, one request at a time.
LEMMA NextAnswers ==
    ASSUME RowsInv, [Next]_vars, AnswersCanBeSentBack
    PROVE  AnswersCanBeSentBack'
<1>1. /\ kind \in Kinds /\ templates \subseteq Template
      /\ draft # NULL => WellFormed(draft)
      /\ row # NULL => WellFormed(row)
  BY DEF RowsInv
<1>2. ASSUME NEW op, NEW complaints, NEW status, NEW answer,
             last' = Request(op, complaints, status, answer)
      PROVE  last'.op = op /\ last'.status = status
  BY <1>2 DEF Request
<1>3. ASSUME NEW body \in Bodies[kind], Create(body)
      PROVE  AnswersCanBeSentBack'
  <2>1. \E complaints, status, answer : last' = Request("Create", complaints, status, answer)
    BY <1>3 DEF Create
  <2>. QED  BY <1>2, <2>1, NothingAnswered
<1>4. ASSUME NEW body \in Bodies[kind], Modify(body)
      PROVE  AnswersCanBeSentBack'
  <2>1. kind' = kind
    BY <1>4 DEF Modify
  <2>2. CASE /\ Refusal(Parse(body), Limits) = "none"
             /\ row' = Cut(Columns(Parse(body)), Limits)
             /\ last' = Request("Modify", Complaints(body), "ok", ObjectAnswer(StructOf(row')))
    <3>1. PICK columns : columns = Cut(Columns(Parse(body)), Limits)
      OBVIOUS
    <3>2. WellFormed(columns)
      BY <1>1, <2>2, <3>1, WritesFit
    <3>. QED  BY <1>1, <2>1, <2>2, <3>1, <3>2, RowAnswered
  <2>3. CASE \E status : status # "ok" /\ last' = Request("Modify", Complaints(body), status, NULL)
    BY <1>2, <2>3, NothingAnswered
  <2>4. Refusal(Parse(body), Limits) # "ok"
    BY DEF Refusal
  <2>. QED  BY <1>4, <2>2, <2>3, <2>4 DEF Modify
<1>5. ASSUME ConfirmCreation
      PROVE  AnswersCanBeSentBack'
  <2>1. kind' = kind
    BY <1>5 DEF ConfirmCreation
  <2>2. CASE /\ draft # NULL /\ row' = Cut(draft, Limits)
             /\ last' = Request("ConfirmCreation", {}, "ok", ObjectAnswer(StructOf(row')))
    <3>1. WellFormed(draft) /\ row' = draft
      BY <1>1, <2>2, RowsFit
    <3>. QED  BY <1>1, <2>1, <2>2, <3>1, RowAnswered
  <2>3. CASE \E status : status # "ok" /\ last' = Request("ConfirmCreation", {}, status, NULL)
    BY <1>2, <2>3, NothingAnswered
  <2>. QED  BY <1>5, <2>2, <2>3 DEF ConfirmCreation
<1>6. ASSUME Read
      PROVE  AnswersCanBeSentBack'
  <2>1. PICK op \in {"GetAll", "GetById"} :
            last' = Request(op, {}, "ok", ObjectAnswer(StructOf(row)))
    BY <1>6 DEF Read
  <2>2. row # NULL /\ row' = row /\ kind' = kind
    BY <1>6 DEF Read
  <2>. QED  BY <1>1, <2>1, <2>2, RowAnswered
<1>7. ASSUME GroupGetById
      PROVE  AnswersCanBeSentBack'
  <2>1. \E status, answer : last' = Request("GroupGetById", {}, status, answer)
    BY <1>7 DEF GroupGetById
  <2>. QED  BY <1>2, <2>1, NothingAnswered
<1>8. ASSUME Delete \/ \E t \in Template : DeleteTemplate(t)
      PROVE  AnswersCanBeSentBack'
  BY <1>8, NothingAnswered DEF Delete, DeleteTemplate, Request
<1>9. CASE UNCHANGED vars
  <2>1. kind' = kind /\ row' = row /\ last' = last
    BY <1>9 DEF vars
  <2>2. CASE /\ last.op \in {"ConfirmCreation", "Modify", "GetAll", "GetById"}
             /\ last.status = "ok"
    <3>1. PICK answer : answer = last.answer
      OBVIOUS
    <3>2. PICK columns : columns = row
      OBVIOUS
    <3>3. Returns(answer, columns)
      BY <2>2, <3>1, <3>2 DEF AnswersCanBeSentBack, Returns, SentBack
    <3>. QED  BY <2>1, <3>1, <3>2, <3>3, ReturnsAnswer
  <2>3. CASE ~(/\ last.op \in {"ConfirmCreation", "Modify", "GetAll", "GetById"}
               /\ last.status = "ok")
    BY <2>1, <2>3, NothingAnswered
  <2>. QED  BY <2>2, <2>3
<1>. QED  BY <1>3, <1>4, <1>5, <1>6, <1>7, <1>8, <1>9 DEF Next

\* Refusals and confirmations, one request at a time.
LEMMA NextVerdicts ==
    ASSUME RowsInv, [Next]_vars, ErrorsAreEarned, DraftsCanBeConfirmed
    PROVE  ErrorsAreEarned' /\ DraftsCanBeConfirmed'
<1>1. kind \in Kinds /\ templates \subseteq Template /\ Limits = DraftLimits
  BY KindFacts DEF RowsInv
<1>2. ASSUME NEW body \in Bodies[kind], Create(body)
      PROVE  ErrorsAreEarned' /\ DraftsCanBeConfirmed'
  <2>1. \E answer : last' = Request("Create", Complaints(body),
                                    IF Refusal(Parse(body), Limits) = "none" THEN "ok"
                                    ELSE Refusal(Parse(body), Limits), answer)
    BY <1>1, <1>2 DEF Create
  <2>2. /\ last'.op = "Create" /\ last'.complaints = Complaints(body)
        /\ last'.status = IF Refusal(Parse(body), Limits) = "none" THEN "ok"
                          ELSE Refusal(Parse(body), Limits)
    BY <2>1 DEF Request
  <2>3. Refusal(Parse(body), Limits) \in {"none", "invalid", "server error"}
    BY DEF Refusal
  <2>. QED  BY <1>1, <2>2, <2>3, RefusalIsEarned DEF ErrorsAreEarned, DraftsCanBeConfirmed
<1>3. ASSUME NEW body \in Bodies[kind], Modify(body)
      PROVE  ErrorsAreEarned' /\ DraftsCanBeConfirmed'
  <2>. DEFINE refusal == Refusal(Parse(body), Limits)
  <2>0. \/ \E answer : /\ refusal = "none"
                        /\ last' = Request("Modify", Complaints(body), "ok", answer)
        \/ \E answer : /\ refusal # "none"
                        /\ last' = Request("Modify", Complaints(body), refusal, answer)
        \/ \E answer : last' = Request("Modify", Complaints(body), "not found", answer)
    BY <1>3 DEF Modify
  <2>1. /\ last'.op = "Modify" /\ last'.complaints = Complaints(body)
        /\ \/ last'.status = "ok" /\ Refusal(Parse(body), Limits) = "none"
           \/ last'.status = Refusal(Parse(body), Limits) /\ last'.status # "none"
           \/ last'.status = "not found"
    <3>1. ASSUME NEW status, NEW answer, last' = Request("Modify", Complaints(body), status, answer)
          PROVE  /\ last'.op = "Modify" /\ last'.complaints = Complaints(body)
                 /\ last'.status = status
      BY <3>1 DEF Request
    <3>. QED  BY <2>0, <3>1
  <2>2. Refusal(Parse(body), Limits) \in {"none", "invalid", "server error"}
    BY DEF Refusal
  <2>. QED  BY <1>1, <2>1, <2>2, RefusalIsEarned DEF ErrorsAreEarned, DraftsCanBeConfirmed
<1>4. ASSUME ConfirmCreation
      PROVE  ErrorsAreEarned' /\ DraftsCanBeConfirmed'
  <2>1. draft # NULL => ~TooLong(draft, Limits) /\ ForeignKeyHolds(draft)
    BY <1>1, RowsFit DEF RowsInv
  <2>2. \/ last' = Request("ConfirmCreation", {}, "ok", ObjectAnswer(StructOf(row')))
        \/ last' = Request("ConfirmCreation", {}, "not found", NULL)
    BY <1>4, <2>1 DEF ConfirmCreation
  <2>3. last'.op = "ConfirmCreation" /\ last'.status \in {"not found", "ok"}
    <3>1. ASSUME NEW status, NEW answer, last' = Request("ConfirmCreation", {}, status, answer)
          PROVE  last'.op = "ConfirmCreation" /\ last'.status = status
      BY <3>1 DEF Request
    <3>. QED  BY <2>2, <3>1
  <2>. QED  BY <2>3 DEF ErrorsAreEarned, DraftsCanBeConfirmed
<1>5. ASSUME Read \/ GroupGetById \/ Delete \/ \E t \in Template : DeleteTemplate(t)
      PROVE  ErrorsAreEarned' /\ DraftsCanBeConfirmed'
  <2>1. ASSUME NEW op, NEW status, NEW answer, last' = Request(op, {}, status, answer)
        PROVE  last'.op = op
    BY <2>1 DEF Request
  <2>2. Read => last'.op \in {"GetAll", "GetById"}
    BY <2>1 DEF Read
  <2>3. GroupGetById => last'.op = "GroupGetById"
    BY <2>1 DEF GroupGetById
  <2>4. Delete => last'.op = "Delete"
    BY <2>1 DEF Delete
  <2>5. (\E t \in Template : DeleteTemplate(t)) => last'.op = "DeleteTemplate"
    BY <2>1 DEF DeleteTemplate
  <2>6. last'.op \in {"GetAll", "GetById", "GroupGetById", "Delete", "DeleteTemplate"}
    BY <1>5, <2>2, <2>3, <2>4, <2>5
  <2>. QED  BY <2>6 DEF ErrorsAreEarned, DraftsCanBeConfirmed
<1>6. CASE UNCHANGED vars
  BY <1>6 DEF vars, ErrorsAreEarned, DraftsCanBeConfirmed
<1>. QED  BY <1>2, <1>3, <1>4, <1>5, <1>6 DEF Next

LEMMA InitHolds ==
    Init => AnswersCanBeSentBack /\ ErrorsAreEarned /\ DraftsCanBeConfirmed
  BY DEF Init, Request, AnswersCanBeSentBack, ErrorsAreEarned, DraftsCanBeConfirmed

-----------------------------------------------------------------------------
(* What was shown of a draft.                                              *)

\* What a row keeps of a member that was given, when these templates exist.
Keeps(p, given, kept, existing) ==
    /\ p \in DOMAIN Required => given # NULL
    /\ p \in DOMAIN Limits =>
            \/ given = NULL /\ kept = NULL
            \/ /\ given # NULL /\ kept # NULL
               /\ kept.word = given.word /\ kept.spaces <= given.spaces
    /\ p = "notification_template_id" =>
            \/ given = NULL /\ kept = NULL
            \/ /\ given # NULL /\ given.word \in DOMAIN Spelled
               /\ kept = IF Spelled[given.word] \in existing THEN Spelled[given.word] ELSE NULL
    /\ p \notin DOMAIN Limits \cup {"notification_template_id"} => kept = given

\* The answer shows a struct that the row keeps.
Shows(answer, columns, existing) ==
    \E struct :
        /\ DOMAIN struct = Names
        /\ IsDocument(answer, struct, {"master_id", "draft_id"})
        /\ \A p \in Names : Keeps(p, struct[p], columns[p], existing)

\* What ConfirmedAsShown asks of the two answers.
Becomes(before, after, existing) ==
    /\ DOMAIN after \ {IdMember(kind)} =
            {p \in DOMAIN before \ {"draft_id"} :
                ~(/\ p = "notification_template_id"
                  /\ Spelled[before[p].value.word] \notin existing)}
    /\ \A p \in DOMAIN after \ {IdMember(kind)} : SameValue(p, before[p], after[p])

\* A draft that is accepted keeps what its answer shows.
LEMMA CreateShows ==
    ASSUME kind \in Kinds, templates \subseteq Template, NEW body \in Bodies[kind],
           Refusal(Parse(body), Limits) = "none"
    PROVE  Shows(DraftAnswer(Parse(body)), Cut(Columns(Parse(body)), Limits), templates)
<1>. DEFINE q == "notification_template_id"
            struct == Parse(body)
            columns == Columns(struct)
            cut == Cut(columns, Limits)
<1>1. Documented(body) /\ DOMAIN struct = Names
  BY RefusalIsEarned, ParsesDocumented DEF Members, Names
<1>2. IsDocument(DraftAnswer(struct), struct, {"master_id", "draft_id"})
  BY <1>1, DraftDocument
<1>3. ~TooLong(struct, Limits) /\ ForeignKeyHolds(columns)
  BY DEF Refusal
<1>4. DOMAIN columns = Names /\ \A p \in Names \ {q} : columns[p] = struct[p]
  BY <1>1 DEF Columns
<1>5. /\ DOMAIN cut = Names
      /\ \A p \in Names : p \notin DOMAIN Limits => cut[p] = columns[p]
  BY <1>4 DEF Cut
<1>6. ASSUME NEW p \in DOMAIN Required
      PROVE  struct[p] # NULL
  <2>1. Property(body.value, p).type = Required[p]
    BY <1>1, <1>6, KindFacts DEF Documented, OfType, Property
  <2>. QED  BY <1>1, <2>1, MemberOfBody, KindFacts DEF Names
<1>7. ASSUME NEW p \in DOMAIN Limits
      PROVE  \/ struct[p] = NULL /\ cut[p] = NULL
             \/ /\ struct[p] # NULL /\ cut[p] # NULL
                /\ cut[p].word = struct[p].word /\ cut[p].spaces <= struct[p].spaces
  <2>1. p \in Names \ {q} /\ TextMember(p) /\ Limits[p] \in Nat
    BY KindFacts DEF Names, TextMember
  <2>2. columns[p] = struct[p] /\ struct[p] \in Texts \cup {NULL}
    BY <1>1, <1>4, <2>1, MemberOfBody
  <2>3. PICK text : text = struct[p]
    OBVIOUS
  <2>4. CASE text = NULL
    BY <1>4, <2>1, <2>2, <2>3, <2>4 DEF Cut
  <2>5. CASE text # NULL
    <3>1. /\ text \in Texts /\ text.word \in Word /\ text.spaces \in Nat
          /\ Length[text.word] \in Nat
      BY <2>2, <2>3, <2>5, ContentsAssumption DEF Texts
    <3>2. ~(Length[text.word] > Limits[p])
      BY <1>3, <2>3, <2>5 DEF TooLong
    <3>3. cut[p] = IF Size(text) > Limits[p]
                   THEN [text EXCEPT !.spaces = Limits[p] - Length[text.word]] ELSE text
      BY <1>4, <2>1, <2>2, <2>3, <2>5 DEF Cut
    <3>4. PICK new : new = cut[p]
      OBVIOUS
    <3>5. CASE Size(text) > Limits[p]
      <4>1. new = [text EXCEPT !.spaces = Limits[p] - Length[text.word]]
        BY <3>3, <3>4, <3>5
      <4>2. new.word = text.word /\ new.spaces = Limits[p] - Length[text.word]
        BY <3>1, <4>1 DEF Texts
      <4>3. new.spaces \in Nat /\ new.spaces <= text.spaces
        BY <2>1, <3>1, <3>2, <3>5, <4>2 DEF Size
      <4>4. new \in Texts
        BY <3>1, <4>1, <4>2, <4>3 DEF Texts
      <4>. QED  BY <2>3, <2>5, <3>4, <4>2, <4>3, <4>4, ContentsAssumption
    <3>6. CASE ~(Size(text) > Limits[p])
      BY <2>3, <2>5, <3>1, <3>3, <3>6
    <3>. QED  BY <3>5, <3>6
  <2>. QED  BY <2>4, <2>5
<1>8. ASSUME q \in Names
      PROVE  \/ struct[q] = NULL /\ cut[q] = NULL
             \/ /\ struct[q] # NULL /\ struct[q].word \in DOMAIN Spelled
                /\ cut[q] = IF Spelled[struct[q].word] \in templates
                            THEN Spelled[struct[q].word] ELSE NULL
  <2>1. kind = "group" /\ q \notin DOMAIN Limits
    BY <1>8, KindFacts
  <2>2. PICK text : text = struct[q]
    OBVIOUS
  <2>3. /\ Named(columns) = optional_str_to_uuid(text) /\ Named(columns) = columns[q]
        /\ text # NULL => text \in Texts
    BY <1>1, <2>1, <2>2, NamedInBody DEF Named
  <2>4. cut[q] = optional_str_to_uuid(text)
    BY <1>5, <1>8, <2>1, <2>3
  <2>5. optional_str_to_uuid(text) \in templates \cup {NULL}
    BY <1>3, <2>3 DEF ForeignKeyHolds
  <2>6. CASE text = NULL
    BY <2>2, <2>4, <2>6 DEF optional_str_to_uuid
  <2>7. CASE text # NULL
    <3>1. optional_str_to_uuid(text) \in templates /\ Thrown \notin templates
      BY <2>3, <2>5, <2>7, UuidOfText, ContentsAssumption
    <3>2. PICK w \in DOMAIN Spelled : text = Text(w)
      BY <2>3, <2>7, <3>1, UuidOfText
    <3>3. text.word = w /\ Spelled[w] = optional_str_to_uuid(text)
      BY <2>3, <2>7, <3>2, UuidOfText DEF Text
    <3>. QED  BY <2>2, <2>4, <2>7, <3>1, <3>2, <3>3
  <2>. QED  BY <2>6, <2>7
<1>9. \A p \in Names : p \notin DOMAIN Limits \cup {q} => cut[p] = struct[p]
  BY <1>4, <1>5
<1>. HIDE DEF struct, cut
<1>10. \A p \in Names : Keeps(p, struct[p], cut[p], templates)
  BY <1>6, <1>7, <1>8, <1>9 DEF Keeps
<1>. QED  BY <1>1, <1>2, <1>10 DEF Shows, struct, cut

\* It still does when a template has been deleted.
LEMMA DeletionShows ==
    ASSUME kind = "group", NEW columns, DOMAIN columns = Names, NEW t, t \in templates,
           templates \subseteq Template, NULL # columns,
           NEW answer, Shows(answer, columns, templates)
    PROVE  Shows(answer, SetNull(columns, t), templates \ {t})
<1>. DEFINE q == "notification_template_id"
            new == SetNull(columns, t)
<1>1. PICK struct : /\ DOMAIN struct = Names
                    /\ IsDocument(answer, struct, {"master_id", "draft_id"})
                    /\ \A p \in Names : Keeps(p, struct[p], columns[p], templates)
  BY DEF Shows
<1>2. kind \in Kinds /\ q \in Names /\ q \notin DOMAIN Limits
  BY KindFacts DEF Kinds, Names
<1>3. /\ \A p \in Names \ {q} : new[p] = columns[p]
      /\ new[q] = IF columns[q] = t THEN NULL ELSE columns[q]
  BY <1>2 DEF SetNull
<1>4. t # NULL
  BY ContentsAssumption
<1>. HIDE DEF new
<1>5. ASSUME NEW p \in Names
      PROVE  Keeps(p, struct[p], new[p], templates \ {t})
  <2>1. CASE p # q
    BY <1>1, <1>3, <2>1 DEF Keeps
  <2>2. CASE p = q
    <3>1. Keeps(q, struct[q], columns[q], templates)
      BY <1>1, <1>2
    <3>2. CASE struct[q] = NULL
      BY <1>2, <1>3, <1>4, <2>2, <3>1, <3>2 DEF Keeps
    <3>3. CASE struct[q] # NULL
      BY <1>2, <1>3, <1>4, <2>2, <3>1, <3>3 DEF Keeps
    <3>. QED  BY <3>2, <3>3
  <2>. QED  BY <2>1, <2>2
<1>. QED  BY <1>1, <1>5 DEF Shows, new

\* The object is answered as the draft was shown.
LEMMA ConfirmationShows ==
    ASSUME kind \in Kinds, NEW columns, WellFormed(columns),
           NEW before, NEW existing, Shows(before, columns, existing),
           existing \subseteq Template
    PROVE  Becomes(before, ObjectAnswer(StructOf(columns)), existing)
<1>. DEFINE q == "notification_template_id"
            id == IdMember(kind)
            given == StructOf(columns)
            after == ObjectAnswer(given)
            texts == DOMAIN Limits
<1>1. PICK struct : /\ DOMAIN struct = Names
                    /\ IsDocument(before, struct, {"master_id", "draft_id"})
                    /\ \A p \in Names : Keeps(p, struct[p], columns[p], existing)
  BY DEF Shows
<1>2. DOMAIN given = Names
  BY StructOfRow
<1>3. IsDocument(after, given, {"master_id", id})
  BY <1>2, ObjectDocument
<1>4. /\ \A p \in Names \ {q} : given[p] = columns[p]
      /\ q \in Names => given[q] = optional_uuid_to_str(columns[q])
  BY KindFacts DEF StructOf, WellFormed
<1>5. /\ {"master_id", "draft_id", id} \cap Names = {}
      /\ DOMAIN Required \cap DOMAIN Optional = {}
      /\ q \notin texts /\ texts \subseteq Names
      /\ \A p \in Names : TextMember(p) => p \in texts \cup {q}
      /\ q \in Names => q \in DOMAIN Optional
      /\ id \notin {"master_id", "draft_id"}
  BY KindFacts, SchemaOfKind DEF Names, Kinds, IdMember
<1>. HIDE DEF given, after, id, texts
\* The template, if the struct names one.
<1>6. ASSUME q \in Names
      PROVE  \/ struct[q] = NULL /\ given[q] = NULL
             \/ /\ struct[q] # NULL /\ Spelled[struct[q].word] \notin existing
                /\ given[q] = NULL
             \/ /\ struct[q] # NULL /\ Spelled[struct[q].word] \in existing
                /\ given[q] # NULL
                /\ struct[q].word \in DOMAIN Spelled /\ given[q].word \in DOMAIN Spelled
                /\ Spelled[struct[q].word] = Spelled[given[q].word]
  <2>1. Keeps(q, struct[q], columns[q], existing)
    BY <1>1, <1>6
  <2>2. CASE columns[q] = NULL
    <3>1. given[q] = NULL
      BY <1>4, <1>6, <2>2 DEF optional_uuid_to_str
    <3>2. struct[q] = NULL \/ Spelled[struct[q].word] \notin existing
      BY <2>1, <2>2, ContentsAssumption DEF Keeps
    <3>. QED  BY <3>1, <3>2
  <2>3. CASE columns[q] # NULL
    <3>1. /\ struct[q] # NULL /\ struct[q].word \in DOMAIN Spelled
          /\ columns[q] = Spelled[struct[q].word] /\ columns[q] \in existing
      BY <2>1, <2>3 DEF Keeps
    <3>2. given[q] = Text(Spelling[columns[q]])
      BY <1>4, <1>6, <2>3 DEF optional_uuid_to_str
    <3>3. /\ Spelling[columns[q]] \in DOMAIN Spelled
          /\ Spelled[Spelling[columns[q]]] = columns[q]
          /\ Spelling[columns[q]] \in Word
      BY <3>1, ContentsAssumption
    <3>4. given[q] \in Texts /\ given[q].word = Spelling[columns[q]]
      BY <3>2, <3>3 DEF Text, Texts
    <3>. QED  BY <3>1, <3>3, <3>4, ContentsAssumption
  <2>. QED  BY <2>2, <2>3
\* The other members.
<1>7. ASSUME NEW p \in Names \ {q}
      PROVE  /\ struct[p] = NULL <=> given[p] = NULL
             /\ p \in texts /\ struct[p] # NULL =>
                    given[p].word = struct[p].word /\ given[p].spaces <= struct[p].spaces
             /\ p \notin texts => given[p] = struct[p]
  BY <1>1, <1>4 DEF Keeps, texts
<1>8. /\ DOMAIN before = {"master_id", "draft_id"} \cup DOMAIN Required
                            \cup {p \in DOMAIN Optional : struct[p] # NULL}
      /\ DOMAIN after = {"master_id", id} \cup DOMAIN Required
                            \cup {p \in DOMAIN Optional : given[p] # NULL}
  BY <1>1, <1>3 DEF IsDocument
<1>9. ASSUME NEW p \in DOMAIN Required \cup DOMAIN Optional, NEW type,
             p \in DOMAIN Required => type = Required[p],
             p \in DOMAIN Optional => type = Optional[p]
      PROVE  /\ p \in DOMAIN before => before[p] = Json(type, struct[p])
             /\ p \in DOMAIN after => after[p] = Json(type, given[p])
  BY <1>1, <1>3, <1>5, <1>8, <1>9 DEF IsDocument, Names
<1>10. q \in DOMAIN before => q \in Names /\ struct[q] # NULL /\ before[q].value = struct[q]
  <2>1. q \in DOMAIN before => q \in DOMAIN Optional /\ struct[q] # NULL
    BY <1>5, <1>8 DEF Names
  <2>2. q \in DOMAIN before => before[q] = Json(Optional[q], struct[q])
    BY <1>5, <1>9, <2>1
  <2>. QED  BY <2>1, <2>2 DEF Json, Names
<1>11. DOMAIN after \ {id} = {p \in DOMAIN before \ {"draft_id"} :
                                ~(p = q /\ Spelled[before[p].value.word] \notin existing)}
  <2>1. ASSUME NEW p, p # q
        PROVE  p \in DOMAIN after \ {id} <=> p \in DOMAIN before \ {"draft_id"}
    BY <1>5, <1>7, <1>8, <2>1 DEF Names
  <2>2. q \in DOMAIN after \ {id} <=>
            /\ q \in DOMAIN before \ {"draft_id"}
            /\ Spelled[before[q].value.word] \in existing
    BY <1>5, <1>6, <1>8, <1>10 DEF Names
  <2>. QED  BY <2>1, <2>2
<1>12. ASSUME NEW p \in DOMAIN after \ {id}
       PROVE  SameValue(p, before[p], after[p])
  <2>1. p \in DOMAIN before
    BY <1>11
  <2>2. CASE p = "master_id"
    BY <1>1, <1>3, <2>2 DEF IsDocument, SameValue, Json, Text
  <2>3. CASE p # "master_id"
    <3>1. p \in Names
      BY <1>8, <2>3 DEF Names
    <3>2. PICK type : /\ p \in DOMAIN Required => type = Required[p]
                      /\ p \in DOMAIN Optional => type = Optional[p]
      BY <1>5
    <3>3. before[p] = Json(type, struct[p]) /\ after[p] = Json(type, given[p])
      BY <1>9, <2>1, <3>1, <3>2 DEF Names
    <3>4. /\ before[p].type = type /\ before[p].value = struct[p]
          /\ after[p].type = type /\ after[p].value = given[p]
      BY <3>3 DEF Json
    <3>5. type = "string" => TextMember(p)
      BY <3>1, <3>2 DEF TextMember, Names
    <3>6. struct[p] # NULL /\ given[p] # NULL
      <4>1. CASE p \in DOMAIN Optional
        BY <1>5, <1>8, <2>1, <2>3, <3>1, <4>1
      <4>2. CASE p \in DOMAIN Required
        BY <1>1, <1>5, <1>7, <3>1, <4>2 DEF Keeps
      <4>. QED  BY <3>1, <4>1, <4>2 DEF Names
    <3>7. CASE p = q
      <4>1. type = "string"
        BY <1>5, <3>1, <3>2, <3>7, KindFacts
      <4>. QED  BY <1>6, <3>1, <3>4, <3>6, <3>7, <4>1 DEF SameValue
    <3>8. CASE p # q /\ type = "string"
      BY <1>5, <1>7, <3>1, <3>4, <3>5, <3>6, <3>8 DEF SameValue
    <3>9. CASE p # q /\ type # "string"
      <4>1. p \notin texts
        BY <3>2, <3>9, KindFacts DEF texts
      <4>. QED  BY <1>7, <3>1, <3>3, <3>4, <3>9, <4>1 DEF SameValue
    <3>. QED  BY <3>7, <3>8, <3>9
  <2>. QED  BY <2>2, <2>3
<1>. QED  BY <1>11, <1>12 DEF Becomes, after, given, id

\* At any time the last draft keeps what was shown of it.
ShownInv == draft # NULL => Shows(shown, draft, templates)

LEMMA ShownStays ==
    ASSUME kind' = kind, NEW d, draft' = d, NEW a, shown' = a, NEW T, templates' = T,
           d # NULL => Shows(a, d, T)
    PROVE  ShownInv'
<1>1. Required' = Required /\ Optional' = Optional /\ Limits' = Limits /\ Names' = Names
  BY SameKind DEF Names
<1>2. ASSUME NEW struct
      PROVE  IsDocument(a, struct, {"master_id", "draft_id"})' <=>
                IsDocument(a, struct, {"master_id", "draft_id"})
  BY <1>1 DEF IsDocument
<1>3. \A p, given, kept : Keeps(p, given, kept, T)' <=> Keeps(p, given, kept, T)
  BY <1>1 DEF Keeps
<1>4. d # NULL => Shows(a, d, T)'
  BY <1>1, <1>2, <1>3 DEF Shows
<1>. QED  BY <1>4 DEF ShownInv

LEMMA NextShown == RowsInv /\ ShownInv /\ [Next]_vars => ShownInv'
<1>. SUFFICES ASSUME RowsInv, ShownInv, [Next]_vars
              PROVE  ShownInv'
  OBVIOUS
<1>1. /\ kind \in Kinds /\ templates \subseteq Template
      /\ draft # NULL => WellFormed(draft)
      /\ draft # NULL => Shows(shown, draft, templates)
      /\ Limits = DraftLimits
  BY KindFacts DEF RowsInv, ShownInv
<1>2. ASSUME kind' = kind, templates' = templates, draft' \in {draft, NULL}, shown' = shown
      PROVE  ShownInv'
  BY <1>1, <1>2, ShownStays
<1>3. ASSUME NEW body \in Bodies[kind], Create(body)
      PROVE  ShownInv'
  <2>1. CASE Refusal(Parse(body), DraftLimits) = "none"
    <3>1. /\ draft' = Cut(Columns(Parse(body)), Limits)
          /\ last' = Request("Create", Complaints(body), "ok", DraftAnswer(Parse(body)))
          /\ shown' = last'.answer
          /\ Refusal(Parse(body), Limits) = "none"
          /\ kind' = kind /\ templates' = templates
      BY <1>1, <1>3, <2>1 DEF Create
    <3>2. PICK d : d = Cut(Columns(Parse(body)), Limits)
      OBVIOUS
    <3>3. PICK a : a = DraftAnswer(Parse(body))
      OBVIOUS
    <3>4. shown' = a
      BY <3>1, <3>3 DEF Request
    <3>5. Shows(a, d, templates)
      BY <1>1, <3>1, <3>2, <3>3, CreateShows
    <3>. QED  BY <3>1, <3>2, <3>4, <3>5, ShownStays
  <2>2. CASE Refusal(Parse(body), DraftLimits) # "none"
    BY <1>2, <1>3, <2>2 DEF Create
  <2>. QED  BY <2>1, <2>2
<1>4. ASSUME NEW t \in Template, DeleteTemplate(t)
      PROVE  ShownInv'
  <2>1. /\ kind = "group" /\ kind' = kind /\ t \in templates /\ templates' = templates \ {t}
        /\ draft' = SetNull(draft, t) /\ shown' = shown
    BY <1>4 DEF DeleteTemplate
  <2>2. PICK d : d = SetNull(draft, t)
    OBVIOUS
  <2>3. PICK a : a = shown
    OBVIOUS
  <2>4. PICK T : T = templates \ {t}
    OBVIOUS
  <2>5. d # NULL => Shows(a, d, T)
    <3>1. CASE draft = NULL
      BY <2>2, <3>1 DEF SetNull
    <3>2. CASE draft # NULL
      <4>1. DOMAIN draft = Names
        BY <1>1, <3>2 DEF WellFormed
      <4>. QED  BY <1>1, <2>1, <2>2, <2>3, <2>4, <3>2, <4>1, DeletionShows
    <3>. QED  BY <3>1, <3>2
  <2>. QED  BY <2>1, <2>2, <2>3, <2>4, <2>5, ShownStays
<1>5. ASSUME ConfirmCreation
      PROVE  ShownInv'
  BY <1>2, <1>5 DEF ConfirmCreation
<1>6. ASSUME NEW body \in Bodies[kind], Modify(body)
      PROVE  ShownInv'
  BY <1>2, <1>6 DEF Modify
<1>7. ASSUME Read \/ GroupGetById \/ Delete
      PROVE  ShownInv'
  BY <1>2, <1>7 DEF Read, GroupGetById, Delete
<1>8. CASE UNCHANGED vars
  BY <1>2, <1>8 DEF vars
<1>. QED  BY <1>3, <1>4, <1>5, <1>6, <1>7, <1>8 DEF Next

LEMMA ShownAlways == Spec => []ShownInv
<1>1. Init => ShownInv
  BY DEF Init, ShownInv
<1>. QED  BY <1>1, NextShown, RowsAlways, PTL DEF Spec

\* Confirmations, one request at a time.
LEMMA NextConfirmed ==
    ASSUME RowsInv, ShownInv, [Next]_vars, ConfirmedAsShown
    PROVE  ConfirmedAsShown'
<1>1. /\ kind \in Kinds /\ templates \subseteq Template
      /\ draft # NULL => WellFormed(draft)
      /\ draft # NULL => Shows(shown, draft, templates)
  BY DEF RowsInv, ShownInv
<1>2. ASSUME NEW op, NEW complaints, NEW status, NEW answer,
             last' = Request(op, complaints, status, answer)
      PROVE  last'.op = op /\ last'.status = status /\ last'.answer = answer
  BY <1>2 DEF Request
<1>3. ASSUME last'.op # "ConfirmCreation" \/ last'.status # "ok"
      PROVE  ConfirmedAsShown'
  BY <1>3 DEF ConfirmedAsShown
<1>4. ASSUME kind' = kind, NEW before, shown' = before, NEW after, last'.answer = after,
             NEW T, templates' = T, Becomes(before, after, T)
      PROVE  ConfirmedAsShown'
  <2>1. IdMember(kind)' = IdMember(kind)
    BY <1>4
  <2>2. \A p : TemplateGone(p)' <=> /\ p = "notification_template_id"
                                    /\ Spelled[before[p].value.word] \notin T
    BY <1>4 DEF TemplateGone
  <2>. QED  BY <1>4, <2>1, <2>2 DEF ConfirmedAsShown, Becomes
<1>5. ASSUME ConfirmCreation
      PROVE  ConfirmedAsShown'
  <2>1. kind' = kind /\ templates' = templates /\ shown' = shown
    BY <1>5 DEF ConfirmCreation
  <2>2. CASE /\ draft # NULL /\ row' = Cut(draft, Limits)
             /\ last' = Request("ConfirmCreation", {}, "ok", ObjectAnswer(StructOf(row')))
    <3>1. row' = draft /\ WellFormed(draft) /\ Shows(shown, draft, templates)
      BY <1>1, <2>2, RowsFit
    <3>2. PICK columns : columns = draft
      OBVIOUS
    <3>3. PICK before : before = shown
      OBVIOUS
    <3>4. PICK T : T = templates
      OBVIOUS
    <3>5. PICK after : after = ObjectAnswer(StructOf(columns))
      OBVIOUS
    <3>6. Becomes(before, after, T)
      BY <1>1, <3>1, <3>2, <3>3, <3>4, <3>5, ConfirmationShows
    <3>7. last' = Request("ConfirmCreation", {}, "ok", after)
      BY <2>2, <3>1, <3>2, <3>5
    <3>8. last'.answer = after
      BY <1>2, <3>7
    <3>. QED  BY <1>4, <2>1, <3>3, <3>4, <3>6, <3>8
  <2>3. CASE \E status : status # "ok" /\ last' = Request("ConfirmCreation", {}, status, NULL)
    BY <1>2, <1>3, <2>3
  <2>. QED  BY <1>5, <2>2, <2>3 DEF ConfirmCreation
<1>6. ASSUME \/ \E body \in Bodies[kind] : Create(body) \/ Modify(body)
             \/ Read \/ GroupGetById \/ Delete \/ \E t \in Template : DeleteTemplate(t)
      PROVE  ConfirmedAsShown'
  <2>. DEFINE OtherRequest == \E op, complaints, status, answer :
                op # "ConfirmCreation" /\ last' = Request(op, complaints, status, answer)
  <2>1. OtherRequest
    <3>1. ASSUME NEW body, Create(body) \/ Modify(body)
          PROVE  OtherRequest
      BY <3>1 DEF Create, Modify
    <3>2. ASSUME Read \/ GroupGetById
          PROVE  OtherRequest
      BY <3>2 DEF Read, GroupGetById
    <3>3. ASSUME Delete \/ \E t \in Template : DeleteTemplate(t)
          PROVE  OtherRequest
      BY <3>3 DEF Delete, DeleteTemplate
    <3>. QED  BY <1>6, <3>1, <3>2, <3>3
  <2>. QED  BY <1>2, <1>3, <2>1
<1>7. CASE UNCHANGED vars
  BY <1>7 DEF vars, ConfirmedAsShown, TemplateGone
<1>. QED  BY <1>5, <1>6, <1>7 DEF Next

-----------------------------------------------------------------------------

\* Every answer about a row, sent back without its ids as a modification,
\* is taken and changes nothing: for any texts, any spelling of ids, and
\* whatever templates were deleted.
THEOREM AnswersRoundTrip == Spec => []AnswersCanBeSentBack
  BY InitHolds, NextAnswers, RowsAlways, PTL DEF Spec

\* What a draft was shown as is what its confirmation makes of it, but for
\* spaces at the end of texts and for a template that was deleted: for any
\* texts and spellings, however often the draft is confirmed.
THEOREM ConfirmedAsTheyWereShown == Spec => []ConfirmedAsShown
<1>1. Init => ConfirmedAsShown
  BY DEF Init, Request, ConfirmedAsShown
<1>. QED  BY <1>1, NextConfirmed, RowsAlways, ShownAlways, PTL DEF Spec

\* Refused bodies have the fault that the status tells, accepted ones none:
\* a server error is the answer to a text that is too long for its column or
\* that PostgreSQL takes into none, and to nothing else.
THEOREM RefusalsEarned == Spec => []ErrorsAreEarned
  BY InitHolds, NextVerdicts, RowsAlways, PTL DEF Spec

\* The confirmation of a draft is no server error, whatever became of its
\* template.
THEOREM ConfirmationsSucceed == Spec => []DraftsCanBeConfirmed
  BY InitHolds, NextVerdicts, RowsAlways, PTL DEF Spec
==============================================================================
