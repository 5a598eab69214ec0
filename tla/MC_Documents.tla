---------------------------- MODULE MC_Documents ----------------------------
(***************************************************************************)
(* A small instance of Documents for TLC: bodies with texts of interesting *)
(* lengths, spellings of ids, and members that are missing, null or of the *)
(* wrong type.                                                             *)
(***************************************************************************)
EXTENDS Documents

CONSTANTS
    ann, long33, long65, long513, long1025, zero,   \* words
    lower1, upper1, lower2, lost,                   \* spellings of ids
    t1, t2, n1, meText, idText

Lengths == [w \in Word |->
    CASE w = long33 -> 33 [] w = long65 -> 65 [] w = long513 -> 513 [] w = long1025 -> 1025
      [] w \in {ann, zero} -> 3 [] OTHER -> 36]

SpelledIds == [w \in {lower1, upper1, lower2, lost} |->
    CASE w \in {lower1, upper1} -> t1 [] w = lower2 -> t2 [] OTHER -> lost]

Canonical == [t \in Template |-> IF t = t1 THEN lower1 ELSE lower2]

String(words) == {Json("string", Text(w)) : w \in words}
Padded(word, spaces) == Json("string", [word |-> word, spaces |-> spaces])
Null == Json("null", NULL)
Number == Json("int64", n1)
Missing == Json("missing", NULL)

\* The objects that have a value of values[p] for every p.
Objects(values) ==
    LET All == [DOMAIN values -> UNION {values[p] : p \in DOMAIN values}]
    IN  {Json("object", [p \in {q \in DOMAIN f : f[q] # Missing} |-> f[p]]) :
            f \in {g \in All : \A p \in DOMAIN values : g[p] \in values[p]}}

\* zero is a text with the character U+0000.
Names == String({ann, long65, zero}) \cup {Padded(ann, 70), Missing}

TemplateBodies == Objects(
    [name |-> Names \cup {Null, Number},
     message_text |->
        String({ann, long65, long1025}) \cup {Padded(ann, 1030), Null, Missing, Number},
     extra |-> {Number, Missing}])

RecipientBodies == Objects(
    [name |-> Names,
     email |-> String({ann, long513, zero}) \cup {Null, Missing},
     phone_number |-> String({long33}) \cup {Padded(ann, 30), Missing},
     telegram_id |-> String({ann}) \cup {Number, Missing}])

GroupBodies == Objects(
    [name |-> Names,
     notification_template_id |->
        String({ann, upper1, lower2, lost, zero}) \cup {Padded(lower1, 1), Null, Missing, Number},
     active |-> {Json("bool", TRUE), Missing, Null}])

AllBodies == [template  |-> TemplateBodies \cup {Json("array", NULL)},
              recipient |-> RecipientBodies,
              group     |-> GroupBodies]
=============================================================================
