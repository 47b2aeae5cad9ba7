--------------------------- MODULE MCCollections ---------------------------
(* Two handlers, one key and two valid bodies: two requests of one key     *)
(* race, a third one meets the result; three ids, so that a listing page   *)
(* by page has a collection before and one behind its position.  The text  *)
(* schema has one document it accepts, the number schema none; the others  *)
(* lack a required field, have an unknown or a null one, or too many.      *)
EXTENDS Collections, Schemas

F(name, type, required) ==
    [name |-> name, type |-> type, required |-> required, analyzer |-> NoAnalyzer, boost |-> 1]

TextSchema == <<F("a", "text", TRUE), F("b", "number", FALSE)>>
NumberSchema == <<F("a", "number", TRUE), F("c", "bool", TRUE)>>
TwiceNamed == <<F("a", "text", TRUE), F("a", "date", FALSE)>>
NoFields == <<>>

MCBodies == {TextSchema, NumberSchema, TwiceNamed, NoFields}
MCValid == {body \in MCBodies : SchemaAccepted(body)}
MCContents == {TextSchema, TwiceNamed}
MCOneBody == {TextSchema}

Doc1(a) == [n \in {"a"} |-> a]
Doc2(n2, a, b) == [n \in {"a", n2} |-> IF n = "a" THEN a ELSE b]
MCDocuments ==
    {Doc1("string"), Doc1("number"), [n \in {"b"} |-> "number"], Doc2("b", "string", "null"),
     Doc2("c", "string", "bool"),
     [n \in {"a", "b", "c"} |-> IF n = "a" THEN "string" ELSE "number"]}

MCFitting == {p \in MCDocuments \X MCValid : DocumentAccepted(p[1], p[2])}
MCFits(document, fields) == <<document, fields>> \in MCFitting

MCIds == 1..3
=============================================================================
