------------------------------- MODULE Schemas -------------------------------
(***************************************************************************)
(* Which schemas and documents are accepted (internal/search/domain/       *)
(* types.go): Field.Validate, NewSchema, Document.Validate, validateValue. *)
(*                                                                         *)
(* A schema is a sequence of fields, a document a function from the names  *)
(* of its fields to the JSON kinds of their values.                        *)
(***************************************************************************)
EXTENDS Naturals, Sequences, FiniteSets

CONSTANTS
    BadNames,   \* blank names, and those with a blank, a dot or a slash
    NoAnalyzer, \* a field that names none
    MaxFields   \* the limit of the configuration

FieldTypes == {"text", "keyword", "number", "date", "bool"}

FieldAccepted(field) ==
    /\ field.name \notin BadNames
    /\ field.type \in FieldTypes
    /\ field.analyzer # NoAnalyzer => field.type = "text"
    /\ field.boost \in 0..100

SchemaAccepted(fields) ==
    /\ fields # <<>>
    /\ \A i \in DOMAIN fields : FieldAccepted(fields[i])
    /\ \A i, j \in DOMAIN fields : fields[i].name = fields[j].name => i = j

(* JSON gives strings, numbers, booleans, null, and the rest; a date is    *)
(* any string.                                                             *)
ValueFits(type, kind) ==
    CASE type \in {"text", "keyword", "date"} -> kind = "string"
      [] type = "number" -> kind = "number"
      [] type = "bool" -> kind = "bool"

(* An optional field may be missing, but not null.                         *)
DocumentAccepted(document, fields) ==
    /\ Cardinality(DOMAIN document) <= MaxFields
    /\ \A i \in DOMAIN fields :
         IF fields[i].name \in DOMAIN document
         THEN ValueFits(fields[i].type, document[fields[i].name])
         ELSE ~fields[i].required
    /\ DOMAIN document \subseteq {fields[i].name : i \in DOMAIN fields}
=============================================================================
