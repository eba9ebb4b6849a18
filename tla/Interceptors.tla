---------------------------- MODULE Interceptors -----------------------------
(***************************************************************************)
(* The chain of request interceptors as run wires it: SchemaValidator, and *)
(* after it PIIMasker.  A body is a JSON value, the empty body, or bytes   *)
(* that are no JSON.  Every reader of a body stops at one MiB, and what is *)
(* left of a longer one is no JSON.                                        *)
(***************************************************************************)
EXTENDS Naturals, Sequences

CONSTANT Sensitive    \* names of fields that match a pattern of the masker

Leaf(x)       == [type |-> "leaf", is |-> x]
Object(f)     == [type |-> "object", fields |-> f]
Array(items)  == [type |-> "array", items |-> items]
Bytes         == [type |-> "bytes"]
Long          == [type |-> "long"]
Empty         == [type |-> "empty"]
Rejected      == [type |-> "rejected"]

Mask == Leaf("***")

ReadAll(body) == IF body = Long THEN Bytes ELSE body

HasBody(method) == method \in {"POST", "PUT", "PATCH"}

----------------------------------------------------------------------------
(* A schema is the set of the values it admits, None is no schema.         *)
Validate(none, schema, method, body) ==
    IF schema = none \/ ~HasBody(method) \/ body = Empty THEN body
    ELSE IF ReadAll(body) \in schema THEN ReadAll(body) ELSE Rejected

(* maskMap goes into objects and into the objects of an array, but not     *)
(* into arrays of arrays.                                                  *)
RECURSIVE MaskMap(_)
MaskMap(m) ==
    LET Within(v) == IF v.type = "object" THEN Object(MaskMap(v.fields)) ELSE v IN
    [k \in DOMAIN m |->
        IF k \in Sensitive THEN Mask
        ELSE IF m[k].type = "array"
        THEN Array([i \in DOMAIN m[k].items |-> Within(m[k].items[i])])
        ELSE Within(m[k])]

(* A body that is no object is left as it is.                              *)
MaskBody(body) == IF body.type = "object" THEN Object(MaskMap(body.fields)) ELSE body

MaskPII(masking, method, body) ==
    IF masking /\ HasBody(method) THEN MaskBody(ReadAll(body)) ELSE body

(* The first error ends the chain.                                         *)
Intercept(none, endpoint, method, body) ==
    LET validated == Validate(none, endpoint.schema, method, body) IN
    IF validated = Rejected THEN Rejected
    ELSE MaskPII(endpoint.masking, method, validated)

----------------------------------------------------------------------------
(* What masking is for: a sensitive field anywhere in a value that can be  *)
(* read.                                                                   *)
RECURSIVE Exposed(_)
Exposed(v) ==
    \/ /\ v.type = "object"
       /\ \E k \in DOMAIN v.fields :
             IF k \in Sensitive THEN v.fields[k] # Mask ELSE Exposed(v.fields[k])
    \/ v.type = "array" /\ \E i \in DOMAIN v.items : Exposed(v.items[i])

RECURSIVE ArrayInArray(_)
ArrayInArray(v) ==
    \/ v.type = "object" /\ \E k \in DOMAIN v.fields : ArrayInArray(v.fields[k])
    \/ /\ v.type = "array"
       /\ \E i \in DOMAIN v.items : v.items[i].type = "array" \/ ArrayInArray(v.items[i])

(* In a column with this value a field can be read that the masker should  *)
(* have masked.                                                            *)
Leaks(column, value) ==
    LET object == Object([c \in {column} |-> value]) IN
    Exposed(object) /\ ~ArrayInArray(object)
=============================================================================
