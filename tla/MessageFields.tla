--------------------------- MODULE MessageFields ---------------------------
(***************************************************************************)
(* How the generated classes of packages/protobuf are written down here: a *)
(* message is the sequence of its fields, in the order in which            *)
(* serializeBinaryToWriter writes them.  A field is scalar (left out when  *)
(* it has the default of its type), a message (left out when not set), a   *)
(* list, written one element at a time or packed, or a map, which is       *)
(* written one entry at a time.                                            *)
(***************************************************************************)
EXTENDS Naturals, Sequences

Field(name, number, type, rule) == [name |-> name, number |-> number, type |-> type, rule |-> rule]

Bytes(name, number)     == Field(name, number, "bytes", "scalar")
Text(name, number)      == Field(name, number, "string", "scalar")
Bool(name, number)      == Field(name, number, "bool", "scalar")
Uint32(name, number)    == Field(name, number, "uint32", "scalar")
Uint64(name, number)    == Field(name, number, "uint64", "scalar")
Enum(name, number)      == Field(name, number, "enum", "scalar")
Sub(name, number, type) == Field(name, number, type, "message")
Entries(name, number)   == Field(name, number, "entry", "list")
Many(field)             == [field EXCEPT !.rule = "list"]
Packed(field)           == [field EXCEPT !.rule = "packed"]

Unary(request, response)   == [request |-> request, response |-> response, streams |-> FALSE]
Streams(request, response) == [request |-> request, response |-> response, streams |-> TRUE]
=============================================================================
