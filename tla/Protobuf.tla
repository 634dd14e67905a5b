------------------------------ MODULE Protobuf ------------------------------
(***************************************************************************)
(* A message of packages/protobuf on its way: one side sets its fields and *)
(* serialises it, the other reads it with the class of its own version,    *)
(* which may lack some of the fields.  All generated classes are alike but *)
(* for their tables of fields (EntityMessages, AccessMessages, ...), which *)
(* Tables holds; a field whose value is a message is opaque here, being a  *)
(* message of another class.  Samples are the values tried of a table and  *)
(* Readers the fields that a reader's class has of it.                     *)
(***************************************************************************)
EXTENDS MessageFields

CONSTANTS Tables, Samples(_), Readers(_), Ordered, Items, Zero, Null

VARIABLES
  fields,   \* the fields of the class
  value,    \* field name -> what the sender has set
  knows,    \* the fields that the class of the reader has
  wire,     \* field number -> what is on the wire of it and not read yet
  read,     \* field name -> what the reader has so far
  at        \* "setting", "reading", "done"

vars == <<fields, value, knows, wire, read, at>>

Fields(table)   == {table[i] : i \in DOMAIN table}
Names(table)    == {f.name : f \in Fields(table)}
Numbers(table)  == {f.number : f \in Fields(table)}
Lists           == {"list", "packed"}

(* What an accessor returns of a field that is not set. *)
Default(f) == IF f.rule \in Lists THEN << >> ELSE IF f.rule = "message" THEN Null ELSE Zero

(* A list holds defaults as well as other items: they keep their place. *)
Fits(f, v) ==
  IF f.rule \in Lists THEN v \in Seq(Items \cup {Zero})
  ELSE IF f.rule = "message" THEN v \in Items \cup {Null} ELSE v \in Items \cup {Zero}

Message(table, v) == DOMAIN v = Names(table) /\ \A f \in Fields(table) : Fits(f, v[f.name])

ASSUME TablesAssumption ==
  \A table \in Tables :
    /\ \A f \in Fields(table) : f.rule \in {"scalar", "message", "list", "packed"}
    /\ \A f, g \in Fields(table) : f.name = g.name \/ f.number = g.number => f = g
    /\ \A v \in Samples(table) : Message(table, v)
    /\ Readers(table) \subseteq SUBSET Fields(table)

-----------------------------------------------------------------------------
(* What serializeBinaryToWriter puts on the wire of a field: nothing when  *)
(* it has its default.  (Whether the numbers of a packed field come in one *)
(* piece is seen when they are read.)                                      *)
Written(f, v) == IF v = Default(f) THEN << >> ELSE IF f.rule \in Lists THEN v ELSE <<v>>

serializeBinary ==
  /\ at = "setting"
  /\ wire' = [n \in Numbers(fields) |->
                LET f == CHOOSE g \in Fields(fields) : g.number = n IN Written(f, value[f.name])]
  /\ read' = [name \in {f.name : f \in knows} |-> Default(CHOOSE f \in knows : f.name = name)]
  /\ at' = "reading"
  /\ UNCHANGED <<fields, value, knows>>

Waiting == {n \in Numbers(fields) : wire[n] # << >>}
(* This code writes the fields in the order of their numbers; another      *)
(* implementation need not.  Ordered bounds the orders that are tried.     *)
MayBeNext(n) == n \in Waiting /\ (fields \in Ordered => \A other \in Waiting : n <= other)

Takes(n, count) == wire' = [wire EXCEPT ![n] = SubSeq(@, count + 1, Len(@))]

(* deserializeBinaryFromReader, one field: a set of the accessor, or an    *)
(* add for each element.  The element of a list comes alone; the numbers   *)
(* of a packed field in one piece or, from a writer that does not pack, in *)
(* several.                                                                *)
ReadsSingle(f) ==
  /\ at = "reading" /\ MayBeNext(f.number) /\ f.rule \notin Lists
  /\ read' = [read EXCEPT ![f.name] = wire[f.number][1]]
  /\ Takes(f.number, 1)
  /\ UNCHANGED <<fields, value, knows, at>>

(* Mutant: the element is set in place of those read before. *)
AddsLast(f, count) ==
  /\ at = "reading" /\ MayBeNext(f.number) /\ f.rule \in Lists
  /\ count \in 1 .. Len(wire[f.number]) /\ (f.rule = "list" => count = 1)
  /\ read' = [read EXCEPT ![f.name] = SubSeq(wire[f.number], 1, count)]
  /\ Takes(f.number, count)
  /\ UNCHANGED <<fields, value, knows, at>>
Adds(f, count) ==
  /\ at = "reading" /\ MayBeNext(f.number) /\ f.rule \in Lists
  /\ count \in 1 .. Len(wire[f.number]) /\ (f.rule = "list" => count = 1)
  /\ read' = [read EXCEPT ![f.name] = @ \o SubSeq(wire[f.number], 1, count)]
  /\ Takes(f.number, count)
  /\ UNCHANGED <<fields, value, knows, at>>

(* A number that the class of the reader does not have is skipped. *)
SkipsField(n) ==
  /\ at = "reading" /\ MayBeNext(n) /\ n \notin {f.number : f \in knows}
  /\ Takes(n, 1)
  /\ UNCHANGED <<fields, value, knows, read, at>>

EndsReading ==
  /\ at = "reading" /\ Waiting = {}
  /\ at' = "done"
  /\ UNCHANGED <<fields, value, knows, wire, read>>

Finished == at = "done" /\ UNCHANGED vars

Init ==
  /\ fields \in Tables
  /\ value \in Samples(fields)
  /\ knows \in Readers(fields)
  /\ wire = [n \in Numbers(fields) |-> << >>]
  /\ read = << >>
  /\ at = "setting"

Next ==
  \/ serializeBinary
  \/ \E f \in knows : ReadsSingle(f) \/ \E count \in 1 .. Len(wire[f.number]) : Adds(f, count)
  \/ \E n \in Numbers(fields) : SkipsField(n)
  \/ EndsReading
  \/ Finished

Spec == Init /\ [][Next]_vars

-----------------------------------------------------------------------------
(* What is read is what was set: at the end each field that the class of   *)
(* the reader has returns the value its sender gave it, whatever else the  *)
(* message holds, in whatever order and pieces its fields come, whether or *)
(* not the reader has the others (deserializeBinaryFromReader and          *)
(* serializeBinaryToWriter of the classes in src/generated).               *)
RoundTrip == at = "done" => \A f \in knows : read[f.name] = value[f.name]
=============================================================================
