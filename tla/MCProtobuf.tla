----------------------------- MODULE MCProtobuf -----------------------------
(* The classes of packages/protobuf as instances of Protobuf.              *)
EXTENDS Protobuf

CONSTANTS a, b

Entity        == INSTANCE EntityMessages
Access        == INSTANCE AccessMessages
Execution     == INSTANCE ExecutionMessages
ExecutionData == INSTANCE ExecutionDataMessages

MCTables ==
  Entity!Messages \cup Access!Messages \cup Execution!Messages \cup ExecutionData!Messages

(* Bound: a message with no field set, one field set, or all of them, a    *)
(* list holding three elements, one of them the default of its type.       *)
Sample(f) == IF f.rule \in Lists THEN <<a, Zero, b>> ELSE a
SomeSet(table, set) ==
  [name \in Names(table) |->
     LET f == CHOOSE g \in Fields(table) : g.name = name
     IN IF name \in set THEN Sample(f) ELSE Default(f)]
MCSamples(table) ==
  {SomeSet(table, set) : set \in {{}, Names(table)} \cup {{name} : name \in Names(table)}}

(* Bound: the reader's class lacks one field at most. *)
MCReaders(table) == {Fields(table)} \cup {Fields(table) \ {f} : f \in Fields(table)}

(* Bound: every order of the fields of a class that has three or fewer. *)
MCOrdered == {table \in MCTables : Len(table) > 3}
=============================================================================
