--------------------------- MODULE ProtobufProofs ---------------------------
(***************************************************************************)
(* Every class reads what was set, whatever its fields: the proof that the *)
(* model of Protobuf keeps RoundTrip for all Tables, Samples and Readers.  *)
(***************************************************************************)
EXTENDS Protobuf, SequenceTheorems, TLAPS

(* What the reader has of a list and what it has still to read of it are   *)
(* together what was set; a field that is no list is read or still there.  *)
Half(f) ==
  IF f.rule \in Lists
  THEN /\ read[f.name] \in Seq(Items \cup {Zero})
       /\ wire[f.number] \in Seq(Items \cup {Zero})
       /\ read[f.name] \o wire[f.number] = value[f.name]
  ELSE \/ wire[f.number] = << >> /\ read[f.name] = value[f.name]
       \/ wire[f.number] = <<value[f.name]>>

TypeInv ==
  /\ fields \in Tables
  /\ Message(fields, value)
  /\ knows \subseteq Fields(fields)
  /\ at \in {"setting", "reading", "done"}

ReadInv ==
  at # "setting" =>
    /\ DOMAIN wire = Numbers(fields)
    /\ DOMAIN read = {f.name : f \in knows}
    /\ \A f \in knows : Half(f)

DoneInv == at = "done" => Waiting = {}

IInv == TypeInv /\ ReadInv /\ DoneInv

(* The fields of a class differ in their numbers as they do in their names. *)
LEMMA Apart ==
  ASSUME TypeInv, NEW f \in knows, NEW g \in knows, f.name = g.name \/ f.number = g.number
  PROVE  f = g
BY TablesAssumption DEF TypeInv

(* A field that a class has is on the wire under its number. *)
LEMMA InNumbers ==
  ASSUME TypeInv, NEW f \in knows
  PROVE  f \in Fields(fields) /\ f.number \in Numbers(fields) /\ f.name \in Names(fields)
BY DEF TypeInv, Numbers, Names

(* What is taken from the front of a list and what stays make up the list. *)
LEMMA Cut ==
  ASSUME NEW S, NEW s \in Seq(S), NEW n \in 1 .. Len(s)
  PROVE  /\ SubSeq(s, 1, n) \in Seq(S)
         /\ SubSeq(s, n + 1, Len(s)) \in Seq(S)
         /\ SubSeq(s, 1, n) \o SubSeq(s, n + 1, Len(s)) = s
<1> DEFINE front == SubSeq(s, 1, n)
           back  == SubSeq(s, n + 1, Len(s))
<1>1. n \in Int /\ 1 \in Int /\ Len(s) \in Int /\ n + 1 \in Int /\ 1 <= n /\ n <= Len(s)
  OBVIOUS
<1>2. \A i \in 1 .. Len(s) : s[i] \in S
  OBVIOUS
<1>3. front \in Seq(S) /\ Len(front) = n /\ \A i \in 1 .. n : front[i] = s[i]
  <2>1. \A i \in 1 .. n : s[i] \in S
    BY <1>1, <1>2
  <2>2. QED
    BY <2>1, <1>1, SubSeqProperties
<1>4. /\ back \in Seq(S) /\ Len(back) = Len(s) - n
      /\ \A i \in 1 .. Len(s) - n : back[i] = s[n + i]
  <2>1. \A i \in n + 1 .. Len(s) : s[i] \in S
    BY <1>1, <1>2
  <2>2. QED
    BY <2>1, <1>1, SubSeqProperties
<1> HIDE DEF front, back
<1>5. /\ front \o back \in Seq(S) /\ Len(front \o back) = Len(s)
      /\ \A i \in 1 .. Len(s) : (front \o back)[i] = s[i]
  <2>1. /\ front \o back \in Seq(S) /\ Len(front \o back) = Len(front) + Len(back)
        /\ \A i \in 1 .. Len(front) + Len(back) :
             (front \o back)[i] = IF i <= Len(front) THEN front[i] ELSE back[i - Len(front)]
    BY <1>3, <1>4, ConcatProperties
  <2>2. QED
    BY <2>1, <1>1, <1>3, <1>4
<1>6. front \o back = s
  BY <1>5, SeqEqual
<1>7. QED
  BY <1>3, <1>4, <1>6 DEF front, back

(* Before anything is read the class is one of Tables and its value fits. *)
LEMMA InitIInv == Init => IInv
BY TablesAssumption DEF Init, IInv, TypeInv, ReadInv, DoneInv

(* Serialising puts each field on the wire whole, and the reader has none. *)
LEMMA SerializeHalf ==
  ASSUME IInv, serializeBinary
  PROVE  IInv'
<1> USE DEF IInv
<1>1. TypeInv'
  BY DEF TypeInv, serializeBinary, Message
<1>2. DoneInv'
  BY DEF DoneInv, serializeBinary
<1>3. DOMAIN wire' = Numbers(fields)' /\ DOMAIN read' = {f.name : f \in knows'}
  BY DEF serializeBinary
<1>4. ASSUME NEW f \in knows PROVE Half(f)'
  <2>1. f \in Fields(fields) /\ f.number \in Numbers(fields)
    BY InNumbers
  <2>2. (CHOOSE g \in Fields(fields) : g.number = f.number) = f
    <3>1. fields \in Tables
      BY DEF TypeInv
    <3>2. QED
      BY <2>1, <3>1, TablesAssumption
  <2>3. (CHOOSE g \in knows : g.name = f.name) = f
    BY Apart
  <2>4. wire'[f.number] = Written(f, value[f.name]) /\ read'[f.name] = Default(f)
    BY <2>1, <2>2, <2>3 DEF serializeBinary
  <2>5. Fits(f, value[f.name]) /\ value' = value
    BY <2>1 DEF TypeInv, Message, serializeBinary
  <2>6. CASE f.rule \in Lists
    <3>1. value[f.name] \in Seq(Items \cup {Zero})
      BY <2>5, <2>6 DEF Fits
    <3>2. wire'[f.number] = value[f.name] /\ read'[f.name] = << >>
      BY <2>4, <2>6 DEF Written, Default
    <3>3. << >> \o value[f.name] = value[f.name]
      BY <3>1, ConcatEmptySeq
    <3>4. << >> \in Seq(Items \cup {Zero})
      OBVIOUS
    <3>5. QED
      BY <3>1, <3>2, <3>3, <3>4, <2>5, <2>6 DEF Half
  <2>7. CASE f.rule \notin Lists
    BY <2>4, <2>5, <2>7 DEF Half, Written, Default
  <2>8. QED
    BY <2>6, <2>7
<1>5. QED
  BY <1>1, <1>2, <1>3, <1>4 DEF ReadInv, serializeBinary

(* Taking from one field of the wire leaves the halves of the others. *)
LEMMA OthersKeep ==
  ASSUME IInv, at = "reading", NEW f \in knows, NEW g \in knows, g # f, NEW v, NEW count,
         fields' = fields, value' = value, knows' = knows,
         Takes(f.number, count), read' = [read EXCEPT ![f.name] = v]
  PROVE  Half(g)'
<1>1. g.name # f.name /\ g.number # f.number
  BY Apart DEF IInv
<1>2. wire'[g.number] = wire[g.number] /\ read'[g.name] = read[g.name]
  <2>1. g.number \in DOMAIN wire /\ g.name \in DOMAIN read
    BY InNumbers DEF IInv, ReadInv
  <2>2. QED
    BY <2>1, <1>1 DEF Takes
<1>3. Half(g)
  BY DEF IInv, ReadInv
<1>4. QED
  BY <1>2, <1>3 DEF Half

(* A field that is no list is read when it is taken. *)
LEMMA SingleHalf ==
  ASSUME IInv, NEW f \in knows, ReadsSingle(f)
  PROVE  IInv'
<1>1. TypeInv' /\ DoneInv'
  BY DEF IInv, TypeInv, DoneInv, ReadsSingle, Message
<1>2. DOMAIN wire' = Numbers(fields)' /\ DOMAIN read' = {g.name : g \in knows'}
  BY DEF IInv, ReadInv, ReadsSingle, Takes
<1>3. Half(f)'
  <2>1. wire[f.number] = <<value[f.name]>>
    BY DEF IInv, ReadInv, Half, ReadsSingle, MayBeNext, Waiting
  <2>2. f.number \in DOMAIN wire /\ f.name \in DOMAIN read
    BY InNumbers DEF IInv, ReadInv, ReadsSingle
  <2>3. read'[f.name] = value[f.name]
    BY <2>1, <2>2 DEF ReadsSingle
  <2>4. wire'[f.number] = << >>
    BY <2>1, <2>2 DEF ReadsSingle, Takes
  <2>5. QED
    BY <2>3, <2>4 DEF Half, ReadsSingle
<1>4. ASSUME NEW g \in knows, g # f PROVE Half(g)'
  BY <1>4, OthersKeep DEF ReadsSingle
<1>5. QED
  BY <1>1, <1>2, <1>3, <1>4 DEF IInv, ReadInv, ReadsSingle

(* The elements taken of a list go from the wire to the end of what is read. *)
LEMMA ListHalf ==
  ASSUME IInv, NEW f \in knows, NEW count, Adds(f, count)
  PROVE  IInv'
<1> DEFINE T == Items \cup {Zero}
<1>1. TypeInv' /\ DoneInv'
  BY DEF IInv, TypeInv, DoneInv, Adds, Message
<1>2. DOMAIN wire' = Numbers(fields)' /\ DOMAIN read' = {g.name : g \in knows'}
  BY DEF IInv, ReadInv, Adds, Takes
<1>3. Half(f)'
  <2>1. /\ f.rule \in Lists
        /\ read[f.name] \in Seq(T) /\ wire[f.number] \in Seq(T)
        /\ read[f.name] \o wire[f.number] = value[f.name]
    BY DEF IInv, ReadInv, Half, Adds
  <2>2. f.number \in DOMAIN wire /\ f.name \in DOMAIN read
    BY InNumbers DEF IInv, ReadInv, Adds
  <2> DEFINE front == SubSeq(wire[f.number], 1, count)
             back  == SubSeq(wire[f.number], count + 1, Len(wire[f.number]))
  <2>3. read'[f.name] = read[f.name] \o front /\ wire'[f.number] = back /\ value' = value
    BY <2>2 DEF Adds, Takes
  <2>4. front \in Seq(T) /\ back \in Seq(T) /\ front \o back = wire[f.number]
    BY <2>1, Cut DEF Adds
  <2> HIDE DEF front, back
  <2>5. read[f.name] \o front \in Seq(T)
    BY <2>1, <2>4, ConcatProperties
  <2>6. (read[f.name] \o front) \o back = read[f.name] \o (front \o back)
    <3>1. \A S : \A s, t, u \in Seq(S) : (s \o t) \o u = s \o (t \o u)
      BY ConcatAssociative
    <3>2. \A s, t, u \in Seq(T) : (s \o t) \o u = s \o (t \o u)
      BY <3>1
    <3>3. QED
      BY <2>1, <2>4, <3>2
  <2>7. QED
    BY <2>1, <2>3, <2>4, <2>5, <2>6 DEF Half
<1>4. ASSUME NEW g \in knows, g # f PROVE Half(g)'
  <2>1. /\ fields' = fields /\ value' = value /\ knows' = knows /\ at = "reading"
        /\ Takes(f.number, count)
        /\ read' = [read EXCEPT ![f.name] = @ \o SubSeq(wire[f.number], 1, count)]
    BY DEF Adds
  <2>2. read' = [read EXCEPT ![f.name] = read[f.name] \o SubSeq(wire[f.number], 1, count)]
    BY <2>1
  <2>3. QED
    BY <1>4, <2>1, <2>2, OthersKeep
<1>5. QED
  BY <1>1, <1>2, <1>3, <1>4 DEF IInv, ReadInv, Adds

(* A field that is skipped is none of those the reader has. *)
LEMMA SkipHalf ==
  ASSUME IInv, NEW n \in Numbers(fields), SkipsField(n)
  PROVE  IInv'
<1>1. TypeInv' /\ DoneInv'
  BY DEF IInv, TypeInv, DoneInv, SkipsField, Message
<1>2. DOMAIN wire' = Numbers(fields)' /\ DOMAIN read' = {g.name : g \in knows'}
  <2>1. DOMAIN wire = Numbers(fields) /\ DOMAIN read = {g.name : g \in knows}
    BY DEF IInv, ReadInv, SkipsField
  <2>2. DOMAIN wire' = DOMAIN wire
    BY DEF SkipsField, Takes
  <2>3. read' = read /\ knows' = knows /\ Numbers(fields)' = Numbers(fields)
    BY DEF SkipsField, Numbers, Fields
  <2>4. QED
    BY <2>1, <2>2, <2>3
<1>3. ASSUME NEW g \in knows PROVE Half(g)'
  <2>1. wire'[g.number] = wire[g.number]
    <3>1. g.number # n /\ g.number \in DOMAIN wire
      BY InNumbers DEF IInv, ReadInv, SkipsField
    <3>2. QED
      BY <3>1 DEF SkipsField, Takes
  <2>2. Half(g) /\ read' = read /\ value' = value
    BY DEF IInv, ReadInv, SkipsField
  <2>3. QED
    BY <2>1, <2>2 DEF Half
<1>4. QED
  BY <1>1, <1>2, <1>3 DEF IInv, ReadInv, SkipsField

(* Every step keeps the invariant. *)
LEMMA NextIInv == IInv /\ [Next]_vars => IInv'
<1> SUFFICES ASSUME IInv, [Next]_vars PROVE IInv'
  OBVIOUS
<1>1. CASE serializeBinary
  BY <1>1, SerializeHalf
<1>2. ASSUME NEW f \in knows, ReadsSingle(f) PROVE IInv'
  BY <1>2, SingleHalf
<1>3. ASSUME NEW f \in knows, NEW count, Adds(f, count) PROVE IInv'
  BY <1>3, ListHalf
<1>4. ASSUME NEW n \in Numbers(fields), SkipsField(n) PROVE IInv'
  BY <1>4, SkipHalf
<1>5. CASE EndsReading
  <2>1. TypeInv' /\ DoneInv'
    BY <1>5 DEF IInv, TypeInv, DoneInv, EndsReading, Message, Waiting
  <2>2. ReadInv'
    BY <1>5 DEF IInv, ReadInv, EndsReading, Half
  <2>3. QED
    BY <2>1, <2>2 DEF IInv
<1>6. CASE UNCHANGED vars
  BY <1>6 DEF vars, IInv, TypeInv, ReadInv, DoneInv, Message, Half, Waiting
<1>7. QED
  BY <1>1, <1>2, <1>3, <1>4, <1>5, <1>6 DEF Next, Finished

(* When the reader is done nothing of its fields is on the wire. *)
LEMMA IInvRoundTrip == IInv => RoundTrip
<1> SUFFICES ASSUME IInv, at = "done", NEW f \in knows PROVE read[f.name] = value[f.name]
  BY DEF RoundTrip
<1>1. wire[f.number] = << >>
  BY InNumbers DEF IInv, DoneInv, Waiting
<1>2. Half(f)
  BY DEF IInv, ReadInv
<1>3. CASE f.rule \in Lists
  <2>1. read[f.name] \in Seq(Items \cup {Zero}) /\ read[f.name] \o << >> = value[f.name]
    BY <1>1, <1>2, <1>3 DEF Half
  <2>2. QED
    BY <2>1, ConcatEmptySeq
<1>4. CASE f.rule \notin Lists
  BY <1>1, <1>2, <1>4 DEF Half
<1>5. QED
  BY <1>3, <1>4

(* Whatever fields a class has, in whatever order and pieces they come and *)
(* whichever of them the reader lacks, the others are read as they were    *)
(* set (deserializeBinaryFromReader, serializeBinaryToWriter).             *)
THEOREM FieldsRoundTrip == Spec => []RoundTrip
<1>1. Spec => []IInv
  BY InitIInv, NextIInv, PTL DEF Spec
<1>2. QED
  BY <1>1, IInvRoundTrip, PTL
=============================================================================
