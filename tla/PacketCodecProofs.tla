------------------------- MODULE PacketCodecProofs ---------------------------
(***************************************************************************)
(* Proofs about PacketCodec, for every set of strings and every length of  *)
(* the frames nobody sent. There is no induction over the frame: what has  *)
(* been read of it is related to the fields before `pos` by an invariant.  *)
(***************************************************************************)
EXTENDS PacketCodec, SequenceTheorems, TLAPS

AnyField == [tag : Nat, value : Nat, cut : BOOLEAN]

NamesId(field) == field.tag = IdTag /\ field.value \in IDs

\* The last of the first n fields that names an id names this one, or none of
\* them does and it is the default one.
LastId(n, id) ==
    \/ id = DefaultId[Class] /\ \A i \in 1..n : ~NamesId(frame[i])
    \/ \E i \in 1..n : /\ NamesId(frame[i]) /\ frame[i].value = id
                       /\ \A j \in i+1..n : ~NamesId(frame[j])

\* What has been read so far. A class other than the first is tried only
\* when the frame is broken or names an id.
ReadInv ==
    verdict \in {"parsing", "handled"} =>
        /\ \A i \in 1..pos-1 : ~Breaks(frame[i])
        /\ LastId(pos - 1, packet.id)
        /\ packet.body # None => packet.body \in BodyValues(Class)
        /\ trying > 1 => \E i \in 1..Len(frame) : Breaks(frame[i]) \/ NamesId(frame[i])

DoneInv == verdict = "handled" => Accepted

\* A packet the peer sent is read as it was written, and its class is this one
\* or a later one.
SentInv ==
    sent # Nobody =>
        /\ sent.class \in Classes /\ frame = Encode(sent.class, sent.body)
        /\ sent.body # None => sent.body \in BodyValues(sent.class) /\ BodyTag[sent.class] # NoTag
        /\ sent.class \in {"AuthorizeTry", "AuthorizeStatus"} => sent.body # None
        /\ verdict \in {"parsing", "handled"}
        /\ \E i \in trying..3 : Order[side][i] = sent.class
        /\ pos > 1 => packet.id = DefaultId[sent.class]
        /\ Class = sent.class => packet.body = IF pos > 2 THEN sent.body ELSE None

-----------------------------------------------------------------------------
(* The classes.                                                            *)

LEMMA ClassFacts ==
    /\ \A c \in Classes : DefaultId[c] \in IDs
    /\ \A c, d \in Classes : DefaultId[c] = DefaultId[d] => c = d
    /\ \A c \in Classes : BodyTag[c] \in {StringTag, NumberTag, NoTag}
    /\ \A s \in Sides, i \in 1..3 : Order[s][i] \in Classes
    /\ \A s \in Sides : Order[s][1] = "Hello" /\ Order[s][2] # "Hello" /\ Order[s][3] # "Hello"
<1>1. /\ \A c \in Classes : DefaultId[c] \in IDs
      /\ \A c, d \in Classes : DefaultId[c] = DefaultId[d] => c = d
  BY SMT DEF Classes, DefaultId, IDs
<1>2. \A c \in Classes : BodyTag[c] \in {StringTag, NumberTag, NoTag}
  BY DEF BodyTag
<1>3. /\ Order["server"] = <<"Hello", "AuthorizeTry", "AccountRequest">>
      /\ Order["client"] = <<"Hello", "AuthorizeStatus", "AccountResponse">>
  BY DEF Order, Sides
<1>4. /\ \A s \in Sides, i \in 1..3 : Order[s][i] \in Classes
      /\ \A s \in Sides : Order[s][1] = "Hello" /\ Order[s][2] # "Hello" /\ Order[s][3] # "Hello"
  BY <1>3, SMT DEF Sides, Classes
<1> QED
  BY <1>1, <1>2, <1>4

LEMMA Values ==
    ASSUME NEW c PROVE BodyValues(c) \subseteq Nat /\ None \notin BodyValues(c)
  BY StringsAssumption, SMT DEF BodyValues, None

LEMMA TwoFields ==
    ASSUME NEW S, NEW a \in S, NEW b \in S
    PROVE  /\ <<a>> \o <<b>> \in Seq(S) /\ Len(<<a>> \o <<b>>) = 2
           /\ (<<a>> \o <<b>>)[1] = a /\ (<<a>> \o <<b>>)[2] = b
<1> DEFINE x == <<a>>
           y == <<b>>
<1>1. x \in Seq(S) /\ y \in Seq(S) /\ Len(x) = 1 /\ Len(y) = 1 /\ x[1] = a /\ y[1] = b
  BY SMT
<1> HIDE DEF x, y
<1>2. /\ x \o y \in Seq(S) /\ Len(x \o y) = Len(x) + Len(y)
      /\ \A i \in 1..Len(x) + Len(y) : (x \o y)[i] = IF i <= Len(x) THEN x[i] ELSE y[i - Len(x)]
  BY <1>1, ConcatProperties
<1>3. /\ x \o y \in Seq(S) /\ Len(x \o y) = 2 /\ (x \o y)[1] = a /\ (x \o y)[2] = b
  BY <1>1, <1>2, SMT
<1> QED
  BY <1>3 DEF x, y

LEMMA BodyShape ==
    ASSUME NEW c \in Classes, NEW body \in Nat \cup {None}
    PROVE  /\ Encode(c, body) \in Seq(AnyField)
           /\ Len(Encode(c, body)) = IF body = None THEN 1 ELSE 2
           /\ Encode(c, body)[1] = Field(IdTag, DefaultId[c])
           /\ body # None => Encode(c, body)[2] = Field(BodyTag[c], body)
<1>1. /\ DefaultId[c] \in Nat /\ BodyTag[c] \in Nat /\ IdTag \in Nat
  BY ClassFacts, SMT DEF IDs, StringTag, NumberTag, NoTag, IdTag
<1>2. Field(IdTag, DefaultId[c]) \in AnyField
  BY <1>1 DEF Field, AnyField
<1>3. CASE body = None
  <2>1. Encode(c, body) = <<Field(IdTag, DefaultId[c])>>
    BY <1>2, <1>3, SMT DEF Encode, Body
  <2> QED
    BY <1>2, <1>3, <2>1
<1>4. CASE body # None
  <2>1. Field(BodyTag[c], body) \in AnyField
    BY <1>1, <1>4 DEF Field, AnyField
  <2>2. Encode(c, body) = <<Field(IdTag, DefaultId[c])>> \o <<Field(BodyTag[c], body)>>
    BY <1>4 DEF Encode, Body
  <2> QED
    BY <1>2, <1>4, <2>1, <2>2, TwoFields
<1> QED
  BY <1>3, <1>4

LEMMA MergedFacts ==
    ASSUME NEW c \in Classes, NEW p \in [id : IDs, body : Nat \cup {None}], NEW field \in AnyField
    PROVE  LET q == Merged(c, p, field)
           IN  /\ q \in [id : IDs, body : Nat \cup {None}]
               /\ q.id = IF NamesId(field) THEN field.value ELSE p.id
               /\ q.body \in {p.body} \cup BodyValues(c)
<1>1. IdTag # BodyTag[c]
  BY ClassFacts, SMT DEF IdTag, StringTag, NumberTag, NoTag
<1> QED
  BY <1>1, Values, SMT DEF Merged, NamesId, AnyField

-----------------------------------------------------------------------------
LEMMA NothingSent ==
    Nobody \in [class : Classes \cup {"none"}, body : Nat \cup {None}]
  BY DEF Nobody

LEMMA StartInv == Init => TypeOK /\ ReadInv /\ DoneInv /\ SentInv
<1> SUFFICES ASSUME Init PROVE TypeOK /\ ReadInv /\ DoneInv /\ SentInv
  OBVIOUS
<1>1. Fresh("Hello") \in [id : IDs, body : Nat \cup {None}]
  BY ClassFacts DEF Fresh, Classes
<1>2. frame \in Seq(AnyField) /\ Len(frame) = 0
  BY SMT DEF Init
<1>3. pos \in 1..Len(frame) + 1 /\ trying \in 1..3
  BY <1>2, SMT DEF Init
<1> QED
  BY <1>1, <1>2, <1>3, NothingSent DEF Init, TypeOK, ReadInv, DoneInv, SentInv, Nobody, Sides, AnyField

LEMMA StepTypes == TypeOK /\ [Next]_vars => TypeOK'
<1> SUFFICES ASSUME TypeOK, [Next]_vars PROVE TypeOK'
  OBVIOUS
<1> USE DEF TypeOK
<1>0. \A s \in Sides, i \in 1..3 :
        Order[s][i] \in Classes /\ Fresh(Order[s][i]) \in [id : IDs, body : Nat \cup {None}]
  BY ClassFacts DEF Fresh
<1>1. ASSUME NEW s \in Sides, Arrive(s), frame' \in Seq(AnyField),
             sent' \in [class : Classes \cup {"none"}, body : Nat \cup {None}]
      PROVE  TypeOK'
  <2>1. trying' \in 1..3 /\ pos' \in 1..Len(frame') + 1
    BY <1>1, SMT DEF Arrive
  <2>2. packet' \in [id : IDs, body : Nat \cup {None}]
    BY <1>0, <1>1 DEF Arrive
  <2> QED
    BY <1>1, <2>1, <2>2 DEF Arrive, AnyField
<1>2. ASSUME NEW s \in Sides, NEW c \in Classes, NEW body, SendPacket(s, c, body) PROVE TypeOK'
  <2>1. body \in Nat \cup {None}
    BY <1>2, Values DEF SendPacket
  <2>2. frame' \in Seq(AnyField)
    BY <1>2, <2>1, BodyShape DEF SendPacket
  <2> QED
    BY <1>1, <1>2, <2>1, <2>2 DEF SendPacket
<1>3. ASSUME NEW s \in Sides, Garbage(s) PROVE TypeOK'
  <2>1. PICK n \in 0..MaxFields : frame' \in [1..n -> Fields]
    BY <1>3 DEF Garbage
  <2>2. Fields \subseteq AnyField
    BY SMT DEF Fields, AnyField, IdTag, NumberTag, StringTag, EndGroup, NoTag
  <2>3. n \in Nat
    BY <2>1, MaxFieldsAssumption
  <2>4. frame' \in Seq(AnyField)
    BY <2>1, <2>2, <2>3, SMT
  <2> QED
    BY <1>1, <1>3, <2>4, NothingSent DEF Garbage
<1>4. CASE ReadField
  <2>1. frame[pos] \in AnyField
    <3>1. frame \in Seq(AnyField) /\ pos \in 1..Len(frame)
      BY <1>4, SMT DEF ReadField, AnyField
    <3> QED
      BY <3>1, ElementOfSeq
  <2>2. packet' \in [id : IDs, body : Nat \cup {None}]
    BY <1>4, <2>1, ClassFacts, MergedFacts DEF ReadField, Class
  <2>3. pos' \in 1..Len(frame) + 1
    BY <1>4, SMT DEF ReadField
  <2> QED
    BY <1>4, <2>2, <2>3 DEF ReadField, inputVars
<1>5. CASE Handle
  BY <1>5 DEF Handle, inputVars
<1>6. CASE NextClass
  <2>1. trying' \in 1..3 /\ trying' = trying + 1 /\ pos' \in 1..Len(frame) + 1
    BY <1>6, SMT DEF NextClass
  <2> QED
    BY <1>0, <1>6, <2>1 DEF NextClass, inputVars
<1>7. CASE Drop
  BY <1>7 DEF Drop, inputVars
<1>8. CASE Return
  <2>1. frame' \in Seq(AnyField) /\ Len(frame') = 0
    BY <1>8, SMT DEF Return
  <2>2. pos' \in 1..Len(frame') + 1 /\ trying' \in 1..3
    BY <1>8, <2>1, SMT DEF Return
  <2>3. Fresh("Hello") \in [id : IDs, body : Nat \cup {None}]
    BY ClassFacts DEF Fresh, Classes
  <2> QED
    BY <1>8, <2>1, <2>2, <2>3, NothingSent DEF Return, Sides, AnyField
<1>9. CASE UNCHANGED vars
  BY <1>9 DEF vars, inputVars
<1> QED
  BY <1>2, <1>3, <1>4, <1>5, <1>6, <1>7, <1>8, <1>9 DEF Next

LEMMA StepRead == TypeOK /\ ReadInv /\ [Next]_vars => ReadInv'
<1> SUFFICES ASSUME TypeOK, ReadInv, [Next]_vars PROVE ReadInv'
  OBVIOUS
<1> USE DEF ReadInv, LastId
<1>1. ASSUME NEW s \in Sides, Arrive(s) PROVE ReadInv'
  <2>1. trying' = 1 /\ pos' = 1 /\ packet' = Fresh(Class') /\ 1..pos'-1 = {}
    BY <1>1, SMT DEF Arrive, Class
  <2>2. \A i \in 1..pos'-1 : FALSE
    BY <2>1
  <2>3. packet'.id = DefaultId[Class'] /\ packet'.body = None /\ ~(trying' > 1)
    BY <2>1, SMT DEF Fresh
  <2> QED
    BY <2>2, <2>3
<1>2. CASE ReadField
  <2> DEFINE field == frame[pos]
             n == pos - 1
  <2>1. /\ field \in AnyField /\ ~Breaks(field) /\ verdict = "parsing"
        /\ UNCHANGED <<side, frame, trying>> /\ pos' - 1 = pos
        /\ n \in Nat /\ pos = n + 1 /\ pos \in 1..Len(frame) /\ pos \in Nat
    <3>1. frame \in Seq(AnyField) /\ pos \in 1..Len(frame) + 1 /\ Len(frame) \in Nat
      BY LenProperties DEF TypeOK, AnyField
    <3>2. n \in Nat /\ pos \in Nat /\ pos = n + 1 /\ pos \in 1..Len(frame) /\ pos' - 1 = pos
      BY <1>2, <3>1, SMT DEF ReadField
    <3>3. field \in AnyField
      BY <3>1, <3>2, ElementOfSeq
    <3> QED
      BY <1>2, <3>2, <3>3 DEF ReadField, inputVars
  <2>2. Class' = Class /\ Class \in Classes
    BY <2>1, ClassFacts DEF Class, TypeOK
  <2>3. /\ packet'.id = IF NamesId(field) THEN field.value ELSE packet.id
        /\ packet'.body \in {packet.body} \cup BodyValues(Class)
    BY <1>2, <2>1, <2>2, MergedFacts DEF ReadField, TypeOK
  <2>4. \A i \in 1..pos : i \in 1..n \/ i = pos
    BY <2>1, SMT
  <2>5. \A i \in 1..pos'-1 : ~Breaks(frame'[i])
    BY <2>1, <2>4
  <2>6. LastId(pos - 1, packet.id)
    BY <2>1
  <2>7. LastId(pos - 1, packet.id)'
    <3>1. CASE NamesId(field)
      <4>1. pos+1..pos = {} /\ pos \in 1..pos
        BY <2>1, SMT
      <4> QED
        <5>1. /\ NamesId(frame'[pos]) /\ frame'[pos].value = packet'.id
              /\ \A j \in pos+1..pos : ~NamesId(frame'[j])
          BY <2>1, <2>3, <3>1, <4>1
        <5> QED
          BY <2>1, <4>1, <5>1
    <3>2. CASE ~NamesId(field)
      <4>1. \A i \in 1..n : i \in 1..pos /\ \A j \in i+1..pos : j \in i+1..n \/ j = pos
        BY <2>1, SMT
      <4> QED
        BY <2>1, <2>2, <2>3, <2>4, <2>6, <3>2, <4>1
    <3> QED
      BY <3>1, <3>2
  <2> QED
    BY <2>1, <2>2, <2>3, <2>5, <2>7
<1>3. CASE Handle
  BY <1>3 DEF Handle, inputVars, Class
<1>4. CASE NextClass
  <2>1. /\ trying \in 1..2 /\ trying' = trying + 1 /\ pos' = 1 /\ packet' = Fresh(Class')
        /\ UNCHANGED <<side, frame, verdict>> /\ verdict = "parsing"
    BY <1>4, SMT DEF NextClass, Rejected, inputVars, Class, TypeOK
  <2>2. 1..pos'-1 = {}
    BY <2>1, SMT
  <2>3. packet'.id = DefaultId[Class'] /\ packet'.body = None
    BY <2>1 DEF Fresh
  <2>4. \E i \in 1..Len(frame) : Breaks(frame[i]) \/ NamesId(frame[i])
    <3>1. CASE trying > 1
      BY <2>1, <3>1
    <3>2. CASE trying = 1
      <4>1. Class = "Hello"
        BY <3>2, ClassFacts DEF Class, TypeOK
      <4>2. CASE pos <= Len(frame)
        <5>1. pos \in 1..Len(frame) /\ Breaks(frame[pos])
          BY <1>4, <4>2, SMT DEF NextClass, Rejected, TypeOK
        <5> QED
          BY <5>1
      <4>3. CASE ~(pos <= Len(frame))
        <5>1. packet.id # DefaultId[Class]
          BY <1>4, <4>1, <4>3, SMT DEF NextClass, Rejected, Accepted, IsInitialized, TypeOK
        <5>2. PICK i \in 1..pos-1 : NamesId(frame[i])
          BY <2>1, <5>1
        <5>3. i \in 1..Len(frame)
          BY SMT DEF TypeOK
        <5> QED
          BY <5>2, <5>3
      <4> QED
        BY <4>2, <4>3
    <3> QED
      BY <2>1, <3>1, <3>2
  <2> QED
    BY <2>1, <2>2, <2>3, <2>4
<1>5. CASE Drop \/ Return
  BY <1>5 DEF Drop, Return
<1>6. CASE UNCHANGED vars
  BY <1>6 DEF vars, inputVars, Class
<1> QED
  BY <1>1, <1>2, <1>3, <1>4, <1>5, <1>6 DEF Next, SendPacket, Garbage

LEMMA StepDone == DoneInv /\ [Next]_vars => DoneInv'
<1> USE DEF DoneInv, Accepted, Class
<1> QED
  BY DEF Next, SendPacket, Garbage, Arrive, ReadField, Handle, NextClass, Drop, Return, Rejected,
         vars, inputVars

-----------------------------------------------------------------------------
(* Packets that a peer sent.                                               *)

\* Such a frame is never broken, and its two fields are read as written.
LEMMA SentFrame ==
    ASSUME TypeOK, SentInv, sent # Nobody
    PROVE  /\ Len(frame) = IF sent.body = None THEN 1 ELSE 2
           /\ frame[1] = Field(IdTag, DefaultId[sent.class])
           /\ sent.body # None => frame[2] = Field(BodyTag[sent.class], sent.body)
           /\ \A i \in 1..Len(frame) : ~Breaks(frame[i])
<1>1. sent.class \in Classes /\ sent.body \in Nat \cup {None}
  BY DEF SentInv, TypeOK
<1>2. /\ Len(frame) = IF sent.body = None THEN 1 ELSE 2
      /\ frame[1] = Field(IdTag, DefaultId[sent.class])
      /\ sent.body # None => frame[2] = Field(BodyTag[sent.class], sent.body)
  BY <1>1, BodyShape DEF SentInv
<1>3. ~Breaks(frame[1])
  BY <1>2, SMT DEF Breaks, Field, IdTag, NoTag, EndGroup
<1>4. sent.body # None => ~Breaks(frame[2])
  <2>1. sent.body # None => BodyTag[sent.class] \in {StringTag, NumberTag}
    BY <1>1, ClassFacts DEF SentInv
  <2> QED
    BY <1>2, <2>1, SMT DEF Breaks, Field, StringTag, NumberTag, NoTag, EndGroup
<1>5. \A i \in 1..Len(frame) : i = 1 \/ (i = 2 /\ sent.body # None)
  BY <1>2, SMT
<1> QED
  BY <1>2, <1>3, <1>4, <1>5

\* Only another class rejects it.
LEMMA RejectedByOther ==
    ASSUME TypeOK, SentInv, sent # Nobody, Rejected
    PROVE  Class # sent.class
<1>1. CASE pos <= Len(frame)
  <2>1. pos \in 1..Len(frame)
    BY <1>1, SMT DEF TypeOK
  <2> QED
    BY <1>1, <2>1, SentFrame DEF Rejected
<1>2. CASE ~(pos <= Len(frame))
  <2>1. pos > Len(frame) /\ pos > 1 /\ (sent.body # None => pos > 2)
        /\ (sent.body = None => ~(pos > 2))
    <3>1. pos \in 1..Len(frame) + 1
      BY DEF TypeOK
    <3> QED
      BY <1>2, <3>1, SentFrame, SMT
  <2>2. ASSUME Class = sent.class PROVE FALSE
    <3>1. packet.body = sent.body /\ packet.id = DefaultId[Class]
      BY <2>1, <2>2 DEF SentInv
    <3> QED
      BY <1>2, <2>1, <2>2, <3>1 DEF SentInv, Rejected, Accepted, IsInitialized
  <2> QED
    BY <2>2
<1> QED
  BY <1>1, <1>2

LEMMA StepSent == TypeOK /\ SentInv /\ [Next]_vars => SentInv'
<1> SUFFICES ASSUME TypeOK, SentInv, [Next]_vars PROVE SentInv'
  OBVIOUS
<1>1. ASSUME NEW s \in Sides, NEW c \in Classes, NEW body, SendPacket(s, c, body) PROVE SentInv'
  <2>1. /\ sent' = [class |-> c, body |-> body] /\ frame' = Encode(c, body)
        /\ side' = s /\ trying' = 1 /\ pos' = 1 /\ packet'.body = None /\ verdict' = "parsing"
    BY <1>1 DEF SendPacket, Arrive, Fresh
  <2>2. \E i \in trying'..3 : Order[side'][i] = c
    BY <1>1, <2>1 DEF SendPacket
  <2>3. /\ body # None => body \in BodyValues(c) /\ BodyTag[c] # NoTag
        /\ c \in {"AuthorizeTry", "AuthorizeStatus"} => body # None
    BY <1>1, Values DEF SendPacket, Classes, BodyTag, StringTag, NumberTag, NoTag
  <2>4. ~(pos' > 1) /\ ~(pos' > 2)
    BY <2>1, SMT
  <2> QED
    BY <2>1, <2>2, <2>3, <2>4 DEF SentInv
<1>2. ASSUME NEW s \in Sides, Garbage(s) PROVE SentInv'
  BY <1>2 DEF Garbage, SentInv
<1>3. CASE ReadField
  <2> SUFFICES ASSUME sent # Nobody PROVE SentInv'
    BY <1>3 DEF ReadField, inputVars, SentInv
  <2> DEFINE c == sent.class
  <2>1. /\ pos \in 1..Len(frame) /\ pos' = pos + 1 /\ verdict = "parsing"
        /\ UNCHANGED <<side, sent, frame, verdict, trying>> /\ Class' = Class
        /\ packet' = Merged(Class, packet, frame[pos])
    BY <1>3, SMT DEF ReadField, inputVars, TypeOK, Class
  <2>2. c \in Classes /\ Class \in Classes /\ DefaultId[c] \in IDs /\ DefaultId[c] \in Nat
    <3>1. c \in Classes /\ Class \in Classes
      BY ClassFacts DEF SentInv, TypeOK, Class
    <3> QED
      BY <3>1, ClassFacts, SMT DEF IDs
  <2>3. CASE pos = 1
    <3>1. frame[pos].tag = IdTag /\ frame[pos].value = DefaultId[c]
      BY <2>3, SentFrame DEF Field
    <3>2. packet' = [packet EXCEPT !.id = DefaultId[c]]
      BY <2>1, <2>2, <3>1 DEF Merged
    <3>3. packet'.id = DefaultId[c] /\ packet'.body = packet.body
      BY <3>2 DEF TypeOK
    <3>4. ~(pos' > 2) /\ ~(pos > 2)
      BY <2>1, <2>3, SMT
    <3> QED
      BY <2>1, <3>3, <3>4 DEF SentInv
  <2>4. CASE pos # 1
    <3>1. pos = 2 /\ sent.body # None /\ pos' > 2 /\ pos > 1
      BY <2>1, <2>4, SentFrame, SMT
    <3>2. frame[pos].tag = BodyTag[c] /\ frame[pos].value = sent.body
      BY <3>1, SentFrame DEF Field
    <3>3. BodyTag[c] # IdTag
      BY <2>2, ClassFacts, SMT DEF IdTag, StringTag, NumberTag, NoTag
    <3>4. /\ packet'.id = packet.id
          /\ Class = c => packet'.body = sent.body
      BY <2>1, <3>1, <3>2, <3>3 DEF Merged, SentInv, TypeOK
    <3> QED
      BY <2>1, <3>1, <3>4 DEF SentInv
  <2> QED
    BY <2>3, <2>4
<1>4. CASE Handle
  BY <1>4 DEF Handle, inputVars, Class, SentInv
<1>5. CASE NextClass
  <2> SUFFICES ASSUME sent # Nobody PROVE SentInv'
    BY <1>5 DEF NextClass, inputVars, SentInv
  <2>1. /\ trying' = trying + 1 /\ pos' = 1 /\ packet'.body = None
        /\ UNCHANGED <<side, sent, frame, verdict>>
    BY <1>5 DEF NextClass, inputVars, Fresh
  <2>2. ~(pos' > 1) /\ ~(pos' > 2)
    BY <2>1, SMT
  <2>3. PICK i \in trying..3 : Order[side][i] = sent.class
    BY DEF SentInv
  <2>4. i # trying
    BY <1>5, <2>3, RejectedByOther DEF NextClass, Class
  <2>5. i \in trying'..3
    BY <2>1, <2>3, <2>4, SMT DEF TypeOK
  <2> QED
    BY <2>1, <2>2, <2>3, <2>5 DEF SentInv
<1>6. CASE Drop
  <2> SUFFICES ASSUME sent # Nobody PROVE FALSE
    BY <1>6 DEF Drop, inputVars, SentInv
  <2>1. PICK i \in trying..3 : Order[side][i] = sent.class
    BY DEF SentInv
  <2>2. i = trying
    BY <1>6, <2>1, SMT DEF Drop
  <2> QED
    BY <1>6, <2>1, <2>2, RejectedByOther DEF Drop, Class
<1>7. CASE Return
  BY <1>7 DEF Return, SentInv
<1>8. CASE UNCHANGED vars
  BY <1>8 DEF vars, inputVars, Class, SentInv
<1> QED
  BY <1>1, <1>2, <1>3, <1>4, <1>5, <1>6, <1>7, <1>8 DEF Next

IInv == TypeOK /\ ReadInv /\ DoneInv /\ SentInv

LEMMA Invariant == Spec => []IInv
<1>1. IInv /\ [Next]_vars => IInv'
  BY StepTypes, StepRead, StepDone, StepSent DEF IInv
<1>2. Init => IInv
  BY StartInv DEF IInv
<1> QED
  BY <1>1, <1>2, PTL DEF Spec

-----------------------------------------------------------------------------
\* Type correctness.
THEOREM TypeCorrect == Spec => []TypeOK
<1>1. IInv => TypeOK
  BY DEF IInv
<1> QED
  BY Invariant, <1>1, PTL

\* Trying the classes in the order of handle_packet finds the class of every
\* packet that send_packet writes, and its handler sees what was sent.
THEOREM SentArrives == Spec => []SentIsHandled
<1>1. ASSUME IInv PROVE SentIsHandled
  <2> SUFFICES ASSUME sent # Nobody, verdict # "parsing"
               PROVE  verdict = "handled" /\ Class = sent.class /\ packet.body = sent.body
    BY DEF SentIsHandled
  <2>1. verdict = "handled" /\ Accepted
    BY <1>1 DEF IInv, SentInv, DoneInv
  <2>2. sent.class \in Classes /\ Class \in Classes
    BY <1>1, ClassFacts DEF IInv, SentInv, TypeOK, Class
  <2>3. pos > 1 /\ (sent.body # None => pos > 2) /\ (sent.body = None => ~(pos > 2))
    <3>1. pos \in 1..Len(frame) + 1 /\ pos > Len(frame)
      BY <1>1, <2>1 DEF IInv, TypeOK, Accepted
    <3> QED
      BY <1>1, <3>1, SentFrame, SMT DEF IInv
  <2>4. DefaultId[Class] = DefaultId[sent.class]
    BY <1>1, <2>1, <2>3 DEF IInv, SentInv, Accepted
  <2>5. Class = sent.class
    BY <2>2, <2>4, ClassFacts
  <2> QED
    BY <1>1, <2>1, <2>3, <2>5 DEF IInv, SentInv
<1> QED
  BY Invariant, <1>1, PTL

\* Whatever a frame holds, a handler is called only for one that is whole, has
\* what the handler reads, and, on_hello apart, names the handler's id last.
THEOREM HandlersGetValid == Spec => []HandlerGetsValid
<1>1. ASSUME IInv PROVE HandlerGetsValid
  <2> SUFFICES ASSUME verdict = "handled" PROVE HandlerGetsValid
    BY DEF HandlerGetsValid
  <2>1. /\ Accepted /\ LastId(pos - 1, packet.id) /\ \A i \in 1..pos-1 : ~Breaks(frame[i])
        /\ packet.body # None => packet.body \in BodyValues(Class)
        /\ trying > 1 => \E i \in 1..Len(frame) : Breaks(frame[i]) \/ NamesId(frame[i])
    BY <1>1 DEF IInv, ReadInv, DoneInv
  <2>2. pos - 1 = Len(frame)
    <3>1. pos \in 1..Len(frame) + 1 /\ pos > Len(frame) /\ Len(frame) \in Nat
      BY <1>1, <2>1, LenProperties DEF IInv, TypeOK, Accepted
    <3> QED
      BY <3>1, SMT
  <2>3. \A i \in 1..Len(frame) : ~Breaks(frame[i])
    BY <2>1, <2>2
  <2>4. Class \in {"AuthorizeTry", "AuthorizeStatus"} => packet.body \in BodyValues(Class)
    BY <2>1 DEF Accepted, IsInitialized
  <2>5. ASSUME Class # "Hello"
        PROVE  \E i \in 1..Len(frame) :
                  /\ frame[i].tag = IdTag /\ frame[i].value = DefaultId[Class]
                  /\ \A j \in i+1..Len(frame) : frame[j].tag = IdTag => frame[j].value \notin IDs
    <3>1. trying > 1
      <4>1. trying # 1
        BY <1>1, <2>5, ClassFacts DEF IInv, TypeOK, Class
      <4> QED
        BY <1>1, <4>1, SMT DEF IInv, TypeOK
    <3>2. \E i \in 1..Len(frame) : NamesId(frame[i])
      BY <2>1, <2>3, <3>1
    <3>3. PICK i \in 1..Len(frame) : /\ NamesId(frame[i]) /\ frame[i].value = packet.id
                                     /\ \A j \in i+1..Len(frame) : ~NamesId(frame[j])
      BY <2>1, <2>2, <3>2 DEF LastId
    <3> QED
      BY <2>1, <3>3 DEF NamesId, Accepted
  <2> QED
    BY <2>3, <2>4, <2>5 DEF HandlerGetsValid
<1> QED
  BY Invariant, <1>1, PTL
=============================================================================
