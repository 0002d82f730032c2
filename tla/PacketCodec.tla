---------------------------- MODULE PacketCodec ------------------------------
(***************************************************************************)
(* What becomes of a frame: send_packet writes a packet as its fields, and *)
(* handle_packet of the other end tries to parse the frame as one class    *)
(* after another, in a fixed order, and calls the handler of the first one *)
(* that can be parsed and carries the id of its class. An id that is       *)
(* missing, or none the program knows, leaves the default one: the class   *)
(* of a packet is known by trying only.                                    *)
(*                                                                         *)
(* A field is its tag (number and wire type), its value and whether the    *)
(* frame ends within it; strings are named by numbers. Frames that nobody  *)
(* sent occur: a reused connection object starts with the bytes another    *)
(* connection left, and a failed allocation loses a part of the stream.    *)
(***************************************************************************)
EXTENDS Integers, Sequences

CONSTANTS
    Strings,        \* keys and accounts
    MaxFields       \* bound: fields of a frame that nobody sent

ASSUME StringsAssumption   == Strings \subseteq Nat
ASSUME MaxFieldsAssumption == MaxFields \in Nat

None == -1

Classes == {"Hello", "AuthorizeTry", "AuthorizeStatus", "AccountRequest", "AccountResponse"}
Sides   == {"server", "client"}

\* The ids that ID_IsValid knows.
IDs == 0..5

\* The default of each class's field id, by SharedCtor and Clear.
DefaultId ==
    [ c \in Classes |->
        CASE c = "Hello" -> 1 [] c = "AuthorizeTry" -> 2 [] c = "AuthorizeStatus" -> 3
          [] c = "AccountRequest" -> 4 [] c = "AccountResponse" -> 5 ]

IdTag     == 8      \* field 1, a number
NumberTag == 16     \* field 2, a number
StringTag == 18     \* field 2, a string
NoTag     == 0
EndGroup  == 12

\* The tag of the class's second field.
BodyTag ==
    [ c \in Classes |->
        CASE c \in {"AuthorizeTry", "AccountResponse"} -> StringTag
          [] c = "AuthorizeStatus" -> NumberTag
          [] OTHER -> NoTag ]

\* The values that Status_IsValid, or the type string, lets pass.
BodyValues(c) == IF c = "AuthorizeStatus" THEN {0, 1} ELSE Strings

\* The classes handle_packet tries at each end.
Order ==
    [ s \in Sides |-> IF s = "server"
                      THEN <<"Hello", "AuthorizeTry", "AccountRequest">>
                      ELSE <<"Hello", "AuthorizeStatus", "AccountResponse">> ]

\* IsInitialized. Mistaken variant: nothing is required.
IsInitializedAlways(c, p) == TRUE

IsInitialized(c, p) == c \in {"AuthorizeTry", "AuthorizeStatus"} => p.body # None

VARIABLES
    side,       \* the end the frame came to
    sent,       \* the packet the peer sent, or that nobody did
    frame,      \* the fields that are in it
    verdict,    \* what handle_packet came to
    trying,     \* the class it tries, by its place in the order
    pos,        \* the next field to be read
    packet      \* what has been read of it

inputVars == <<side, sent, frame>>
vars == <<inputVars, verdict, trying, pos, packet>>

Nobody    == [class |-> "none", body |-> None]
Fresh(c)  == [id |-> DefaultId[c], body |-> None]
Class     == Order[side][trying]

Init ==
    /\ side = "server" /\ sent = Nobody /\ frame = <<>>
    /\ verdict = "none" /\ trying = 1 /\ pos = 1
    /\ packet = Fresh("Hello")

Field(tag, value) == [tag |-> tag, value |-> value, cut |-> FALSE]

Body(c, body) == IF body = None THEN <<>> ELSE <<Field(BodyTag[c], body)>>

\* Mistaken variant: the default is left unset, and so is not written.
EncodeNoId(c, body) == Body(c, body)

\* SerializeWithCachedSizes, after set_id has made the default explicit.
Encode(c, body) == <<Field(IdTag, DefaultId[c])>> \o Body(c, body)

\* The first class is tried.
Arrive(s) ==
    /\ verdict = "none" /\ verdict' = "parsing"
    /\ side' = s /\ trying' = 1 /\ pos' = 1
    /\ packet' = Fresh(Order[s][1])

\* The handlers fill in every field but the account of a peer that has none.
SendPacket(s, c, body) ==
    /\ \E i \in 1..3 : Order[s][i] = c
    /\ body \in (IF BodyTag[c] = NoTag THEN {} ELSE BodyValues(c))
                  \cup (IF c \in {"AuthorizeTry", "AuthorizeStatus"} THEN {} ELSE {None})
    /\ Arrive(s)
    /\ sent' = [class |-> c, body |-> body]
    /\ frame' = Encode(c, body)

\* Parsing stops, and the frame is not of the class, at a field that is cut or
\* at a tag that ends a message before the frame does.
Breaks(field) == field.cut \/ field.tag \in {NoTag, EndGroup}

\* What a stream that lost its place is cut into.
Fields ==
    LET tags == {IdTag, NumberTag, StringTag, EndGroup, NoTag}
    IN {field \in [tag : tags, value : 0..6, cut : BOOLEAN] : Breaks(field) => field.value = 0}

Garbage(s) ==
    /\ Arrive(s)
    /\ sent' = Nobody
    /\ \E n \in 0..MaxFields : frame' \in [1..n -> Fields]

-----------------------------------------------------------------------------
\* Mistaken variant: an enumerator is taken as it comes.
MergedUnchecked(c, p, field) ==
    IF field.tag = IdTag THEN [p EXCEPT !.id = field.value]
    ELSE IF field.tag = BodyTag[c] THEN [p EXCEPT !.body = field.value] ELSE p

\* MergePartialFromCodedStream: a field that the class does not have, has with
\* another wire type, or cannot have that value, goes to the unknown ones.
Merged(c, p, field) ==
    IF field.tag = IdTag /\ field.value \in IDs
    THEN [p EXCEPT !.id = field.value]
    ELSE IF field.tag = BodyTag[c] /\ field.value \in BodyValues(c)
    THEN [p EXCEPT !.body = field.value]
    ELSE p

ReadField ==
    /\ verdict = "parsing" /\ pos <= Len(frame) /\ ~Breaks(frame[pos])
    /\ packet' = Merged(Class, packet, frame[pos])
    /\ pos' = pos + 1
    /\ UNCHANGED <<inputVars, verdict, trying>>

\* ParseFromArray has succeeded, and the id is the class's.
Accepted ==
    /\ pos > Len(frame)
    /\ IsInitialized(Class, packet) /\ packet.id = DefaultId[Class]

Handle ==
    /\ verdict = "parsing" /\ Accepted
    /\ verdict' = "handled"
    /\ UNCHANGED <<inputVars, trying, pos, packet>>

Rejected ==
    /\ verdict = "parsing"
    /\ IF pos <= Len(frame) THEN Breaks(frame[pos]) ELSE ~Accepted

NextClass ==
    /\ Rejected /\ trying < 3
    /\ trying' = trying + 1 /\ pos' = 1
    /\ packet' = Fresh(Order[side][trying + 1])
    /\ UNCHANGED <<inputVars, verdict>>

\* Mistaken variant: there is always another class to try.
DropNever ==
    /\ Rejected /\ trying = 3
    /\ trying' = trying + 1
    /\ UNCHANGED <<inputVars, verdict, pos, packet>>

Drop ==
    /\ Rejected /\ trying = 3
    /\ verdict' = "dropped"
    /\ UNCHANGED <<inputVars, trying, pos, packet>>

\* The packet and the frame are deleted.
Return ==
    /\ verdict \in {"handled", "dropped"} /\ verdict' = "none"
    /\ side' = "server" /\ sent' = Nobody /\ frame' = <<>>
    /\ trying' = 1 /\ pos' = 1 /\ packet' = Fresh("Hello")

Next ==
    \/ \E s \in Sides, c \in Classes, body \in Strings \cup {0, 1, None} : SendPacket(s, c, body)
    \/ \E s \in Sides : Garbage(s)
    \/ ReadField \/ Handle \/ NextClass \/ Drop \/ Return

Spec == Init /\ [][Next]_vars

-----------------------------------------------------------------------------
TypeOK ==
    /\ side \in Sides /\ sent \in [class : Classes \cup {"none"}, body : Nat \cup {None}]
    /\ frame \in Seq([tag : Nat, value : Nat, cut : BOOLEAN])
    /\ verdict \in {"none", "parsing", "handled", "dropped"}
    /\ trying \in 1..3 /\ pos \in 1..Len(frame) + 1
    /\ packet \in [id : IDs, body : Nat \cup {None}]

\* What a peer sends is never dropped, nor given to a handler of another class
\* that could be parsed from it before, and arrives with what it carried.
SentIsHandled ==
    sent # Nobody /\ verdict # "parsing" =>
        /\ verdict = "handled" /\ Class = sent.class
        /\ packet.body = sent.body

\* Whatever the frame: a handler is called only for one that can be read to
\* its end, with the required fields it reads, and, unless it is on_hello, only
\* when the last id the frame names is that handler's. The default id of a
\* class never lets a frame without an id pass for it.
HandlerGetsValid ==
    verdict = "handled" =>
        /\ \A i \in 1..Len(frame) : ~Breaks(frame[i])
        /\ Class \in {"AuthorizeTry", "AuthorizeStatus"} => packet.body \in BodyValues(Class)
        /\ Class # "Hello" =>
            \E i \in 1..Len(frame) :
                /\ frame[i].tag = IdTag /\ frame[i].value = DefaultId[Class]
                /\ \A j \in i+1..Len(frame) : frame[j].tag = IdTag => frame[j].value \notin IDs
=============================================================================
