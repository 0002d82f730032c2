--------------------------- MODULE LoginKeyProofs ----------------------------
(***************************************************************************)
(* Proofs about Login: what a machine may count on whose object held no    *)
(* bytes when its connection began. It logs in only with a key the server  *)
(* knows, and then asks no more.                                           *)
(***************************************************************************)
EXTENDS LoginProofs

-----------------------------------------------------------------------------
(* The inductive invariant, on top of IInv.                                *)

\* The machine has handled ALLOWED on this connection.
Passed(m) == logged[m] \/ Pending(m)

\* A machine asks with its own key; once it is, or is about to be, told
\* ALLOWED or BLOCKED, its key is known, and no refusal comes after ALLOWED.
OwnInv(m) ==
    /\ \A p \in Outgoing(m) : p.type = "AuthorizeTry" => p.key = KeyOf[m]
    /\ Passed(m) \/ "Allowed" \in Elems(Incoming(m)) => KeyOf[m] \in registered
    /\ timer[m] \/ "Blocked" \in Elems(Incoming(m)) => KeyOf[m] \in registered
    /\ Passed(m) => "Blocked" \notin Elems(Incoming(m)) /\ ~timer[m]
    /\ \A i, j \in DOMAIN Incoming(m) :
          i < j /\ Incoming(m)[i] = "Allowed" => Incoming(m)[j] # "Blocked"

\* An object that serves nobody has nothing on the way.
UnusedInv == \A o \in Objects \ Serving : toClient[o] = <<>>

\* A provider that is not connected yet has asked nothing, and was given nothing.
NewInv ==
    \A m \in Machines :
        link[m] \in {"connecting", "waiting"} => ~logged[m] /\ ~timer[m] /\ clean[m]

\* The machines whose object was empty when the connection began, and the object
\* they have.
CleanInv == \A m \in Machines : clean[m] /\ conn[m] # NoObject => OwnInv(m)

StepInv == \A m \in Machines : clean[m] /\ conn[m] # NoObject => ~partial[conn[m]]

KInv == UnusedInv /\ NewInv /\ CleanInv /\ StepInv /\ LoginNeedsKey /\ LoggedInIsQuiet

-----------------------------------------------------------------------------
(* Sequences.                                                              *)

LEMMA TailFacts ==
  ASSUME NEW S, NEW s \in Seq(S), s # <<>>
  PROVE  /\ Len(s) \in Nat \ {0} /\ Head(s) = s[1]
         /\ Tail(s) \in Seq(S) /\ Len(Tail(s)) = Len(s) - 1
         /\ \A i \in 1 .. Len(s) - 1 : Tail(s)[i] = s[i + 1]
  <1>1. Len(s) \in Nat \ {0}
    OBVIOUS
  <1> QED
    BY <1>1

LEMMA ConcatFacts ==
  ASSUME NEW S, NEW s \in Seq(S), NEW w \in Seq(S)
  PROVE  /\ Len(s) \in Nat /\ Len(w) \in Nat
         /\ s \o w \in Seq(S) /\ Len(s \o w) = Len(s) + Len(w)
         /\ \A i \in 1 .. Len(s) : (s \o w)[i] = s[i]
         /\ \A i \in 1 .. Len(w) : (s \o w)[i + Len(s)] = w[i]
  OBVIOUS

LEMMA EqualSeqs ==
  ASSUME NEW S, NEW s \in Seq(S), NEW w \in Seq(S), Len(s) = Len(w),
         \A i \in 1 .. Len(s) : s[i] = w[i]
  PROVE  s = w
  OBVIOUS

LEMMA Regroup ==
  ASSUME NEW S, NEW s \in Seq(S), NEW w \in Seq(S), NEW n \in 0 .. Len(w)
  PROVE  /\ s \o SubSeq(w, 1, n) \in Seq(S) /\ SubSeq(w, n + 1, Len(w)) \in Seq(S)
         /\ (s \o SubSeq(w, 1, n)) \o SubSeq(w, n + 1, Len(w)) = s \o w
  <1> DEFINE p == SubSeq(w, 1, n)
             a == s \o p
             b == SubSeq(w, n + 1, Len(w))
             new == a \o b
             old == s \o w
  <1>1. Len(s) \in Nat /\ Len(w) \in Nat /\ n \in Nat /\ n <= Len(w)
    OBVIOUS
  <1>2. p \in Seq(S) /\ Len(p) = n /\ \A i \in 1 .. n : p[i] = w[i]
    BY <1>1
  <1>3. /\ b \in Seq(S) /\ Len(b) = Len(w) - n
        /\ \A i \in 1 .. Len(w) - n : b[i] = w[i + n]
    BY <1>1
  <1>10. p \in Seq(S) /\ b \in Seq(S)
    BY <1>2, <1>3
  <1> HIDE DEF p, b
  <1>4. /\ a \in Seq(S) /\ Len(a) = Len(s) + Len(p)
        /\ \A i \in 1 .. Len(s) : a[i] = s[i]
        /\ \A i \in 1 .. Len(p) : a[i + Len(s)] = p[i]
    BY <1>10, ConcatFacts
  <1>5. /\ old \in Seq(S) /\ Len(old) = Len(s) + Len(w)
        /\ \A i \in 1 .. Len(s) : old[i] = s[i]
        /\ \A i \in 1 .. Len(w) : old[i + Len(s)] = w[i]
    BY ConcatFacts
  <1>11. a \in Seq(S)
    BY <1>4
  <1> HIDE DEF a, old
  <1>6. /\ new \in Seq(S) /\ Len(new) = Len(a) + Len(b)
        /\ \A i \in 1 .. Len(a) : new[i] = a[i]
        /\ \A i \in 1 .. Len(b) : new[i + Len(a)] = b[i]
    BY <1>10, <1>11, ConcatFacts
  <1> HIDE DEF new
  <1>7. Len(new) = Len(old)
    BY <1>1, <1>2, <1>3, <1>4, <1>5, <1>6
  <1>8. ASSUME NEW i \in 1 .. Len(new) PROVE new[i] = old[i]
    <2>1. CASE i \in 1 .. Len(s)
      <3>1. i \in 1 .. Len(a)
        BY <1>1, <1>2, <1>4, <2>1
      <3> QED
        BY <1>4, <1>5, <1>6, <2>1, <3>1
    <2>2. CASE i \notin 1 .. Len(s)
      <3> DEFINE k == i - Len(s)
      <3>1. k \in 1 .. Len(w) /\ i = k + Len(s) /\ k \in Nat
        BY <1>1, <1>5, <1>7, <2>2
      <3> HIDE DEF k
      <3>2. old[i] = w[k]
        BY <1>5, <3>1
      <3>3. CASE k \in 1 .. n
        <4>1. k + Len(s) \in 1 .. Len(a) /\ k \in 1 .. Len(p)
          BY <1>1, <1>2, <1>4, <3>3
        <4>2. new[k + Len(s)] = a[k + Len(s)] /\ a[k + Len(s)] = p[k] /\ p[k] = w[k]
          BY <1>2, <1>4, <1>6, <3>3, <4>1
        <4> QED
          BY <3>1, <3>2, <4>2
      <3>4. CASE k \notin 1 .. n
        <4> DEFINE l == k - n
        <4>1. l \in 1 .. Len(b) /\ l \in 1 .. Len(w) - n /\ k = l + n /\ i = l + Len(a)
          BY <1>1, <1>2, <1>3, <1>4, <3>1, <3>4
        <4> HIDE DEF l
        <4>2. new[l + Len(a)] = b[l] /\ b[l] = w[l + n]
          BY <1>3, <1>6, <4>1
        <4> QED
          BY <3>2, <4>1, <4>2
      <3> QED
        BY <3>3, <3>4
    <2> QED
      BY <2>1, <2>2
  <1>9. new = old
    BY <1>5, <1>6, <1>7, <1>8, EqualSeqs
  <1> QED
    BY <1>3, <1>4, <1>9 DEF p, a, b, new, old

LEMMA TailOfConcat ==
  ASSUME NEW S, NEW a \in Seq(S), NEW b \in Seq(S), a # <<>>
  PROVE  a \o b # <<>> /\ Head(a \o b) = Head(a) /\ Tail(a \o b) = Tail(a) \o b
  <1> DEFINE all == a \o b
             rest == Tail(a) \o b
  <1>1. /\ Len(a) \in Nat \ {0} /\ Head(a) = a[1]
        /\ Tail(a) \in Seq(S) /\ Len(Tail(a)) = Len(a) - 1
        /\ \A i \in 1 .. Len(a) - 1 : Tail(a)[i] = a[i + 1]
    BY TailFacts
  <1>2. /\ Len(b) \in Nat /\ all \in Seq(S) /\ Len(all) = Len(a) + Len(b)
        /\ \A i \in 1 .. Len(a) : all[i] = a[i]
        /\ \A i \in 1 .. Len(b) : all[i + Len(a)] = b[i]
    BY ConcatFacts
  <1>3. /\ rest \in Seq(S) /\ Len(rest) = Len(Tail(a)) + Len(b)
        /\ \A i \in 1 .. Len(Tail(a)) : rest[i] = Tail(a)[i]
        /\ \A i \in 1 .. Len(b) : rest[i + Len(Tail(a))] = b[i]
    BY <1>1, ConcatFacts
  <1> HIDE DEF all, rest
  <1>4. all # <<>>
    BY <1>1, <1>2
  <1>5. /\ Head(all) = all[1] /\ Tail(all) \in Seq(S) /\ Len(Tail(all)) = Len(all) - 1
        /\ \A i \in 1 .. Len(all) - 1 : Tail(all)[i] = all[i + 1]
    BY <1>2, <1>4, TailFacts
  <1>6. Len(Tail(all)) = Len(rest)
    BY <1>1, <1>2, <1>3, <1>5
  <1>7. ASSUME NEW i \in 1 .. Len(Tail(all)) PROVE Tail(all)[i] = rest[i]
    <2>1. Tail(all)[i] = all[i + 1]
      BY <1>5
    <2>2. CASE i \in 1 .. Len(a) - 1
      <3>1. i + 1 \in 1 .. Len(a) /\ i \in 1 .. Len(Tail(a))
        BY <1>1, <2>2
      <3> QED
        BY <1>1, <1>2, <1>3, <2>1, <2>2, <3>1
    <2>3. CASE i \notin 1 .. Len(a) - 1
      <3> DEFINE k == i - (Len(a) - 1)
      <3>1. k \in 1 .. Len(b) /\ i = k + (Len(a) - 1) /\ k \in Nat
        BY <1>1, <1>2, <1>5, <2>3
      <3> HIDE DEF k
      <3>2. rest[i] = b[k]
        BY <1>1, <1>3, <3>1
      <3>3. i + 1 = k + Len(a)
        BY <1>1, <3>1
      <3>4. all[i + 1] = b[k]
        BY <1>2, <3>1, <3>3
      <3> QED
        BY <2>1, <3>2, <3>4
    <2> QED
      BY <2>2, <2>3
  <1>8. Tail(all) = rest
    BY <1>3, <1>5, <1>6, <1>7, EqualSeqs
  <1>9. Head(all) = Head(a)
    BY <1>1, <1>2, <1>5
  <1> QED
    BY <1>4, <1>8, <1>9 DEF all, rest

\* A read callback moves replies from the wire to the buffer, and takes one.
LEMMA JoinSegment ==
  ASSUME NEW S, NEW s \in Seq(S), NEW w \in Seq(S), NEW n \in 0 .. Len(w),
         s \o SubSeq(w, 1, n) # <<>>
  PROVE  /\ s \o w \in Seq(S) /\ s \o w # <<>>
         /\ Head(s \o SubSeq(w, 1, n)) = Head(s \o w)
         /\ Tail(s \o SubSeq(w, 1, n)) \o SubSeq(w, n + 1, Len(w)) = Tail(s \o w)
  <1> DEFINE a == s \o SubSeq(w, 1, n)
             b == SubSeq(w, n + 1, Len(w))
             all == s \o w
  <1>1. a \in Seq(S) /\ b \in Seq(S) /\ a \o b = all
    BY Regroup
  <1>2. all \in Seq(S) /\ a # <<>>
    BY ConcatFacts
  <1> HIDE DEF a, b, all
  <1>3. a \o b # <<>> /\ Head(a \o b) = Head(a) /\ Tail(a \o b) = Tail(a) \o b
    BY <1>1, <1>2, TailOfConcat
  <1>4. all # <<>> /\ Head(a) = Head(all) /\ Tail(a) \o b = Tail(all)
    BY <1>1, <1>3, Zenon
  <1> QED
    BY <1>2, <1>4 DEF a, b, all

LEMMA HeadOrTail ==
  ASSUME NEW S, NEW s \in Seq(S), s # <<>>
  PROVE  Elems(s) \subseteq {Head(s)} \cup Elems(Tail(s))
  <1>1. /\ Len(s) \in Nat \ {0} /\ DOMAIN s = 1 .. Len(s) /\ Head(s) = s[1]
        /\ DOMAIN Tail(s) = 1 .. Len(s) - 1
        /\ \A i \in 1 .. Len(s) - 1 : Tail(s)[i] = s[i + 1]
    BY TailFacts
  <1>2. ASSUME NEW i \in DOMAIN s, i # 1 PROVE s[i] \in Elems(Tail(s))
    <2>1. i - 1 \in DOMAIN Tail(s) /\ Tail(s)[i - 1] = s[i]
      BY <1>1, <1>2
    <2> QED
      BY <2>1 DEF Elems
  <1> QED
    BY <1>1, <1>2 DEF Elems

LEMMA JoinElems ==
  ASSUME NEW S, NEW s \in Seq(S), NEW w \in Seq(S)
  PROVE  s \o w \in Seq(S) /\ Elems(s \o w) = Elems(s) \cup Elems(w)
  <1>1. /\ s \o w \in Seq(S) /\ DOMAIN s = 1 .. Len(s) /\ DOMAIN w = 1 .. Len(w)
        /\ DOMAIN (s \o w) = 1 .. Len(s) + Len(w)
        /\ Len(s) \in Nat /\ Len(w) \in Nat
        /\ \A i \in 1 .. Len(s) : (s \o w)[i] = s[i]
        /\ \A i \in Len(s) + 1 .. Len(s) + Len(w) : (s \o w)[i] = w[i - Len(s)]
        /\ \A i \in 1 .. Len(w) : (s \o w)[i + Len(s)] = w[i]
    OBVIOUS
  <1>2. ASSUME NEW e \in Elems(s \o w) PROVE e \in Elems(s) \cup Elems(w)
    <2>1. PICK i \in 1 .. Len(s) + Len(w) : (s \o w)[i] = e
      BY <1>1 DEF Elems
    <2>2. CASE i \in 1 .. Len(s)
      BY <1>1, <2>1, <2>2 DEF Elems
    <2>3. CASE i \in Len(s) + 1 .. Len(s) + Len(w)
      <3>1. i - Len(s) \in 1 .. Len(w) /\ w[i - Len(s)] = e
        BY <1>1, <2>1, <2>3
      <3> QED
        BY <1>1, <3>1 DEF Elems
    <2> QED
      BY <1>1, <2>2, <2>3
  <1>3. ASSUME NEW e \in Elems(s) PROVE e \in Elems(s \o w)
    <2>1. PICK i \in 1 .. Len(s) : s[i] = e
      BY <1>1 DEF Elems
    <2>2. i \in DOMAIN (s \o w) /\ (s \o w)[i] = e
      BY <1>1, <2>1
    <2> QED
      BY <2>2 DEF Elems
  <1>4. ASSUME NEW e \in Elems(w) PROVE e \in Elems(s \o w)
    <2>1. PICK i \in 1 .. Len(w) : w[i] = e
      BY <1>1 DEF Elems
    <2>2. i + Len(s) \in DOMAIN (s \o w) /\ (s \o w)[i + Len(s)] = e
      BY <1>1, <2>1
    <2> QED
      BY <2>2 DEF Elems
  <1> QED
    BY <1>1, <1>2, <1>3, <1>4

LEMMA JoinAppend ==
  ASSUME NEW S, NEW s \in Seq(S), NEW w \in Seq(S), NEW e \in S
  PROVE  Elems(s \o Append(w, e)) = Elems(s) \cup Elems(w) \cup {e}
  <1> DEFINE v == Append(w, e)
  <1>1. v \in Seq(S) /\ Elems(v) = Elems(w) \cup {e}
    BY AppendElems
  <1> HIDE DEF v
  <1>2. Elems(s \o v) = Elems(s) \cup Elems(v)
    BY <1>1, JoinElems
  <1> QED
    BY <1>1, <1>2 DEF v

\* A read callback loses no packet.
LEMMA SegmentSplit ==
  ASSUME NEW S, NEW s \in Seq(S), NEW w \in Seq(S), NEW n \in 0 .. Len(w)
  PROVE  Elems(s) \cup Elems(w) =
            Elems(s \o SubSeq(w, 1, n)) \cup Elems(SubSeq(w, n + 1, Len(w)))
  <1> DEFINE a == s \o SubSeq(w, 1, n)
             b == SubSeq(w, n + 1, Len(w))
  <1>1. a \in Seq(S) /\ b \in Seq(S) /\ a \o b = s \o w
    BY Regroup
  <1>2. Elems(s \o w) = Elems(s) \cup Elems(w)
    BY JoinElems
  <1> HIDE DEF a, b
  <1>3. a \in Seq(S) /\ b \in Seq(S)
    BY <1>1
  <1>4. Elems(a \o b) = Elems(a) \cup Elems(b)
    BY <1>3, JoinElems
  <1>5. Elems(s) \cup Elems(w) = Elems(a) \cup Elems(b)
    BY <1>1, <1>2, <1>4
  <1> QED
    BY <1>5 DEF a, b

-----------------------------------------------------------------------------
(* One machine.                                                            *)

\* What the type invariant says of a machine with a connection.
LEMMA OwnTypes ==
  ASSUME TypeOK, NEW m \in Machines, conn[m] # NoObject
  PROVE  /\ conn[m] \in Objects
         /\ clientBuf[m] \in Seq(Reply) /\ toClient[conn[m]] \in Seq(Reply)
         /\ toServer[conn[m]] \in Seq(Request) /\ serverBuf[conn[m]] \in Seq(Request)
         /\ Incoming(m) \in Seq(Reply)
         /\ Elems(Incoming(m)) = Elems(clientBuf[m]) \cup Elems(toClient[conn[m]])
  <1>1. /\ conn[m] \in Objects
        /\ clientBuf[m] \in Seq(Reply) /\ toClient[conn[m]] \in Seq(Reply)
        /\ toServer[conn[m]] \in Seq(Request) /\ serverBuf[conn[m]] \in Seq(Request)
    BY DEF TypeOK
  <1> QED
    BY <1>1, JoinElems DEF Incoming

\* A step that brings the machine no reply, takes none, and sends at most its
\* key keeps what is said of the machine.
LEMMA OwnFrame ==
  ASSUME NEW m \in Machines, OwnInv(m),
         Incoming(m)' = Incoming(m), logged'[m] = logged[m], timer'[m] = timer[m],
         \A p \in Outgoing(m)' : p \in Outgoing(m) \/ p = AuthorizeTry(KeyOf[m]),
         registered \subseteq registered'
  PROVE  OwnInv(m)'
  <1>1. /\ AuthorizeTry(KeyOf[m]) # AccountRequest
        /\ AuthorizeTry(KeyOf[m]).key = KeyOf[m]
    BY DEF AuthorizeTry, AccountRequest
  <1>2. Passed(m)' => Passed(m)
    BY <1>1 DEF Passed, Pending, Elems
  <1>3. \A p \in Outgoing(m)' : p.type = "AuthorizeTry" => p.key = KeyOf[m]
    BY <1>1 DEF OwnInv
  <1> QED
    BY <1>2, <1>3 DEF OwnInv, Elems

\* A step of the server that answers the machine.
LEMMA OwnAnswer ==
  ASSUME NEW m \in Machines, OwnInv(m), NEW r \in Reply,
         Incoming(m) \in Seq(Reply), Incoming(m)' = Append(Incoming(m), r),
         logged'[m] = logged[m], timer'[m] = timer[m],
         Outgoing(m)' \subseteq Outgoing(m), registered \subseteq registered',
         r = "Account" => Passed(m),
         r = "Allowed" => KeyOf[m] \in registered,
         r = "Blocked" => KeyOf[m] \notin registered /\ KeyOf[m] \in registered'
  PROVE  OwnInv(m)'
  <1> DEFINE old == Incoming(m)
             new == Incoming(m)'
  <1>1. Elems(new) = Elems(old) \cup {r}
    BY AppendElems
  <1>2. /\ DOMAIN old = 1 .. Len(old) /\ DOMAIN new = 1 .. Len(old) + 1
        /\ \A i \in 1 .. Len(old) : new[i] = old[i]
        /\ new[Len(old) + 1] = r /\ Len(old) \in Nat
    OBVIOUS
  <1>3. Elems(Incoming(m))' = Elems(new)
    BY DEF Elems
  <1> HIDE DEF old, new
  <1>4. Passed(m)' => Passed(m)
    BY <1>1, <1>3 DEF Passed, Pending, old
  <1>5. Passed(m)' \/ "Allowed" \in Elems(new) => KeyOf[m] \in registered'
    BY <1>1, <1>4 DEF OwnInv, old
  <1>6. Passed(m)' => "Blocked" \notin Elems(new) /\ ~timer'[m]
    BY <1>1, <1>4 DEF OwnInv, old
  <1>7. ASSUME NEW i \in DOMAIN new, NEW j \in DOMAIN new, i < j, new[i] = "Allowed"
        PROVE  new[j] # "Blocked"
    <2>1. i \in 1 .. Len(old) /\ old[i] = "Allowed"
      BY <1>2, <1>7
    <2>2. CASE j \in 1 .. Len(old)
      BY <1>2, <1>7, <2>1, <2>2 DEF OwnInv, old
    <2>3. CASE j = Len(old) + 1
      <3>1. "Allowed" \in Elems(old)
        BY <1>2, <2>1 DEF Elems
      <3>2. KeyOf[m] \in registered
        BY <3>1 DEF OwnInv, old
      <3> QED
        BY <1>2, <2>3, <3>2
    <2> QED
      BY <1>2, <2>2, <2>3
  <1>8. \A p \in Outgoing(m)' : p.type = "AuthorizeTry" => p.key = KeyOf[m]
    BY DEF OwnInv
  <1>9. timer'[m] \/ "Blocked" \in Elems(new) => KeyOf[m] \in registered'
    BY <1>1 DEF OwnInv, old
  <1> QED
    BY <1>3, <1>5, <1>6, <1>7, <1>8, <1>9 DEF OwnInv, new

\* A step of the machine that handles a reply.
LEMMA OwnHandle ==
  ASSUME NEW m \in Machines, OwnInv(m),
         Incoming(m) \in Seq(Reply), Incoming(m) # <<>>,
         Incoming(m)' = Tail(Incoming(m)), registered' = registered,
         NEW r, r = Head(Incoming(m)),
         \A p \in Outgoing(m)' :
            \/ p \in Outgoing(m) \/ p = AuthorizeTry(KeyOf[m])
            \/ p = AccountRequest /\ r = "Allowed",
         logged'[m] => logged[m] \/ r = "Account",
         timer'[m] => (timer[m] \/ r = "Blocked") /\ r # "Allowed"
  PROVE  OwnInv(m)' /\ (logged'[m] => KeyOf[m] \in registered' /\ ~timer'[m])
  <1> DEFINE old == Incoming(m)
             new == Incoming(m)'
  <1>1. /\ Len(old) \in Nat \ {0} /\ DOMAIN old = 1 .. Len(old)
        /\ DOMAIN new = 1 .. Len(old) - 1 /\ old[1] = r
        /\ \A i \in 1 .. Len(old) - 1 : new[i] = old[i + 1]
    BY TailFacts
  <1>2. Elems(new) \subseteq Elems(old) /\ r \in Elems(old)
    BY HeadTailElems
  <1>3. Elems(Incoming(m))' = Elems(new)
    BY DEF Elems
  <1>4. /\ AuthorizeTry(KeyOf[m]) # AccountRequest
        /\ AuthorizeTry(KeyOf[m]).key = KeyOf[m]
        /\ AccountRequest.type # "AuthorizeTry"
    BY DEF AuthorizeTry, AccountRequest
  <1> HIDE DEF old, new
  <1>5. Passed(m)' => Passed(m) \/ r = "Allowed"
    BY <1>2, <1>3, <1>4 DEF Passed, Pending, old
  <1>6. Passed(m)' \/ "Allowed" \in Elems(new) => KeyOf[m] \in registered
    BY <1>2, <1>5 DEF OwnInv, old
  <1>7. ASSUME r = "Allowed" PROVE "Blocked" \notin Elems(new)
    <2> SUFFICES ASSUME NEW i \in DOMAIN new PROVE new[i] # "Blocked"
      BY DEF Elems
    <2>1. 1 \in DOMAIN old /\ i + 1 \in DOMAIN old /\ 1 < i + 1 /\ new[i] = old[i + 1]
      BY <1>1
    <2> QED
      BY <1>1, <1>7, <2>1 DEF OwnInv, old
  <1>8. ASSUME Passed(m)' PROVE "Blocked" \notin Elems(new) /\ ~timer'[m]
    <2>1. CASE r = "Allowed"
      BY <1>7, <2>1
    <2>2. CASE r # "Allowed"
      <3>1. "Blocked" \notin Elems(old) /\ ~timer[m]
        BY <1>5, <1>8, <2>2 DEF OwnInv, old
      <3> QED
        BY <1>2, <3>1
    <2> QED
      BY <2>1, <2>2
  <1>9. ASSUME NEW i \in DOMAIN new, NEW j \in DOMAIN new, i < j, new[i] = "Allowed"
        PROVE  new[j] # "Blocked"
    <2>1. /\ i + 1 \in DOMAIN old /\ j + 1 \in DOMAIN old /\ i + 1 < j + 1
          /\ new[i] = old[i + 1] /\ new[j] = old[j + 1]
      BY <1>1, <1>9
    <2> QED
      BY <1>9, <2>1 DEF OwnInv, old
  <1>10. \A p \in Outgoing(m)' : p.type = "AuthorizeTry" => p.key = KeyOf[m]
    BY <1>4 DEF OwnInv
  <1>11. timer'[m] \/ "Blocked" \in Elems(new) => KeyOf[m] \in registered
    BY <1>2 DEF OwnInv, old
  <1>12. OwnInv(m)'
    BY <1>3, <1>6, <1>8, <1>9, <1>10, <1>11 DEF OwnInv, new
  <1>13. logged'[m] => Passed(m)'
    BY DEF Passed, Pending
  <1> QED
    BY <1>6, <1>8, <1>12, <1>13

-----------------------------------------------------------------------------
(* KInv is inductive, given IInv.                                          *)

LEMMA KeyInit == Init => KInv
  BY DEF Init, KInv, UnusedInv, NewInv, CleanInv, StepInv, LoginNeedsKey, LoggedInIsQuiet

\* A machine whose packets and state are left alone.
LEMMA OwnStays ==
  ASSUME NEW x \in Machines, OwnInv(x), conn'[x] = conn[x],
         clientBuf'[x] = clientBuf[x], toClient'[conn[x]] = toClient[conn[x]],
         toServer'[conn[x]] = toServer[conn[x]], serverBuf'[conn[x]] = serverBuf[conn[x]],
         logged'[x] = logged[x], timer'[x] = timer[x], registered \subseteq registered'
  PROVE  OwnInv(x)'
  <1>1. Incoming(x)' = Incoming(x) /\ Outgoing(x)' = Outgoing(x)
    BY DEF Incoming, Outgoing, Elems
  <1> QED
    BY <1>1, OwnFrame

\* Steps that touch no packet, no connection and no login.
LEMMA KeyStays ==
  ASSUME KInv, NewInv',
         conn' = conn, clientBuf' = clientBuf, toClient' = toClient, toServer' = toServer,
         serverBuf' = serverBuf, logged' = logged, timer' = timer, clean' = clean,
         registered' = registered, born' = born, pool' = pool, partial' = partial
  PROVE  KInv'
  <1>1. UnusedInv' /\ StepInv' /\ LoginNeedsKey' /\ LoggedInIsQuiet'
    BY DEF KInv, UnusedInv, Serving, Elems, StepInv, LoginNeedsKey, LoggedInIsQuiet
  <1>2. CleanInv'
    BY OwnStays DEF KInv, CleanInv
  <1> QED
    BY <1>1, <1>2 DEF KInv

LEMMA KeyLeave ==
  ASSUME IInv, KInv, NEW m \in Machines, LinkDrops(m) \/ Crash(m)
  PROVE  KInv'
  <1>1. /\ born' = born /\ pool' = pool /\ serverBuf' = serverBuf /\ registered' = registered
        /\ toServer' = toServer /\ toClient' = toClient /\ conn'[m] = NoObject
        /\ partial' = partial
        /\ \A x \in Machines : x # m =>
              /\ link'[x] = link[x] /\ logged'[x] = logged[x] /\ conn'[x] = conn[x]
              /\ timer'[x] = timer[x] /\ clientBuf'[x] = clientBuf[x] /\ clean'[x] = clean[x]
        /\ \/ /\ link'[m] = "down" /\ logged'[m] = logged[m] /\ timer'[m] = timer[m]
              /\ clean'[m] = clean[m]
           \/ ~logged'[m] /\ ~timer'[m] /\ clean'[m]
    BY DEF LinkDrops, Crash, objectVars, IInv, TypeOK
  <1>2. UnusedInv'
    BY <1>1 DEF KInv, UnusedInv, Serving, Elems
  <1>3. NewInv' /\ StepInv' /\ LoginNeedsKey' /\ LoggedInIsQuiet'
    BY <1>1 DEF KInv, NewInv, StepInv, LoginNeedsKey, LoggedInIsQuiet
  <1>4. CleanInv'
    BY <1>1, OwnStays DEF KInv, CleanInv
  <1> QED
    BY <1>2, <1>3, <1>4 DEF KInv

\* An object that is taken served nobody before.
LEMMA NewlyServing ==
  ASSUME TypeOK, NEW o \in Objects, TakeObject(o)
  PROVE  o \notin Serving
  <1>1. CASE pool # <<>>
    <2>1. pool \in Seq(Objects)
      BY DEF TypeOK
    <2>2. o \in Elems(pool)
      BY <1>1, <2>1, HeadTailElems DEF TakeObject
    <2> QED
      BY <2>2 DEF Serving
  <1>2. CASE pool = <<>>
    BY <1>2 DEF TakeObject, Serving
  <1> QED
    BY <1>1, <1>2

LEMMA KeyConnect ==
  ASSUME IInv, KInv, NEW m \in Machines, NEW o \in Objects, ConnectOk(m, o)
  PROVE  KInv'
  <1>1. /\ \A x \in Machines : conn[x] # o
        /\ Elems(pool') \subseteq Elems(pool) /\ born \subseteq born'
    BY TakeObjectFree DEF ConnectOk
  <1>2. /\ conn'[m] = o /\ link[m] = "connecting" /\ link'[m] = "up"
        /\ clean'[m] = (serverBuf[o] = <<>> /\ ~partial[o]) /\ partial' = partial
        /\ \A x \in Machines : x # m =>
              conn'[x] = conn[x] /\ link'[x] = link[x] /\ clean'[x] = clean[x]
        /\ toServer'[o] = <<Hello>>
        /\ \A x \in Objects : x # o => toServer'[x] = toServer[x]
        /\ logged' = logged /\ timer' = timer /\ clientBuf' = clientBuf
        /\ serverBuf' = serverBuf /\ toClient' = toClient /\ registered' = registered
    BY DEF ConnectOk, IInv, TypeOK
  <1>3. o \notin Serving
    BY NewlyServing DEF ConnectOk, IInv
  <1>4. toClient[o] = <<>> /\ clientBuf[m] = <<>> /\ ~logged[m] /\ ~timer[m]
    BY <1>2, <1>3 DEF KInv, UnusedInv, NewInv, IInv, FreshInv
  <1>5. UnusedInv'
    <2>1. Elems(pool)' = Elems(pool')
      BY DEF Elems
    <2>2. Serving \subseteq Serving'
      BY <1>1, <2>1 DEF Serving
    <2> QED
      BY <1>2, <2>2 DEF KInv, UnusedInv
  <1>6. NewInv'
    BY <1>2 DEF KInv, NewInv
  <1>7. LoginNeedsKey' /\ LoggedInIsQuiet' /\ StepInv'
    BY <1>2, <1>4 DEF KInv, LoginNeedsKey, LoggedInIsQuiet, StepInv
  <1>8. CleanInv'
    <2> SUFFICES ASSUME NEW x \in Machines, clean'[x], conn'[x] # NoObject
                 PROVE  OwnInv(x)'
      BY DEF CleanInv
    <2>1. CASE x = m
      <3>1. Incoming(m)' = <<>>
        BY <1>2, <1>4 DEF Incoming
      <3>2. Outgoing(m)' = {Hello}
        <4>1. Elems(<<Hello>>) = {Hello} /\ Elems(<<>>) = {}
          BY DEF Elems
        <4>2. Outgoing(m)' = Elems(toServer'[o]) \cup Elems(serverBuf'[o])
          BY <1>2 DEF Outgoing, Elems
        <4> QED
          BY <1>2, <2>1, <4>1, <4>2
      <3>3. Hello # AccountRequest /\ Hello.type # "AuthorizeTry"
        BY DEF Hello, AccountRequest
      <3>4. Elems(Incoming(m))' = {} /\ DOMAIN Incoming(m)' = {}
        BY <3>1 DEF Elems
      <3>5. ~Passed(m)'
        BY <1>2, <1>4, <3>2, <3>3, <3>4 DEF Passed, Pending
      <3> QED
        BY <1>2, <1>4, <2>1, <3>2, <3>3, <3>4, <3>5 DEF OwnInv
    <2>2. CASE x # m
      <3>1. conn[x] \in Objects /\ conn[x] # o
        BY <1>1, <1>2, <2>2 DEF IInv, TypeOK
      <3> QED
        BY <1>2, <2>2, <3>1, OwnStays DEF KInv, CleanInv
    <2> QED
      BY <2>1, <2>2
  <1> QED
    BY <1>5, <1>6, <1>7, <1>8 DEF KInv

LEMMA KeyEnd ==
  ASSUME IInv, KInv, NEW o \in Objects, EndOfStream(o)
  PROVE  KInv'
  <1>1. /\ \A x \in Machines : conn[x] # o
        /\ pool' = Append(pool, o) /\ toClient'[o] = <<>>
        /\ \A x \in Objects : x # o => toServer'[x] = toServer[x] /\ toClient'[x] = toClient[x]
        /\ link' = link /\ conn' = conn /\ logged' = logged /\ timer' = timer /\ clean' = clean
        /\ clientBuf' = clientBuf /\ born' = born /\ serverBuf' = serverBuf
        /\ registered' = registered
        /\ \A x \in Objects : x # o => partial'[x] = partial[x]
    BY DEF EndOfStream, machineVars, IInv, TypeOK
  <1>2. UnusedInv'
    <2>1. Elems(pool)' = Elems(pool) \cup {o}
      <3>1. Elems(Append(pool, o)) = Elems(pool) \cup {o}
        BY AppendElems DEF IInv, TypeOK
      <3> QED
        BY <1>1, <3>1 DEF Elems
    <2>2. Serving' = Serving \ {o}
      BY <1>1, <2>1 DEF Serving
    <2> QED
      BY <1>1, <2>2 DEF KInv, UnusedInv
  <1>3. NewInv' /\ LoginNeedsKey' /\ LoggedInIsQuiet'
    BY <1>1 DEF KInv, NewInv, LoginNeedsKey, LoggedInIsQuiet
  <1>5. StepInv'
    <2> SUFFICES ASSUME NEW x \in Machines, clean[x], conn[x] # NoObject
                 PROVE  ~partial'[conn[x]]
      BY <1>1 DEF StepInv
    <2>1. conn[x] \in Objects /\ conn[x] # o
      BY <1>1 DEF IInv, TypeOK
    <2> QED
      BY <1>1, <2>1 DEF KInv, StepInv
  <1>4. CleanInv'
    <2> SUFFICES ASSUME NEW x \in Machines, clean[x], conn[x] # NoObject
                 PROVE  OwnInv(x)'
      BY <1>1 DEF CleanInv
    <2>1. conn[x] \in Objects /\ conn[x] # o
      BY <1>1 DEF IInv, TypeOK
    <2> QED
      BY <1>1, <2>1, OwnStays DEF KInv, CleanInv
  <1> QED
    BY <1>2, <1>3, <1>4, <1>5 DEF KInv

LEMMA KeyTimerSend ==
  ASSUME IInv, KInv, NEW m \in Machines, TimerSend(m)
  PROVE  KInv'
  <1>0. TypeOK /\ ExclusiveObjects
    BY DEF IInv
  <1>1. /\ link' = link /\ conn' = conn /\ logged' = logged /\ timer' = timer
        /\ clean' = clean /\ registered' = registered
        /\ clientBuf' = clientBuf /\ born' = born /\ pool' = pool
        /\ serverBuf' = serverBuf /\ toClient' = toClient /\ partial' = partial
    BY DEF TimerSend
  <1>2. CASE toServer' = toServer
    BY <1>1, <1>2, KeyStays DEF KInv, NewInv
  <1>3. CASE link[m] = "up" /\ Send(m, AuthorizeTry(KeyOf[m]))
    <2>1. conn[m] \in Objects /\ AuthorizeTry(KeyOf[m]) \in Request
      <3>1. conn[m] \in Objects
        BY <1>0, <1>3 DEF TypeOK
      <3>2. KeyOf[m] \in Keys
        BY KeysAssumption DEF KeysAssumption
      <3> QED
        BY <3>1, <3>2, PacketTypes
    <2>2. /\ Elems(toServer'[conn[m]]) = Elems(toServer[conn[m]]) \cup {AuthorizeTry(KeyOf[m])}
          /\ \A x \in Objects : x # conn[m] => toServer'[x] = toServer[x]
      BY <1>0, <1>3, <2>1, SendFacts
    <2>3. UnusedInv' /\ NewInv' /\ StepInv' /\ LoginNeedsKey' /\ LoggedInIsQuiet'
      BY <1>1 DEF KInv, UnusedInv, Serving, Elems, NewInv, StepInv, LoginNeedsKey,
                  LoggedInIsQuiet
    <2>4. CleanInv'
      <3> SUFFICES ASSUME NEW x \in Machines, clean[x], conn[x] # NoObject
                   PROVE  OwnInv(x)'
        BY <1>1 DEF CleanInv
      <3>1. OwnInv(x) /\ conn[x] \in Objects
        BY <1>0 DEF KInv, CleanInv, TypeOK
      <3>2. CASE x = m
        <4>1. Incoming(m)' = Incoming(m)
          BY <1>1 DEF Incoming
        <4>2. \A p \in Outgoing(m)' : p \in Outgoing(m) \/ p = AuthorizeTry(KeyOf[m])
          <5>1. Outgoing(m)' = Elems(toServer'[conn[m]]) \cup Elems(serverBuf[conn[m]])
            BY <1>1 DEF Outgoing, Elems
          <5> QED
            BY <2>2, <5>1 DEF Outgoing
        <4> QED
          BY <1>1, <3>1, <3>2, <4>1, <4>2, OwnFrame
      <3>3. CASE x # m
        <4>1. conn[x] # conn[m]
          BY <1>0, <2>1, <3>1, <3>3 DEF ExclusiveObjects
        <4> QED
          BY <1>1, <2>2, <3>1, <4>1, OwnStays
      <3> QED
        BY <3>2, <3>3
    <2> QED
      BY <2>3, <2>4 DEF KInv
  <1> QED
    BY <1>2, <1>3 DEF TimerSend

\* Whatever a read callback of the server hands over, only the connection of its
\* object is concerned, and no key is forgotten.
LEMMA SegmentFrame ==
  ASSUME TypeOK, NEW o \in Objects, NEW n,
         ServerSegment(o, n) \/ ServerMisreads(o, n)
  PROVE  /\ \A x \in Objects : x # o =>
              /\ toServer'[x] = toServer[x] /\ serverBuf'[x] = serverBuf[x]
              /\ toClient'[x] = toClient[x]
         /\ registered \subseteq registered' /\ o \in Serving
         /\ link' = link /\ conn' = conn /\ logged' = logged /\ timer' = timer
         /\ clientBuf' = clientBuf /\ clean' = clean /\ born' = born /\ pool' = pool
         /\ partial' = partial
         /\ ServerMisreads(o, n) => partial[o]
  <1>1. ASSUME NEW p, HandleRequest(o, p)
        PROVE  /\ \A x \in Objects : x # o => toClient'[x] = toClient[x]
               /\ registered \subseteq registered'
    <2>1. \A r : Respond(o, r) => \A x \in Objects : x # o => toClient'[x] = toClient[x]
      BY DEF Respond, TypeOK
    <2> QED
      BY <1>1, <2>1 DEF HandleRequest, OnHello, OnAuth, AddUnregistered, OnAccounts
  <1>2. /\ Read(o, n)
        /\ (\E p : HandleRequest(o, p)) \/ UNCHANGED <<session, toClient, registered>>
        /\ \A x \in Objects : x # o => serverBuf'[x] = serverBuf[x]
        /\ ServerMisreads(o, n) => partial[o]
    BY DEF ServerSegment, ServerMisreads, TypeOK
  <1> QED
    BY <1>1, <1>2 DEF Read, machineVars, TypeOK

\* What the server's handler answers, and to which request.
LEMMA AnswerFacts ==
  ASSUME IInv, NEW o \in Objects, NEW n \in 0 .. Len(toServer[o]), ServerSegment(o, n),
         ~partial[o]
  PROVE  /\ Elems(toServer'[o]) \cup Elems(serverBuf'[o])
              \subseteq Elems(toServer[o]) \cup Elems(serverBuf[o])
         /\ \A x \in Objects : x # o =>
              /\ toServer'[x] = toServer[x] /\ serverBuf'[x] = serverBuf[x]
              /\ toClient'[x] = toClient[x]
         /\ registered \subseteq registered'
         /\ \E r \in Reply, p \in Elems(toServer[o]) \cup Elems(serverBuf[o]) :
              /\ Elems(toServer[o]) \cup Elems(serverBuf[o])
                    \subseteq {p} \cup Elems(toServer'[o]) \cup Elems(serverBuf'[o])
              /\ toClient'[o] = Append(toClient[o], r)
              /\ p = AccountRequest => r = "Account"
              /\ r = "Account" => p = AccountRequest
              /\ r = "Allowed" => p.type = "AuthorizeTry" /\ p.key \in registered
              /\ r = "Blocked" =>
                   p.type = "AuthorizeTry" /\ p.key \notin registered /\ p.key \in registered'
  <1> DEFINE got == serverBuf[o] \o SubSeq(toServer[o], 1, n)
             left == SubSeq(toServer[o], n + 1, Len(toServer[o]))
             p == Head(got)
  <1>0. TypeOK /\ Got(o, n) = got
    BY DEF IInv, Got
  <1>1. serverBuf[o] \in Seq(Request) /\ toServer[o] \in Seq(Request) /\ toClient[o] \in Seq(Reply)
    BY <1>0 DEF TypeOK
  <1>2. /\ got \in Seq(Request) /\ got # <<>>
        /\ Elems(got) \subseteq Elems(serverBuf[o]) \cup Elems(toServer[o])
        /\ Elems(left) \subseteq Elems(toServer[o])
    BY <1>0, <1>1, SegmentElems DEF ServerSegment
  <1>3. /\ p \in Request /\ p \in Elems(got) /\ Elems(Tail(got)) \subseteq Elems(got)
    BY <1>2, HeadTailElems
  <1>4. /\ serverBuf'[o] = Tail(got) /\ toServer'[o] = left
        /\ \A x \in Objects : x # o => serverBuf'[x] = serverBuf[x] /\ toServer'[x] = toServer[x]
    BY <1>0 DEF ServerSegment, Read, TypeOK
  <1>5. HandleRequest(o, p)
    BY <1>0 DEF ServerSegment
  <1>6. Elems(toServer'[o]) \cup Elems(serverBuf'[o])
          \subseteq Elems(toServer[o]) \cup Elems(serverBuf[o])
    BY <1>2, <1>3, <1>4
  <1>11. Elems(serverBuf[o]) \cup Elems(toServer[o]) = Elems(got) \cup Elems(left)
    BY <1>1, SegmentSplit
  <1> HIDE DEF p, got, left
  <1>10. Elems(toServer[o]) \cup Elems(serverBuf[o])
           \subseteq {p} \cup Elems(toServer'[o]) \cup Elems(serverBuf'[o])
    <2>1. Elems(got) \subseteq {p} \cup Elems(Tail(got))
      BY <1>2, HeadOrTail DEF p
    <2> QED
      BY <1>4, <1>11, <2>1
  <1>7. ASSUME NEW r \in Reply, Respond(o, r)
        PROVE  /\ toClient'[o] = Append(toClient[o], r)
               /\ \A x \in Objects : x # o => toClient'[x] = toClient[x]
    BY <1>0, <1>7 DEF Respond, TypeOK
  <1>9. p \in Elems(toServer[o]) \cup Elems(serverBuf[o])
    BY <1>2, <1>3
  <1>8. PICK r \in Reply :
          /\ Respond(o, r) /\ registered \subseteq registered'
          /\ r = "Account" => p = AccountRequest
          /\ p = AccountRequest => r = "Account"
          /\ r = "Allowed" => p.type = "AuthorizeTry" /\ p.key \in registered
          /\ r = "Blocked" =>
                   p.type = "AuthorizeTry" /\ p.key \notin registered /\ p.key \in registered'
    <2>0. /\ p = AccountRequest => p.type = "AccountRequest" /\ session[o]
          /\ OnHello(o) /\ p.type = "Hello" => p # AccountRequest
      <3>1. AccountRequest.type = "AccountRequest"
        BY DEF AccountRequest
      <3> QED
        BY <1>9, <3>1 DEF IInv, SessionInv
    <2>1. CASE p.type = "Hello" /\ OnHello(o)
      BY <2>0, <2>1 DEF OnHello, Reply
    <2>2. CASE p.type = "AuthorizeTry" /\ OnAuth(o, p.key)
      <3>1. CASE p.key \in registered
        BY <2>0, <2>2, <3>1 DEF OnAuth, KnownKey, Reply
      <3>2. CASE p.key \notin registered
        BY <2>0, <2>2, <3>2 DEF OnAuth, KnownKey, AddUnregistered, Reply
      <3> QED
        BY <3>1, <3>2
    <2>3. CASE p.type = "AccountRequest" /\ OnAccounts(o)
      <3>1. p = AccountRequest
        <4>1. \A q \in Request : q.type = "AccountRequest" => q = AccountRequest
          BY PacketTypes
        <4> QED
          BY <1>3, <2>3, <4>1
      <3>2. Respond(o, "Account") /\ registered' = registered
        BY <2>0, <2>3, <3>1 DEF OnAccounts
      <3> QED
        BY <3>1, <3>2 DEF Reply
    <2> QED
      BY <1>5, <2>1, <2>2, <2>3 DEF HandleRequest
  <1> QED
    BY <1>4, <1>6, <1>7, <1>8, <1>9, <1>10

LEMMA KeyServerSegment ==
  ASSUME IInv, KInv, NEW o \in Objects, NEW n \in 0 .. Len(toServer[o]),
         ServerSegment(o, n) \/ ServerMisreads(o, n)
  PROVE  KInv'
  <1>0. TypeOK
    BY DEF IInv
  <1>1. /\ \A x \in Objects : x # o =>
              /\ toServer'[x] = toServer[x] /\ serverBuf'[x] = serverBuf[x]
              /\ toClient'[x] = toClient[x]
        /\ registered \subseteq registered' /\ o \in Serving
        /\ link' = link /\ conn' = conn /\ logged' = logged /\ timer' = timer
        /\ clientBuf' = clientBuf /\ clean' = clean /\ born' = born /\ pool' = pool
        /\ partial' = partial
        /\ ServerMisreads(o, n) => partial[o]
    BY <1>0, SegmentFrame
  <1>4. UnusedInv' /\ NewInv' /\ StepInv' /\ LoginNeedsKey' /\ LoggedInIsQuiet'
    BY <1>1 DEF KInv, UnusedInv, Serving, Elems, NewInv, StepInv, LoginNeedsKey,
                LoggedInIsQuiet
  <1>5. CleanInv'
    <2> SUFFICES ASSUME NEW x \in Machines, clean[x], conn[x] # NoObject
                 PROVE  OwnInv(x)'
      BY <1>1 DEF CleanInv
    <2>1. OwnInv(x) /\ conn[x] \in Objects /\ ~partial[conn[x]]
      BY <1>0 DEF KInv, CleanInv, StepInv, TypeOK
    <2>2. CASE conn[x] = o
      <3>0. ServerSegment(o, n) /\ ~partial[o]
        BY <1>1, <2>1, <2>2
      <3>6. Elems(toServer'[o]) \cup Elems(serverBuf'[o])
              \subseteq Elems(toServer[o]) \cup Elems(serverBuf[o])
        BY <3>0, AnswerFacts
      <3>7. PICK r \in Reply, p \in Elems(toServer[o]) \cup Elems(serverBuf[o]) :
              /\ toClient'[o] = Append(toClient[o], r)
              /\ r = "Account" => p = AccountRequest
              /\ r = "Allowed" => p.type = "AuthorizeTry" /\ p.key \in registered
              /\ r = "Blocked" =>
                   p.type = "AuthorizeTry" /\ p.key \notin registered /\ p.key \in registered'
        BY <3>0, AnswerFacts
      <3>1. Incoming(x) \in Seq(Reply) /\ clientBuf[x] \in Seq(Reply) /\ toClient[o] \in Seq(Reply)
        <4>1. Incoming(x) \in Seq(Reply) /\ clientBuf[x] \in Seq(Reply)
                /\ toClient[conn[x]] \in Seq(Reply)
          BY <1>0, OwnTypes
        <4> QED
          BY <2>2, <4>1
      <3>2. clientBuf[x] \o Append(toClient[o], r) = Append(clientBuf[x] \o toClient[o], r)
        <4>1. \A s, w \in Seq(Reply), e \in Reply : s \o Append(w, e) = Append(s \o w, e)
          OBVIOUS
        <4> QED
          BY <3>1, <4>1, Zenon
      <3>3. Incoming(x)' = Append(Incoming(x), r)
        BY <1>1, <2>2, <3>2, <3>7 DEF Incoming
      <3>4. Outgoing(x)' = Elems(toServer'[o]) \cup Elems(serverBuf'[o])
              /\ Outgoing(x) = Elems(toServer[o]) \cup Elems(serverBuf[o])
        BY <1>1, <2>2 DEF Outgoing, Elems
      <3>5. /\ r = "Account" => Passed(x)
            /\ r = "Allowed" => KeyOf[x] \in registered
            /\ r = "Blocked" => KeyOf[x] \notin registered /\ KeyOf[x] \in registered'
        BY <2>1, <3>4, <3>7 DEF Passed, Pending, OwnInv
      <3> QED
        BY <1>1, <2>1, <3>1, <3>3, <3>4, <3>5, <3>6, OwnAnswer
    <2>3. CASE conn[x] # o
      BY <1>1, <2>1, <2>3, OwnStays
    <2> QED
      BY <2>2, <2>3
  <1> QED
    BY <1>4, <1>5 DEF KInv

\* What the provider's handler does to its machine, its requests and replies.
LEMMA HandleFacts ==
  ASSUME IInv, NEW m \in Machines, conn[m] \in Objects,
         NEW n \in 0 .. Len(toClient[conn[m]]), ClientSegment(m, n)
  PROVE  /\ link' = link /\ conn' = conn /\ link[m] = "up" /\ born' = born /\ pool' = pool
         /\ serverBuf' = serverBuf /\ clean' = clean /\ registered' = registered
         /\ partial' = partial
         /\ \A x \in Machines : x # m =>
              /\ clientBuf'[x] = clientBuf[x] /\ logged'[x] = logged[x]
              /\ timer'[x] = timer[x]
         /\ \A x \in Objects : x # conn[m] =>
              toClient'[x] = toClient[x] /\ toServer'[x] = toServer[x]
         /\ Incoming(m) \in Seq(Reply) /\ Incoming(m) # <<>>
         /\ Incoming(m)' = Tail(Incoming(m))
         /\ \E r \in Reply :
              /\ r = Head(Incoming(m))
              /\ \A p \in Outgoing(m)' :
                   \/ p \in Outgoing(m) \/ p = AuthorizeTry(KeyOf[m])
                   \/ p = AccountRequest /\ r = "Allowed"
              /\ Outgoing(m) \subseteq Outgoing(m)'
              /\ r = "Allowed" => AccountRequest \in Outgoing(m)'
              /\ logged'[m] <=> logged[m] \/ r = "Account"
              /\ timer'[m] <=> (timer[m] \/ r = "Blocked") /\ r # "Allowed"
  <1> DEFINE o == conn[m]
             got == clientBuf[m] \o SubSeq(toClient[o], 1, n)
             left == SubSeq(toClient[o], n + 1, Len(toClient[o]))
             r == Head(got)
  <1>0. TypeOK
    BY DEF IInv
  <1>1. clientBuf[m] \in Seq(Reply) /\ toClient[o] \in Seq(Reply) /\ got # <<>>
    BY <1>0 DEF TypeOK, ClientSegment
  <1>2. /\ Incoming(m) \in Seq(Reply) /\ Incoming(m) # <<>>
        /\ r = Head(Incoming(m)) /\ Tail(got) \o left = Tail(Incoming(m))
    BY <1>1, JoinSegment DEF Incoming
  <1>3. /\ clientBuf'[m] = Tail(got) /\ toClient'[o] = left
        /\ \A x \in Machines : x # m => clientBuf'[x] = clientBuf[x]
        /\ \A x \in Objects : x # o => toClient'[x] = toClient[x]
        /\ link' = link /\ conn' = conn /\ link[m] = "up" /\ born' = born /\ pool' = pool
        /\ serverBuf' = serverBuf /\ clean' = clean /\ registered' = registered
        /\ partial' = partial /\ HandleReply(m, r)
    BY <1>0 DEF ClientSegment, TypeOK
  <1>4. Incoming(m)' = Tail(Incoming(m))
    BY <1>2, <1>3 DEF Incoming
  <1>7. r \in Reply
    BY <1>2, HeadTailElems
  <1> HIDE DEF got, left, r
  <1>5. /\ \A x \in Machines : x # m => logged'[x] = logged[x] /\ timer'[x] = timer[x]
        /\ \A x \in Objects : x # o => toServer'[x] = toServer[x]
        /\ \A p \in Elems(toServer'[o]) :
              \/ p \in Elems(toServer[o]) \/ p = AuthorizeTry(KeyOf[m])
              \/ p = AccountRequest /\ r = "Allowed"
        /\ Elems(toServer[o]) \subseteq Elems(toServer'[o])
        /\ r = "Allowed" => AccountRequest \in Elems(toServer'[o])
        /\ logged'[m] <=> logged[m] \/ r = "Account"
        /\ timer'[m] <=> (timer[m] \/ r = "Blocked") /\ r # "Allowed"
    <2>1. AccountRequest \in Request /\ AuthorizeTry(KeyOf[m]) \in Request
      <3>1. KeyOf[m] \in Keys
        BY KeysAssumption DEF KeysAssumption
      <3> QED
        BY <3>1, PacketTypes
    <2>2. CASE r = "Hello" /\ OnServerHello(m)
      <3>1. Send(m, AuthorizeTry(KeyOf[m])) /\ logged' = logged /\ timer' = timer
        BY <2>2 DEF OnServerHello
      <3>2. /\ Elems(toServer'[o]) = Elems(toServer[o]) \cup {AuthorizeTry(KeyOf[m])}
            /\ \A x \in Objects : x # o => toServer'[x] = toServer[x]
        BY <1>0, <2>1, <3>1, SendFacts
      <3> QED
        BY <2>2, <3>1, <3>2
    <2>3. CASE r = "Blocked" /\ OnBlocked(m)
      BY <1>0, <2>3 DEF OnBlocked, TypeOK
    <2>4. CASE r = "Allowed" /\ OnAllowed(m)
      <3>1. /\ Send(m, AccountRequest) /\ logged' = logged /\ ~timer'[m]
            /\ \A x \in Machines : x # m => timer'[x] = timer[x]
        BY <1>0, <2>4 DEF OnAllowed, TypeOK
      <3>2. /\ Elems(toServer'[o]) = Elems(toServer[o]) \cup {AccountRequest}
            /\ \A x \in Objects : x # o => toServer'[x] = toServer[x]
        BY <1>0, <2>1, <3>1, SendFacts
      <3> QED
        BY <2>4, <3>1, <3>2
    <2>5. CASE r \in {"Account", "NoAccount"} /\ OnAccountResponse(m, r)
      BY <1>0, <2>5 DEF OnAccountResponse, TypeOK
    <2> QED
      BY <1>3, <2>2, <2>3, <2>4, <2>5 DEF HandleReply
  <1>6. /\ Outgoing(m)' = Elems(toServer'[o]) \cup Elems(serverBuf[o])
        /\ Outgoing(m) = Elems(toServer[o]) \cup Elems(serverBuf[o])
    BY <1>3 DEF Outgoing, Elems
  <1>8. /\ \A p \in Outgoing(m)' :
             \/ p \in Outgoing(m) \/ p = AuthorizeTry(KeyOf[m])
             \/ p = AccountRequest /\ r = "Allowed"
        /\ Outgoing(m) \subseteq Outgoing(m)'
        /\ r = "Allowed" => AccountRequest \in Outgoing(m)'
    BY <1>5, <1>6
  <1> QED
    BY <1>2, <1>3, <1>4, <1>5, <1>7, <1>8

LEMMA KeyClientSegment ==
  ASSUME IInv, KInv, NEW m \in Machines, conn[m] \in Objects,
         NEW n \in 0 .. Len(toClient[conn[m]]), ClientSegment(m, n)
  PROVE  KInv'
  <1>0. TypeOK /\ ExclusiveObjects /\ conn[m] # NoObject
    BY ObjectsAssumption DEF ObjectsAssumption, IInv
  <1>1. /\ link' = link /\ conn' = conn /\ link[m] = "up" /\ born' = born /\ pool' = pool
        /\ serverBuf' = serverBuf /\ clean' = clean /\ registered' = registered
        /\ partial' = partial
        /\ \A x \in Machines : x # m =>
              /\ clientBuf'[x] = clientBuf[x] /\ logged'[x] = logged[x]
              /\ timer'[x] = timer[x]
        /\ \A x \in Objects : x # conn[m] =>
              toClient'[x] = toClient[x] /\ toServer'[x] = toServer[x]
        /\ Incoming(m) \in Seq(Reply) /\ Incoming(m) # <<>>
        /\ Incoming(m)' = Tail(Incoming(m))
    BY HandleFacts
  <1>2. PICK r \in Reply :
              /\ r = Head(Incoming(m))
              /\ \A p \in Outgoing(m)' :
                   \/ p \in Outgoing(m) \/ p = AuthorizeTry(KeyOf[m])
                   \/ p = AccountRequest /\ r = "Allowed"
              /\ logged'[m] <=> logged[m] \/ r = "Account"
              /\ timer'[m] <=> (timer[m] \/ r = "Blocked") /\ r # "Allowed"
    BY HandleFacts
  <1>7. ASSUME clean[m]
        PROVE  OwnInv(m)' /\ (logged'[m] => KeyOf[m] \in registered' /\ ~timer'[m])
    <2>1. OwnInv(m)
      BY <1>0, <1>7 DEF KInv, CleanInv
    <2> QED
      BY <1>1, <1>2, <2>1, OwnHandle
  <1>8. \A x \in Machines : x # m => conn[x] # conn[m]
    BY <1>0 DEF ExclusiveObjects
  <1>9. LoginNeedsKey' /\ LoggedInIsQuiet'
    BY <1>1, <1>7 DEF KInv, LoginNeedsKey, LoggedInIsQuiet
  <1>10. NewInv' /\ StepInv'
    BY <1>1 DEF KInv, NewInv, StepInv
  <1>11. UnusedInv'
    <2>1. conn[m] \in Serving
      BY <1>0 DEF IInv, BornInv, ExclusiveObjects, Serving
    <2> QED
      BY <1>1, <2>1 DEF KInv, UnusedInv, Serving, Elems
  <1>12. CleanInv'
    <2> SUFFICES ASSUME NEW x \in Machines, clean[x], conn[x] # NoObject
                 PROVE  OwnInv(x)'
      BY <1>1 DEF CleanInv
    <2>1. CASE x = m
      BY <1>7, <2>1
    <2>2. CASE x # m
      <3>1. OwnInv(x) /\ conn[x] \in Objects /\ conn[x] # conn[m]
        BY <1>0, <1>8, <2>2 DEF KInv, CleanInv, TypeOK
      <3> QED
        BY <1>1, <2>2, <3>1, OwnStays
    <2> QED
      BY <2>1, <2>2
  <1> QED
    BY <1>9, <1>10, <1>11, <1>12 DEF KInv

LEMMA KeyStep == IInv /\ KInv /\ [Next]_vars => KInv'
  <1> SUFFICES ASSUME IInv, KInv, [Next]_vars PROVE KInv'
    OBVIOUS
  <1>1. ASSUME NEW m \in Machines, ConnectFails(m) \/ ConnectNotStarted(m) \/ Reconnect(m)
        PROVE  KInv'
    <2>1. /\ conn' = conn /\ clientBuf' = clientBuf /\ toClient' = toClient
          /\ toServer' = toServer /\ serverBuf' = serverBuf /\ logged' = logged
          /\ timer' = timer /\ clean' = clean /\ registered' = registered
          /\ born' = born /\ pool' = pool /\ partial' = partial
      BY <1>1 DEF ConnectFails, ConnectNotStarted, Reconnect, objectVars
    <2>2. /\ link[m] \in {"connecting", "waiting"}
          /\ \A x \in Machines : x # m => link'[x] = link[x]
      BY <1>1 DEF ConnectFails, ConnectNotStarted, Reconnect, IInv, TypeOK
    <2>3. NewInv'
      BY <2>1, <2>2 DEF KInv, NewInv
    <2> QED
      BY <2>1, <2>3, KeyStays
  <1>2. ASSUME NEW m \in Machines, LinkDrops(m) \/ Crash(m) PROVE KInv'
    BY <1>2, KeyLeave
  <1>3. ASSUME NEW m \in Machines, NEW o \in Objects, ConnectOk(m, o) PROVE KInv'
    BY <1>3, KeyConnect
  <1>4. ASSUME NEW m \in Machines, conn[m] \in Objects,
               NEW n \in 0 .. Len(toClient[conn[m]]), ClientSegment(m, n)
        PROVE  KInv'
    BY <1>4, KeyClientSegment
  <1>5. ASSUME NEW m \in Machines, TimerTick(m) PROVE KInv'
    <2>1. NewInv'
      BY <1>5 DEF TimerTick, KInv, NewInv
    <2> QED
      BY <1>5, <2>1, KeyStays DEF TimerTick, objectVars
  <1>6. ASSUME NEW m \in Machines, TimerSend(m) PROVE KInv'
    BY <1>6, KeyTimerSend
  <1>7. ASSUME NEW o \in Objects, EndOfStream(o) PROVE KInv'
    BY <1>7, KeyEnd
  <1>8. ASSUME NEW o \in Objects, NEW n \in 0 .. Len(toServer[o]),
               ServerSegment(o, n) \/ ServerMisreads(o, n)
        PROVE  KInv'
    BY <1>8, KeyServerSegment
  <1>9. CASE UNCHANGED vars
    <2>1. NewInv'
      BY <1>9 DEF vars, machineVars, KInv, NewInv
    <2> QED
      BY <1>9, <2>1, KeyStays DEF vars, machineVars, objectVars
  <1> QED
    BY <1>1, <1>2, <1>3, <1>4, <1>5, <1>6, <1>7, <1>8, <1>9 DEF Next, Machine, Server

LEMMA KeyInvariant == Spec => []KInv
  BY Invariant, KeyInit, KeyStep, PTL DEF Spec

-----------------------------------------------------------------------------
(* The theorems.                                                           *)

\* Nobody whose connection began on an object that held no bytes is logged in before the
\* server knows the key it asks with.
THEOREM NeedsKey == Spec => []LoginNeedsKey
  <1>1. KInv => LoginNeedsKey
    BY DEF KInv
  <1> QED
    BY <1>1, KeyInvariant, PTL

\* Such a machine does not ask again once it is logged in, whenever the tick
\* of its timer fell.
THEOREM QuietAfterLogin == Spec => []LoggedInIsQuiet
  <1>1. KInv => LoggedInIsQuiet
    BY DEF KInv
  <1> QED
    BY <1>1, KeyInvariant, PTL

-----------------------------------------------------------------------------
(* Login implements Conversation, for every machine.                       *)

\* What a step does to the conversation of one machine.
LEMMA TalkStep ==
  ASSUME NEW x \in Machines, clean[x] \in BOOLEAN, clean'[x] \in BOOLEAN,
         registered \subseteq registered',
         \/ Phase(x)' = Phase(x) /\ clean'[x] = clean[x]
         \/ /\ KeyOf[x] \in registered /\ clean'[x] = clean[x]
            /\ \/ Phase(x) = "asking" /\ Phase(x)' = "refused"
               \/ Phase(x) \in {"asking", "refused"} /\ Phase(x)' = "allowed"
         \/ Phase(x) = "allowed" /\ Phase(x)' = "in" /\ clean'[x] = clean[x]
              /\ registered' = registered
         \/ Phase(x) # "in" /\ Phase(x)' = "cut" /\ clean'[x] = clean[x]
              /\ registered' = registered
         \/ Phase(x) = "asking" /\ ~clean'[x] /\ registered' = registered
         \/ ~clean[x] /\ ~clean'[x]
  PROVE  [Talk(x)!Next]_(Talk(x)!vars)
  <1> DEFINE k == KeyOf[x] \in registered
             k1 == KeyOf[x] \in registered'
  <1>1. k => k1
    OBVIOUS
  <1>2. k \in BOOLEAN /\ k1 \in BOOLEAN
    OBVIOUS
  <1>3. CASE Phase(x)' = Phase(x) /\ clean'[x] = clean[x]
    <2>1. CASE k1
      BY <1>3, <2>1 DEF Talk!Next, Talk!Register
    <2>2. CASE ~k1
      <3>1. k1 = k
        BY <1>1, <2>2
      <3> QED
        BY <1>3, <3>1 DEF Talk!vars
    <2> QED
      BY <2>1, <2>2
  <1>4. CASE /\ k /\ clean'[x] = clean[x]
             /\ \/ Phase(x) = "asking" /\ Phase(x)' = "refused"
                \/ Phase(x) \in {"asking", "refused"} /\ Phase(x)' = "allowed"
    <2>1. k1 = k
      BY <1>1, <1>4
    <2> QED
      BY <1>4, <2>1 DEF Talk!Next, Talk!Refuse, Talk!Allow
  <1>5. CASE Phase(x) = "allowed" /\ Phase(x)' = "in" /\ clean'[x] = clean[x]
               /\ registered' = registered
    BY <1>5 DEF Talk!Next, Talk!Enter
  <1>6. CASE Phase(x) # "in" /\ Phase(x)' = "cut" /\ clean'[x] = clean[x]
               /\ registered' = registered
    BY <1>6 DEF Talk!Next, Talk!Cut
  <1>8. CASE Phase(x) = "asking" /\ ~clean'[x] /\ registered' = registered
    BY <1>8 DEF Talk!Next, Talk!Distrust
  <1>9. CASE ~clean[x] /\ ~clean'[x]
    BY <1>1, <1>9 DEF Talk!Next, Talk!Stray
  <1> QED
    BY <1>3, <1>4, <1>5, <1>6, <1>8, <1>9

\* A machine that neither learns nor loses anything.
LEMMA SamePhase ==
  ASSUME NEW x \in Machines,
         logged'[x] <=> logged[x], timer'[x] <=> timer[x],
         link'[x] = "down" <=> link[x] = "down", link'[x] = "up" <=> link[x] = "up",
         link[x] = "up" => (Pending(x)' <=> Pending(x))
  PROVE  Phase(x)' = Phase(x)
  BY DEF Phase

\* A machine whose packets and state are left alone.
LEMMA TalkStays ==
  ASSUME TypeOK, TypeOK', NEW x \in Machines,
         conn'[x] = conn[x], link'[x] = link[x], clean'[x] = clean[x],
         logged'[x] = logged[x], timer'[x] = timer[x], registered \subseteq registered',
         conn[x] # NoObject =>
            /\ clientBuf'[x] = clientBuf[x] /\ toClient'[conn[x]] = toClient[conn[x]]
            /\ toServer'[conn[x]] = toServer[conn[x]]
            /\ serverBuf'[conn[x]] = serverBuf[conn[x]]
  PROVE  [Talk(x)!Next]_(Talk(x)!vars)
  <1>1. link[x] = "up" => (Pending(x)' <=> Pending(x))
    <2> SUFFICES ASSUME link[x] = "up" PROVE Pending(x)' <=> Pending(x)
      OBVIOUS
    <2>1. conn[x] # NoObject
      BY DEF TypeOK
    <2>2. Incoming(x)' = Incoming(x) /\ Outgoing(x)' = Outgoing(x)
      BY <2>1 DEF Incoming, Outgoing, Elems
    <2> QED
      BY <2>2 DEF Pending, Elems
  <1>2. Phase(x)' = Phase(x)
    BY <1>1, SamePhase
  <1>3. clean[x] \in BOOLEAN /\ clean'[x] \in BOOLEAN
    BY DEF TypeOK
  <1> QED
    BY <1>2, <1>3, TalkStep

\* The machine m takes the step; the others are left alone.
Talks == \A x \in Machines : [Talk(x)!Next]_(Talk(x)!vars) \/ (Crash(x) /\ Talk(x)!Restart)

LEMMA TalkLeave ==
  ASSUME TypeOK, TypeOK', NEW m \in Machines, LinkDrops(m) \/ Crash(m)
  PROVE  Talks
  <1>1. /\ serverBuf' = serverBuf /\ registered' = registered
        /\ toServer' = toServer /\ toClient' = toClient
        /\ \A x \in Machines : x # m =>
              /\ link'[x] = link[x] /\ logged'[x] = logged[x] /\ conn'[x] = conn[x]
              /\ timer'[x] = timer[x] /\ clientBuf'[x] = clientBuf[x] /\ clean'[x] = clean[x]
        /\ \/ /\ link'[m] = "down" /\ logged'[m] = logged[m] /\ clean'[m] = clean[m]
           \/ Crash(m) /\ link'[m] = "connecting" /\ ~logged'[m] /\ ~timer'[m] /\ clean'[m]
    BY DEF LinkDrops, Crash, objectVars, TypeOK
  <1>2. clean[m] \in BOOLEAN /\ clean'[m] \in BOOLEAN
    BY DEF TypeOK
  <1> SUFFICES ASSUME NEW x \in Machines
               PROVE  [Talk(x)!Next]_(Talk(x)!vars) \/ (Crash(x) /\ Talk(x)!Restart)
    BY DEF Talks
  <1>3. CASE x # m
    BY <1>1, <1>3, TalkStays
  <1>4. CASE x = m /\ link'[m] = "down" /\ logged'[m] = logged[m] /\ clean'[m] = clean[m]
    <2>1. CASE logged[m]
      <3>1. Phase(m) = "in" /\ Phase(m)' = "in"
        BY <1>4, <2>1 DEF Phase
      <3> QED
        BY <1>1, <1>2, <1>4, <3>1, TalkStep
    <2>2. CASE ~logged[m]
      <3>1. Phase(m) # "in" /\ Phase(m)' = "cut"
        BY <1>4, <2>2 DEF Phase
      <3> QED
        BY <1>1, <1>2, <1>4, <3>1, TalkStep
    <2> QED
      BY <2>1, <2>2
  <1>5. CASE x = m /\ Crash(m) /\ link'[m] = "connecting" /\ ~logged'[m] /\ ~timer'[m]
               /\ clean'[m]
    <2>1. Phase(m)' = "asking"
      BY <1>5 DEF Phase
    <2>2. Talk(m)!Restart
      BY <1>1, <1>5, <2>1 DEF Talk!Restart
    <2> QED
      BY <1>5, <2>2
  <1> QED
    BY <1>1, <1>3, <1>4, <1>5

LEMMA TalkConnect ==
  ASSUME IInv, TypeOK', KInv, NEW m \in Machines, NEW o \in Objects, ConnectOk(m, o)
  PROVE  Talks
  <1>0. TypeOK
    BY DEF IInv
  <1>1. \A x \in Machines : conn[x] # o
    BY TakeObjectFree DEF ConnectOk
  <1>2. /\ conn'[m] = o /\ link[m] = "connecting" /\ link'[m] = "up"
        /\ clean'[m] = (serverBuf[o] = <<>> /\ ~partial[o])
        /\ \A x \in Machines : x # m =>
              conn'[x] = conn[x] /\ link'[x] = link[x] /\ clean'[x] = clean[x]
        /\ toServer'[o] = <<Hello>>
        /\ \A x \in Objects : x # o => toServer'[x] = toServer[x]
        /\ logged' = logged /\ timer' = timer /\ clientBuf' = clientBuf
        /\ serverBuf' = serverBuf /\ toClient' = toClient /\ registered' = registered
    BY <1>0 DEF ConnectOk, TypeOK
  <1>3. /\ ~logged[m] /\ ~timer[m] /\ clean[m] /\ clientBuf[m] = <<>>
        /\ Phase(m) = "asking"
    BY <1>2 DEF KInv, NewInv, IInv, FreshInv, Phase
  <1>4. clean[m] \in BOOLEAN /\ clean'[m] \in BOOLEAN
    BY <1>0 DEF TypeOK
  <1> SUFFICES ASSUME NEW x \in Machines PROVE [Talk(x)!Next]_(Talk(x)!vars)
    BY DEF Talks
  <1>5. CASE x # m
    <2>1. conn[x] # NoObject => conn[x] \in Objects /\ conn[x] # o
      BY <1>0, <1>1 DEF TypeOK
    <2> QED
      BY <1>0, <1>2, <1>5, <2>1, TalkStays
  <1>6. CASE x = m /\ ~clean'[m]
    BY <1>2, <1>3, <1>4, <1>6, TalkStep
  <1>7. CASE x = m /\ clean'[m]
    <2>1. toClient[o] = <<>> /\ serverBuf[o] = <<>>
      <3>1. o \notin Serving
        BY <1>0, NewlyServing DEF ConnectOk
      <3> QED
        BY <1>2, <1>7, <3>1 DEF KInv, UnusedInv
    <2>2. Outgoing(m)' = {Hello} /\ Elems(Incoming(m))' = {}
      <3>1. Elems(<<Hello>>) = {Hello} /\ Elems(<<>>) = {}
        BY DEF Elems
      <3>2. Outgoing(m)' = Elems(toServer'[o]) \cup Elems(serverBuf'[o])
        BY <1>2 DEF Outgoing, Elems
      <3>3. Incoming(m)' = <<>>
        BY <1>2, <1>3, <2>1 DEF Incoming
      <3> QED
        BY <1>2, <2>1, <3>1, <3>2, <3>3 DEF Elems
    <2>3. ~Pending(m)'
      BY <2>2, PacketTypes DEF Pending
    <2>4. Phase(m)' = "asking"
      BY <1>2, <1>3, <2>3 DEF Phase
    <2> QED
      BY <1>2, <1>3, <1>4, <1>7, <2>4, TalkStep
  <1> QED
    BY <1>4, <1>5, <1>6, <1>7

LEMMA TalkTimerSend ==
  ASSUME IInv, TypeOK', NEW m \in Machines, TimerSend(m)
  PROVE  Talks
  <1>0. TypeOK /\ ExclusiveObjects
    BY DEF IInv
  <1>1. /\ link' = link /\ conn' = conn /\ logged' = logged /\ timer' = timer
        /\ clean' = clean /\ registered' = registered
        /\ clientBuf' = clientBuf /\ serverBuf' = serverBuf /\ toClient' = toClient
    BY DEF TimerSend
  <1> SUFFICES ASSUME NEW x \in Machines PROVE [Talk(x)!Next]_(Talk(x)!vars)
    BY DEF Talks
  <1>2. CASE toServer' = toServer
    BY <1>0, <1>1, <1>2, TalkStays
  <1>3. CASE link[m] = "up" /\ Send(m, AuthorizeTry(KeyOf[m]))
    <2>1. conn[m] \in Objects /\ KeyOf[m] \in Keys
      BY <1>0, <1>3, KeysAssumption DEF TypeOK, KeysAssumption
    <2>2. AuthorizeTry(KeyOf[m]) \in Request /\ AuthorizeTry(KeyOf[m]) # AccountRequest
      BY <2>1, PacketTypes
    <2>3. /\ Elems(toServer'[conn[m]]) = Elems(toServer[conn[m]]) \cup {AuthorizeTry(KeyOf[m])}
          /\ \A y \in Objects : y # conn[m] => toServer'[y] = toServer[y]
      BY <1>0, <1>3, <2>1, <2>2, SendFacts
    <2>4. CASE x = m
      <3>1. Incoming(m)' = Incoming(m) /\ Elems(Incoming(m))' = Elems(Incoming(m))
        BY <1>1 DEF Incoming, Elems
      <3>2. Outgoing(m)' = Outgoing(m) \cup {AuthorizeTry(KeyOf[m])}
        <4>1. Outgoing(m)' = Elems(toServer'[conn[m]]) \cup Elems(serverBuf[conn[m]])
          BY <1>1 DEF Outgoing, Elems
        <4> QED
          BY <2>3, <4>1 DEF Outgoing
      <3>3. Pending(m)' <=> Pending(m)
        BY <2>2, <3>1, <3>2 DEF Pending
      <3>4. Phase(m)' = Phase(m)
        BY <1>1, <3>3, SamePhase
      <3>5. clean[m] \in BOOLEAN
        BY <1>0 DEF TypeOK
      <3> QED
        BY <1>1, <2>4, <3>4, <3>5, TalkStep
    <2>5. CASE x # m
      <3>1. conn[x] # NoObject => conn[x] \in Objects /\ conn[x] # conn[m]
        BY <1>0, <2>5 DEF ExclusiveObjects, TypeOK
      <3> QED
        BY <1>0, <1>1, <2>3, <3>1, TalkStays
    <2> QED
      BY <2>4, <2>5
  <1> QED
    BY <1>2, <1>3 DEF TimerSend

\* The server takes a request for the account, and answers it with the account.
LEMMA TalkServerSegment ==
  ASSUME IInv, TypeOK', NEW o \in Objects, NEW n \in 0 .. Len(toServer[o]),
         ServerSegment(o, n), ~partial[o]
  PROVE  Talks
  <1>0. TypeOK
    BY DEF IInv
  <1>1. /\ Elems(toServer'[o]) \cup Elems(serverBuf'[o])
              \subseteq Elems(toServer[o]) \cup Elems(serverBuf[o])
        /\ \A x \in Objects : x # o =>
              /\ toServer'[x] = toServer[x] /\ serverBuf'[x] = serverBuf[x]
              /\ toClient'[x] = toClient[x]
        /\ registered \subseteq registered'
    BY AnswerFacts
  <1>2. PICK r \in Reply, p \in Elems(toServer[o]) \cup Elems(serverBuf[o]) :
              /\ Elems(toServer[o]) \cup Elems(serverBuf[o])
                    \subseteq {p} \cup Elems(toServer'[o]) \cup Elems(serverBuf'[o])
              /\ toClient'[o] = Append(toClient[o], r)
              /\ p = AccountRequest => r = "Account"
              /\ r = "Account" => p = AccountRequest
    BY AnswerFacts
  <1>3. /\ link' = link /\ conn' = conn /\ logged' = logged /\ timer' = timer
        /\ clientBuf' = clientBuf /\ clean' = clean
    BY DEF ServerSegment, Read, machineVars
  <1> SUFFICES ASSUME NEW x \in Machines PROVE [Talk(x)!Next]_(Talk(x)!vars)
    BY DEF Talks
  <1>4. CASE conn[x] # o
    <2>1. conn[x] # NoObject => conn[x] \in Objects
      BY <1>0 DEF TypeOK
    <2> QED
      BY <1>0, <1>1, <1>3, <1>4, <2>1, TalkStays
  <1>5. CASE conn[x] = o
    <2>1. conn[x] # NoObject
      BY <1>5, ObjectsAssumption DEF ObjectsAssumption
    <2>0. toClient[o] \in Seq(Reply)
      BY <1>0 DEF TypeOK
    <2>2. /\ clientBuf[x] \in Seq(Reply) /\ toClient[conn[x]] \in Seq(Reply)
          /\ Elems(Incoming(x)) = Elems(clientBuf[x]) \cup Elems(toClient[conn[x]])
      BY <1>0, <2>1, OwnTypes
    <2>4. Elems(clientBuf[x] \o Append(toClient[o], r))
            = Elems(clientBuf[x]) \cup Elems(toClient[o]) \cup {r}
      BY <2>0, <2>2, JoinAppend
    <2>5. Elems(Incoming(x))' = Elems(Incoming(x)) \cup {r}
      <3>1. Incoming(x)' = clientBuf[x] \o Append(toClient[o], r)
        BY <1>2, <1>3, <1>5 DEF Incoming
      <3>2. Elems(Incoming(x))' = Elems(clientBuf[x] \o Append(toClient[o], r))
        BY <3>1 DEF Elems
      <3> QED
        BY <1>5, <2>2, <2>4, <3>2
    <2>6. /\ Outgoing(x)' = Elems(toServer'[o]) \cup Elems(serverBuf'[o])
          /\ Outgoing(x) = Elems(toServer[o]) \cup Elems(serverBuf[o])
      BY <1>3, <1>5 DEF Outgoing, Elems
    <2>7. Pending(x)' <=> Pending(x)
      BY <1>1, <1>2, <2>5, <2>6 DEF Pending
    <2>8. Phase(x)' = Phase(x)
      BY <1>3, <2>7, SamePhase
    <2>9. clean[x] \in BOOLEAN
      BY <1>0 DEF TypeOK
    <2> QED
      BY <1>1, <1>3, <2>8, <2>9, TalkStep
  <1> QED
    BY <1>4, <1>5

\* What an object that is out of step does concerns only a machine that was
\* given it as it was.
LEMMA TalkMisreads ==
  ASSUME IInv, TypeOK', KInv, NEW o \in Objects, NEW n,
         ServerSegment(o, n) \/ ServerMisreads(o, n), partial[o]
  PROVE  Talks
  <1>0. TypeOK
    BY DEF IInv
  <1>1. /\ \A x \in Objects : x # o =>
              /\ toServer'[x] = toServer[x] /\ serverBuf'[x] = serverBuf[x]
              /\ toClient'[x] = toClient[x]
        /\ registered \subseteq registered'
        /\ link' = link /\ conn' = conn /\ logged' = logged /\ timer' = timer
        /\ clientBuf' = clientBuf /\ clean' = clean
    BY <1>0, SegmentFrame
  <1> SUFFICES ASSUME NEW x \in Machines PROVE [Talk(x)!Next]_(Talk(x)!vars)
    BY DEF Talks
  <1>2. CASE conn[x] # o
    <2>1. conn[x] # NoObject => conn[x] \in Objects
      BY <1>0 DEF TypeOK
    <2> QED
      BY <1>0, <1>1, <1>2, <2>1, TalkStays
  <1>3. CASE conn[x] = o
    <2>1. conn[x] # NoObject
      BY <1>3, ObjectsAssumption DEF ObjectsAssumption
    <2>2. ~clean[x] /\ ~clean'[x]
      BY <1>1, <1>3, <2>1 DEF KInv, StepInv
    <2> QED
      BY <1>0, <1>1, <2>2, TalkStep DEF TypeOK
  <1> QED
    BY <1>2, <1>3

\* The machine handles a reply: this is where its conversation goes forward.
LEMMA TalkClientSegment ==
  ASSUME IInv, TypeOK', KInv, NEW m \in Machines, conn[m] \in Objects,
         NEW n \in 0 .. Len(toClient[conn[m]]), ClientSegment(m, n)
  PROVE  Talks
  <1>0. TypeOK /\ ExclusiveObjects /\ conn[m] # NoObject
    BY ObjectsAssumption DEF ObjectsAssumption, IInv
  <1>1. /\ link' = link /\ conn' = conn /\ link[m] = "up"
        /\ serverBuf' = serverBuf /\ clean' = clean /\ registered' = registered
        /\ \A x \in Machines : x # m =>
              /\ clientBuf'[x] = clientBuf[x] /\ logged'[x] = logged[x]
              /\ timer'[x] = timer[x]
        /\ \A x \in Objects : x # conn[m] =>
              toClient'[x] = toClient[x] /\ toServer'[x] = toServer[x]
        /\ Incoming(m) \in Seq(Reply) /\ Incoming(m) # <<>>
        /\ Incoming(m)' = Tail(Incoming(m))
    BY HandleFacts
  <1>2. PICK r \in Reply :
              /\ r = Head(Incoming(m))
              /\ \A p \in Outgoing(m)' :
                   \/ p \in Outgoing(m) \/ p = AuthorizeTry(KeyOf[m])
                   \/ p = AccountRequest /\ r = "Allowed"
              /\ Outgoing(m) \subseteq Outgoing(m)'
              /\ r = "Allowed" => AccountRequest \in Outgoing(m)'
              /\ logged'[m] <=> logged[m] \/ r = "Account"
              /\ timer'[m] <=> (timer[m] \/ r = "Blocked") /\ r # "Allowed"
    BY HandleFacts
  <1>3. clean[m] \in BOOLEAN /\ clean'[m] \in BOOLEAN
    BY <1>0 DEF TypeOK
  <1> SUFFICES ASSUME NEW x \in Machines PROVE [Talk(x)!Next]_(Talk(x)!vars)
    BY DEF Talks
  <1>4. CASE x # m
    <2>1. conn[x] # NoObject => conn[x] \in Objects /\ conn[x] # conn[m]
      BY <1>0, <1>4 DEF ExclusiveObjects, TypeOK
    <2> QED
      BY <1>0, <1>1, <1>4, <2>1, TalkStays
  <1>5. CASE x = m /\ ~clean[m]
    BY <1>1, <1>3, <1>5, TalkStep
  <1>6. CASE x = m /\ clean[m]
    <2>1. OwnInv(m)
      BY <1>0, <1>6 DEF KInv, CleanInv
    <2>2. /\ Elems(Incoming(m)) \subseteq {r} \cup Elems(Incoming(m))'
          /\ Elems(Incoming(m))' \subseteq Elems(Incoming(m)) /\ r \in Elems(Incoming(m))
      <3>1. Elems(Incoming(m))' = Elems(Tail(Incoming(m)))
        BY <1>1 DEF Elems
      <3> QED
        BY <1>1, <1>2, <3>1, HeadTailElems, HeadOrTail
    <2>3. AuthorizeTry(KeyOf[m]) # AccountRequest
      BY PacketTypes, KeysAssumption DEF KeysAssumption
    <2>4. /\ Pending(m)' => Pending(m) \/ r = "Allowed"
          /\ r = "Allowed" => Pending(m)'
          /\ Pending(m) => Pending(m)' \/ r = "Account"
          /\ r = "Account" => Pending(m)
      BY <1>2, <2>2, <2>3 DEF Pending
    <2>5. CASE r = "Hello"
      <3>1. Phase(m)' = Phase(m)
        BY <1>1, <1>2, <2>4, <2>5, SamePhase
      <3> QED
        BY <1>1, <1>3, <1>6, <3>1, TalkStep
    <2>6. CASE r = "Blocked"
      <3>1. ~logged[m] /\ ~Pending(m) /\ KeyOf[m] \in registered
        BY <2>1, <2>2, <2>6 DEF OwnInv, Passed
      <3>2. /\ Phase(m) = "asking" \/ Phase(m) = "refused"
            /\ Phase(m)' = "refused"
        BY <1>1, <1>2, <2>4, <2>6, <3>1 DEF Phase
      <3> QED
        BY <1>1, <1>3, <1>6, <3>1, <3>2, TalkStep
    <2>7. CASE r = "Allowed"
      <3>1. KeyOf[m] \in registered
        BY <2>1, <2>2, <2>7 DEF OwnInv
      <3>2. CASE logged[m]
        <4>1. Phase(m)' = Phase(m)
          BY <1>2, <2>7, <3>2 DEF Phase
        <4> QED
          BY <1>1, <1>3, <1>6, <4>1, TalkStep
      <3>3. CASE ~logged[m]
        <4>1. /\ Phase(m) \in {"asking", "refused", "allowed"}
              /\ Phase(m)' = "allowed"
          BY <1>1, <1>2, <2>4, <2>7, <3>3 DEF Phase
        <4> QED
          BY <1>1, <1>3, <1>6, <3>1, <4>1, TalkStep
      <3> QED
        BY <3>2, <3>3
    <2>8. CASE r = "Account"
      <3>1. /\ Phase(m) = "in" \/ Phase(m) = "allowed"
            /\ Phase(m)' = "in"
        BY <1>1, <1>2, <2>4, <2>8 DEF Phase
      <3> QED
        BY <1>1, <1>3, <1>6, <3>1, TalkStep
    <2>9. r # "NoAccount"
      <3>1. Elems(Incoming(m)) = Elems(clientBuf[m]) \cup Elems(toClient[conn[m]])
        BY <1>0, OwnTypes
      <3>2. ~partial[conn[m]]
        BY <1>0, <1>6 DEF KInv, StepInv
      <3> QED
        BY <1>0, <2>2, <3>1, <3>2 DEF IInv, SessionInv
    <2> QED
      BY <2>5, <2>6, <2>7, <2>8, <2>9 DEF Reply
  <1> QED
    BY <1>3, <1>4, <1>5, <1>6

LEMMA TalkNext ==
  ASSUME IInv, IInv', KInv, [Next]_vars
  PROVE  Talks
  <1>0. TypeOK /\ TypeOK'
    BY DEF IInv
  <1>1. ASSUME NEW m \in Machines, ConnectFails(m) \/ Reconnect(m) PROVE Talks
    <2>1. /\ conn' = conn /\ logged' = logged /\ timer' = timer
          /\ clientBuf' = clientBuf /\ clean' = clean /\ toServer' = toServer
          /\ toClient' = toClient /\ serverBuf' = serverBuf /\ registered' = registered
          /\ link[m] \in {"connecting", "waiting"} /\ link'[m] \in {"connecting", "waiting"}
          /\ \A x \in Machines : x # m => link'[x] = link[x]
      BY <1>0, <1>1 DEF ConnectFails, Reconnect, objectVars, TypeOK
    <2> SUFFICES ASSUME NEW x \in Machines PROVE [Talk(x)!Next]_(Talk(x)!vars)
      BY DEF Talks
    <2>2. CASE x = m
      <3>1. Phase(m)' = Phase(m)
        BY <2>1, SamePhase
      <3>2. clean[m] \in BOOLEAN
        BY <1>0 DEF TypeOK
      <3> QED
        BY <2>1, <2>2, <3>1, <3>2, TalkStep
    <2>3. CASE x # m
      BY <1>0, <2>1, <2>3, TalkStays
    <2> QED
      BY <2>2, <2>3
  <1>10. ASSUME NEW m \in Machines, ConnectNotStarted(m) PROVE Talks
    <2>1. /\ conn' = conn /\ logged' = logged /\ timer' = timer
          /\ clientBuf' = clientBuf /\ clean' = clean /\ toServer' = toServer
          /\ toClient' = toClient /\ serverBuf' = serverBuf /\ registered' = registered
          /\ link[m] = "connecting" /\ link'[m] = "down"
          /\ \A x \in Machines : x # m => link'[x] = link[x]
      BY <1>0, <1>10 DEF ConnectNotStarted, objectVars, TypeOK
    <2> SUFFICES ASSUME NEW x \in Machines PROVE [Talk(x)!Next]_(Talk(x)!vars)
      BY DEF Talks
    <2>2. CASE x = m
      <3>1. Phase(m) # "in" /\ Phase(m)' = "cut"
        BY <2>1 DEF KInv, NewInv, Phase
      <3>2. clean[m] \in BOOLEAN
        BY <1>0 DEF TypeOK
      <3> QED
        BY <2>1, <2>2, <3>1, <3>2, TalkStep
    <2>3. CASE x # m
      BY <1>0, <2>1, <2>3, TalkStays
    <2> QED
      BY <2>2, <2>3
  <1>2. ASSUME NEW m \in Machines, TimerTick(m) PROVE Talks
    <2> SUFFICES ASSUME NEW x \in Machines PROVE [Talk(x)!Next]_(Talk(x)!vars)
      BY DEF Talks
    <2> QED
      BY <1>0, <1>2, TalkStays DEF TimerTick, objectVars
  <1>3. ASSUME NEW o \in Objects, EndOfStream(o) PROVE Talks
    <2>1. /\ \A x \in Machines : conn[x] # o
          /\ \A x \in Objects : x # o => toServer'[x] = toServer[x] /\ toClient'[x] = toClient[x]
          /\ link' = link /\ conn' = conn /\ logged' = logged /\ timer' = timer
          /\ clean' = clean /\ clientBuf' = clientBuf /\ serverBuf' = serverBuf
          /\ registered' = registered
      BY <1>0, <1>3 DEF EndOfStream, machineVars, TypeOK
    <2> SUFFICES ASSUME NEW x \in Machines PROVE [Talk(x)!Next]_(Talk(x)!vars)
      BY DEF Talks
    <2>2. conn[x] # NoObject => conn[x] \in Objects /\ conn[x] # o
      BY <1>0, <2>1 DEF TypeOK
    <2> QED
      BY <1>0, <2>1, <2>2, TalkStays
  <1>4. CASE UNCHANGED vars
    <2> SUFFICES ASSUME NEW x \in Machines PROVE [Talk(x)!Next]_(Talk(x)!vars)
      BY DEF Talks
    <2> QED
      BY <1>0, <1>4, TalkStays DEF vars, machineVars, objectVars
  <1>5. ASSUME NEW m \in Machines, LinkDrops(m) \/ Crash(m) PROVE Talks
    BY <1>0, <1>5, TalkLeave
  <1>6. ASSUME NEW m \in Machines, NEW o \in Objects, ConnectOk(m, o) PROVE Talks
    BY <1>0, <1>6, TalkConnect
  <1>7. ASSUME NEW m \in Machines, conn[m] \in Objects,
               NEW n \in 0 .. Len(toClient[conn[m]]), ClientSegment(m, n)
        PROVE  Talks
    BY <1>0, <1>7, TalkClientSegment
  <1>8. ASSUME NEW m \in Machines, TimerSend(m) PROVE Talks
    BY <1>0, <1>8, TalkTimerSend
  <1>9. ASSUME NEW o \in Objects, NEW n \in 0 .. Len(toServer[o]),
               ServerSegment(o, n) \/ ServerMisreads(o, n)
        PROVE  Talks
    <2>1. CASE partial[o]
      BY <1>0, <1>9, <2>1, TalkMisreads
    <2>2. CASE ~partial[o]
      <3>1. ServerSegment(o, n)
        BY <1>0, <1>9, <2>2, SegmentFrame
      <3> QED
        BY <1>0, <2>2, <3>1, TalkServerSegment
    <2> QED
      BY <2>1, <2>2
  <1> QED
    BY <1>1, <1>2, <1>3, <1>4, <1>5, <1>6, <1>7, <1>8, <1>9, <1>10
    DEF Next, Machine, Server

\* Whatever packets, buffers, crashes, drops, lost stops of the timer and
\* pooled objects do, a machine whose object held no bytes of another asks, is
\* refused only while its key was not known when it asked, is allowed and is in.
\* Only its crash takes it back to asking; a connection that is lost cuts it off.
THEOREM ImplementsConversation == Spec => ConversationSpec
  <1>1. Init => \A m \in Machines : Talk(m)!Init
    BY DEF Init, Talk!Init, Phase
  <1>2. IInv /\ IInv' /\ KInv /\ [Next]_vars
          => [\A m \in Machines : \/ [Talk(m)!Next]_(Talk(m)!vars)
                                  \/ Crash(m) /\ Talk(m)!Restart]_vars
    BY TalkNext DEF Talks
  <1> QED
    BY <1>1, <1>2, Invariant, KeyInvariant, PTL DEF Spec, ConversationSpec
=============================================================================
