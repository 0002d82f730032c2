---------------------------- MODULE TilesProofs ------------------------------
(***************************************************************************)
(* Proofs about Tiles and KerbPack, for every length of the strings, every *)
(* size of the structure and every failure on the way. What a serialization *)
(* comes to is decided a step at a time, so the invariant says at each step *)
(* of GetSerialization what is allocated and what is known of the lengths. *)
(***************************************************************************)
EXTENDS Tiles, TLAPS

Steps == {"idle", "protect", "check", "size", "encrypt", "init", "pack", "lookup"}

\* What a stored password stands for in the box: none is as an empty one.
Shown(p) == IF p = Null THEN 0 ELSE p

\* What is allocated at each step.
Held ==
    CASE step = "idle"    -> IF result = "finished" THEN {"packed"} ELSE {}
      [] step = "protect" -> {}
      [] step = "check"   -> {"copy"}
      [] step = "size"    -> {"copy", "source"}
      [] step = "encrypt" -> {"copy", "source", "protected"}
      [] step = "init"    -> IF copy.chars = Null THEN {} ELSE {"protected"}
      [] step = "pack"    -> {"protected"}
      [] step = "lookup"  -> {"protected", "packed"}

HeapInv ==
    /\ heap \ {"lost"} = Held
    /\ step # "idle" => result # "finished"

\* The lengths at each step: a protected password is as long as CredProtect
\* made it, or as the password itself.
LengthInv ==
    /\ step \in {"check", "size", "encrypt"} => password \notin {Null, 0}
    /\ step = "init" =>
        copy.chars = Null \/ copy.chars \in ProtectedLengths \cup {copy.of}
    /\ step = "pack" =>
        /\ kiul.domain = 2 * domain /\ kiul.user = 2 * UserLength
        /\ kiul.password \in {2 * n : n \in ProtectedLengths \cup {copy.of}}
        /\ kiul.domain \in Nat /\ kiul.user \in Nat /\ kiul.password \in Nat
        /\ copy.chars # Null
    /\ step = "lookup" \/ result = "finished" =>
        /\ Unpackable(out.packed) /\ Disjoint(out.packed)
        /\ out.packed.user.length = 2 * UserLength
        /\ out.packed.domain.length = 2 * domain
        /\ out.packed.password.length \in {2 * n : n \in ProtectedLengths \cup {out.of}}

\* Of which password the parts are.
BoxInv ==
    /\ scenario = "none" => password = Null /\ box = 0 /\ ~advised /\ ~selected
    /\ ~refused /\ ~emptied => Shown(password) = box
    /\ step = "init" /\ copy.chars # Null => copy.of = Shown(password)
    /\ step = "pack" => copy.of = Shown(password)
    /\ step = "lookup" \/ result = "finished" => out.of = Shown(password)

-----------------------------------------------------------------------------
(* The layout.                                                             *)

LEMMA UnicodeLengthType ==
    ASSUME NEW c \in Length
    PROVE  /\ UnicodeLength(c) \in Length
           /\ UnicodeLength(c) # Null => UnicodeLength(c) = 2 * c /\ c # Null
  BY SMT DEF UnicodeLength, Length, Null, MaxUShort

\* KerbInteractiveUnlockLogonPack lays out what UnpackInPlace accepts, and no
\* two parts share a byte, for strings of any length.
THEOREM PackIsReadable ==
    ASSUME NEW d \in Nat, NEW u \in Nat, NEW p \in Nat
    PROVE  /\ Pack(d, u, p) \in Packed
           /\ Unpackable(Pack(d, u, p)) /\ Disjoint(Pack(d, u, p))
  BY StructSizeAssumption, SMT DEF Pack, Unpackable, Disjoint, Packed

\* The lengths UnicodeStringInitWithString lets pass keep the offsets and the
\* size, which the code holds in 32 bits, from wrapping around.
THEOREM PackFits ==
    ASSUME NEW d \in Length, NEW u \in Length, NEW p \in Length,
           UnicodeLength(d) # Null, UnicodeLength(u) # Null, UnicodeLength(p) # Null,
           StructSize <= MaxUShort
    PROVE  Pack(UnicodeLength(d), UnicodeLength(u), UnicodeLength(p)).size < 4294967296
  BY StructSizeAssumption, SMT DEF Pack, UnicodeLength, Length, Null, MaxUShort

-----------------------------------------------------------------------------
(* Types.                                                                  *)

OutType == [packed : Packed, type : Scenarios \cup {"none"}, of : Length]

LEMMA NothingTypes ==
    /\ NoOut \in OutType
    /\ NoCopy \in [chars : Length, of : Length]
    /\ NoLengths \in [domain : Length, user : Length, password : Length]
    /\ 0 \in Length /\ Null \in Length /\ Nat \subseteq Length
  BY SMT DEF OutType, NoOut, NoString, NoCopy, NoLengths, Packed, Length

LEMMA StartTypes == Init => TypeOK
<1> SUFFICES ASSUME Init PROVE TypeOK
  OBVIOUS
<1>1. described \in 0..NumFields /\ box \in Nat /\ domain \in Nat
  BY SMT DEF Init, NumFields
<1> QED
  BY <1>1, NothingTypes DEF Init, TypeOK, Scenarios, OutType

LEMMA StepTypes == TypeOK /\ LengthInv /\ [Next]_vars => TypeOK'
<1> SUFFICES ASSUME TypeOK, LengthInv, [Next]_vars PROVE TypeOK'
  OBVIOUS
<1> USE LengthsAssumption DEF TypeOK
<1>1. ASSUME NEW s \in Scenarios, NEW n \in 0..NumFields + 2, Initialize(s, n)
      PROVE  TypeOK'
  BY <1>1, SMT DEF Initialize, Waiting, callVars, workVars, uiVars, Length, NumFields,
                   Scenarios
<1>2. ASSUME NEW s \in Scenarios, SetUsageScenario(s) PROVE TypeOK'
  BY <1>2 DEF SetUsageScenario, Waiting, callVars, workVars, uiVars, boxVars
<1>3. CASE Advise \/ UnAdvise \/ SetSelected
  <2>1. /\ UNCHANGED <<scenario, cpus, described, username, password, box, refused>>
        /\ UNCHANGED <<emptied, step, domain, copy, kiul, heap, out, result>>
        /\ advised' \in BOOLEAN /\ selected' \in BOOLEAN
    BY <1>3 DEF Advise, UnAdvise, SetSelected, Waiting, callVars, workVars, tileVars, boxVars
  <2> QED
    BY <2>1
<1>4. ASSUME NEW n \in PasswordLengths, SetStringValue(n) PROVE TypeOK'
  <2>1. password' \in Length /\ box' \in Nat /\ refused' \in BOOLEAN /\ emptied' \in BOOLEAN
    BY <1>4, NothingTypes DEF SetStringValue
  <2> QED
    BY <1>4, <2>1 DEF SetStringValue, Waiting, callVars, workVars, tileVars, uiVars
<1>5. CASE SetDeselected
  <2>1. password' \in Length /\ box' \in Nat /\ refused' \in BOOLEAN /\ emptied' \in BOOLEAN
    <3>1. CASE password' = 0 /\ box' = 0 /\ refused' = FALSE /\ emptied' = FALSE
      BY <3>1, NothingTypes
    <3>2. CASE password' = Null /\ refused' = TRUE /\ UNCHANGED <<box, emptied>>
      BY <3>2, NothingTypes
    <3>3. CASE UNCHANGED boxVars
      BY <3>3 DEF boxVars
    <3> QED
      BY <1>5, <3>1, <3>2, <3>3 DEF SetDeselected
  <2> QED
    BY <1>5, <2>1 DEF SetDeselected, Waiting, callVars, workVars, tileVars
<1>6. ASSUME NEW success \in BOOLEAN, ReportResult(success) PROVE TypeOK'
  <2>1. out' \in OutType
    BY <1>6, NothingTypes DEF ReportResult
  <2>2. box' \in Nat /\ emptied' \in BOOLEAN
    <3>1. CASE UNCHANGED <<box, emptied>>
      BY <3>1
    <3>2. CASE box' = 0 /\ emptied' = TRUE
      BY <3>2
    <3> QED
      BY <1>6, <3>1, <3>2 DEF ReportResult
  <2> QED
    BY <1>6, <2>1, <2>2 DEF ReportResult, tileVars, uiVars, workVars, OutType
<1>7. CASE GetSerialization
  <2>1. out' \in OutType
    BY <1>7, NothingTypes DEF GetSerialization
  <2>2. domain' \in Nat
    BY <1>7 DEF GetSerialization
  <2> QED
    BY <1>7, <2>1, <2>2 DEF GetSerialization, tileVars, boxVars, uiVars, OutType
<1>8. ASSUME NEW s, Working(s)
      PROVE  /\ UNCHANGED <<scenario, cpus, described, username, password, box, refused>>
             /\ UNCHANGED <<emptied, advised, selected, domain>>
  BY <1>8 DEF Working, tileVars, boxVars, uiVars
<1>9. ASSUME NEW r \in {"failed", "finished"}, Return(r)
      PROVE  /\ copy' \in [chars : Length, of : Length]
             /\ kiul' \in [domain : Length, user : Length, password : Length]
             /\ result' \in {"none", "failed", "finished"}
             /\ step' = "idle"
  BY <1>9, NothingTypes DEF Return
<1>10. ASSUME NEW n \in Nat, NEW f, Protected(n, f)
       PROVE  /\ copy' \in [chars : Length, of : Length]
              /\ heap' \subseteq {"copy", "source", "protected", "packed", "lost"}
              /\ step' = "init" /\ UNCHANGED <<kiul, out, result>>
  <2>1. copy' \in [chars : Length, of : Length]
    BY <1>10, NothingTypes DEF Protected
  <2>2. heap' \subseteq {"copy", "source", "protected", "packed", "lost"}
    BY <1>10 DEF Protected
  <2> QED
    BY <1>10, <2>1, <2>2 DEF Protected
<1>11. CASE ProtectIfNecessary
  <2>1. CASE Fail({})
    BY <1>11, <2>1, <1>8, <1>9 DEF ProtectIfNecessary, Fail
  <2>2. CASE Protected(0, {})
    BY <1>11, <2>2, <1>8, <1>10 DEF ProtectIfNecessary
  <2>3. CASE step' = "check" /\ heap' = heap \cup {"copy"} /\ UNCHANGED <<copy, kiul, out, result>>
    BY <1>11, <2>3, <1>8 DEF ProtectIfNecessary
  <2> QED
    BY <1>11, <2>1, <2>2, <2>3 DEF ProtectIfNecessary
<1>12. CASE CheckProtected
  <2>1. CASE Fail({"copy"})
    BY <1>12, <2>1, <1>8, <1>9 DEF CheckProtected, Fail
  <2>2. CASE Protected(password, {"copy"}) /\ password # Null
    <3>1. password \in Nat
      BY <2>2, SMT DEF Length
    <3> QED
      BY <1>12, <2>2, <3>1, <1>8, <1>10 DEF CheckProtected
  <2>3. CASE step' = "size" /\ heap' = heap \cup {"source"} /\ UNCHANGED <<copy, kiul, out, result>>
    BY <1>12, <2>3, <1>8 DEF CheckProtected
  <2>4. CASE Protected(password, {"copy"}) /\ password = Null
    BY <1>12, <2>4, <1>8, SMT DEF CheckProtected, Protected, Length
  <2> QED
    BY <1>12, <2>1, <2>2, <2>3, <2>4 DEF CheckProtected
<1>13. CASE CredProtectSize
  <2>1. CASE Fail({"copy", "source"})
    BY <1>13, <2>1, <1>8, <1>9 DEF CredProtectSize, Fail
  <2>2. CASE ~Fail({"copy", "source"})
    <3>1. copy' \in [chars : Length, of : Length]
      BY <1>13, <2>2, SMT DEF CredProtectSize, NoCopy, Length
    <3> QED
      BY <1>13, <2>2, <3>1, <1>8 DEF CredProtectSize
  <2> QED
    BY <2>1, <2>2
<1>14. CASE CredProtect
  <2>1. CASE Fail({"copy", "source", "protected"})
    BY <1>14, <2>1, <1>8, <1>9 DEF CredProtect, Fail
  <2>2. CASE \E n \in ProtectedLengths : Protected(n, {"copy", "source"})
    BY <1>14, <2>2, <1>8, <1>10 DEF CredProtect
  <2> QED
    BY <1>14, <2>1, <2>2 DEF CredProtect
<1>15. CASE KerbInit
  <2>1. CASE Fail({"protected"})
    BY <1>15, <2>1, <1>8, <1>9 DEF KerbInit, Fail
  <2>2. CASE ~Fail({"protected"})
    <3>1. /\ UnicodeLength(domain) \in Length /\ UnicodeLength(username) \in Length
          /\ UnicodeLength(copy.chars) \in Length
      <4>1. domain \in Length /\ username \in Length /\ copy.chars \in Length
        BY NothingTypes
      <4> QED
        BY <4>1, UnicodeLengthType
    <3>2. kiul' \in [domain : Length, user : Length, password : Length]
      BY <1>15, <2>2, <3>1 DEF KerbInit
    <3> QED
      BY <1>15, <2>2, <3>2, <1>8 DEF KerbInit
  <2> QED
    BY <2>1, <2>2
<1>16. CASE PackLogon
  <2>1. CASE Fail({"protected"})
    BY <1>16, <2>1, <1>8, <1>9 DEF PackLogon, Fail
  <2>2. CASE ~Fail({"protected"})
    <3>1. out' \in OutType
      <4>1. out' = [ packed |-> Pack(kiul.domain, kiul.user, kiul.password),
                     type |-> cpus, of |-> copy.of ]
        BY <1>16, <2>2 DEF PackLogon
      <4>2. Pack(kiul.domain, kiul.user, kiul.password) \in Packed
        <5>1. step = "pack"
          BY <1>16 DEF PackLogon, Working
        <5>2. kiul.domain \in Nat /\ kiul.user \in Nat /\ kiul.password \in Nat
          BY <5>1 DEF LengthInv
        <5> QED
          BY <5>2, PackIsReadable
      <4> QED
        BY <4>1, <4>2 DEF OutType
    <3> QED
      BY <1>16, <2>2, <3>1, <1>8 DEF PackLogon, OutType
  <2> QED
    BY <2>1, <2>2
<1>17. CASE RetrieveNegotiateAuthPackage
  BY <1>17, <1>8, <1>9 DEF RetrieveNegotiateAuthPackage
<1>18. CASE UNCHANGED vars
  BY <1>18 DEF vars, tileVars, boxVars, uiVars, callVars, workVars
<1> QED
  BY <1>1, <1>2, <1>3, <1>4, <1>5, <1>6, <1>7, <1>11, <1>12, <1>13, <1>14, <1>15, <1>16,
     <1>17, <1>18 DEF Next, Serialize
-----------------------------------------------------------------------------
(* What is allocated.                                                      *)

\* Outside GetSerialization and ReportResult nothing is allocated or freed.
LEMMA Quiet ==
    ASSUME Next, ~GetSerialization, ~Serialize, \A s \in BOOLEAN : ~ReportResult(s)
    PROVE  /\ Waiting
           /\ UNCHANGED <<step, domain, copy, kiul, heap, out, result>>
<1>1. Waiting
  BY DEF Next, SetUsageScenario, Initialize, Advise, UnAdvise, SetSelected, SetDeselected,
         SetStringValue
<1> QED
  BY <1>1 DEF Waiting, callVars, workVars

LEMMA StepHeap == TypeOK /\ LengthInv /\ HeapInv /\ [Next]_vars => HeapInv'
<1> SUFFICES ASSUME TypeOK, LengthInv, HeapInv, [Next]_vars PROVE HeapInv'
  OBVIOUS
<1> USE DEF HeapInv, Held
<1>1. CASE GetSerialization
  BY <1>1 DEF GetSerialization
<1>2. ASSUME NEW s \in BOOLEAN, ReportResult(s) PROVE HeapInv'
  BY <1>2 DEF ReportResult, workVars
<1>3. ASSUME NEW f, Fail(f), heap \ {"lost"} \subseteq f, "lost" \notin f PROVE HeapInv'
  BY <1>3 DEF Fail, Return
<1>4. ASSUME NEW n \in Nat, NEW f, Protected(n, f), heap \ {"lost"} \subseteq f \cup {"protected"},
             "protected" \notin f, step # "idle"
      PROVE  HeapInv'
  <2>1. n # Null
    BY SMT DEF Null
  <2> QED
    BY <1>4, <2>1 DEF Protected
<1>5. CASE ProtectIfNecessary
  <2>1. CASE Protected(0, {})
    BY <1>5, <2>1, <1>4 DEF ProtectIfNecessary, Working
  <2>2. CASE Fail({})
    BY <1>5, <2>2, <1>3 DEF ProtectIfNecessary, Working
  <2> QED
    BY <1>5, <2>1, <2>2 DEF ProtectIfNecessary, Working
<1>6. CASE CheckProtected
  <2>1. CASE Protected(password, {"copy"})
    <3>1. password \in Nat
      BY <1>6, SMT DEF CheckProtected, Working, LengthInv, TypeOK, Length
    <3> QED
      BY <1>6, <2>1, <3>1, <1>4 DEF CheckProtected, Working
  <2>2. CASE Fail({"copy"})
    BY <1>6, <2>2, <1>3 DEF CheckProtected, Working
  <2> QED
    BY <1>6, <2>1, <2>2 DEF CheckProtected, Working
<1>7. CASE CredProtectSize
  <2>1. CASE Fail({"copy", "source"})
    BY <1>7, <2>1, <1>3 DEF CredProtectSize, Working
  <2>2. CASE step' = "init"
    BY <1>7, <2>2 DEF CredProtectSize, Working, NoCopy, Fail, Return
  <2> QED
    BY <1>7, <2>1, <2>2 DEF CredProtectSize, Working
<1>8. CASE CredProtect
  <2>1. CASE Fail({"copy", "source", "protected"})
    BY <1>8, <2>1, <1>3 DEF CredProtect, Working
  <2>2. ASSUME NEW n \in ProtectedLengths, Protected(n, {"copy", "source"}) PROVE HeapInv'
    BY <1>8, <2>2, <1>4, LengthsAssumption DEF CredProtect, Working
  <2> QED
    BY <1>8, <2>1, <2>2 DEF CredProtect
<1>9. CASE KerbInit
  <2>1. CASE Fail({"protected"})
    BY <1>9, <2>1, <1>3 DEF KerbInit, Working
  <2>2. CASE ~Fail({"protected"})
    <3>1. UnicodeLength(copy.chars) # Null
      BY <1>9, <2>2 DEF KerbInit
    <3>2. copy.chars # Null
      BY <3>1, UnicodeLengthType DEF TypeOK
    <3> QED
      BY <1>9, <2>2, <3>2 DEF KerbInit, Working
  <2> QED
    BY <2>1, <2>2
<1>10. CASE PackLogon
  <2>1. CASE Fail({"protected"})
    BY <1>10, <2>1, <1>3 DEF PackLogon, Working
  <2>2. CASE ~Fail({"protected"})
    BY <1>10, <2>2 DEF PackLogon, Working
  <2> QED
    BY <2>1, <2>2
<1>11. CASE RetrieveNegotiateAuthPackage
  BY <1>11 DEF RetrieveNegotiateAuthPackage, Working, Return
<1>12. CASE UNCHANGED vars
  BY <1>12 DEF vars, callVars, workVars
<1> QED
  BY <1>1, <1>2, <1>5, <1>6, <1>7, <1>8, <1>9, <1>10, <1>11, <1>12, Quiet DEF Serialize

-----------------------------------------------------------------------------
(* The lengths.                                                            *)

LEMMA FailLengths ==
    ASSUME NEW f, Fail(f) PROVE LengthInv'
  BY DEF Fail, Return, LengthInv

LEMMA ProtectedLengthInv ==
    ASSUME NEW n, NEW f, Protected(n, f), result # "finished",
           n \in ProtectedLengths \cup {IF password = Null THEN 0 ELSE password}
    PROVE  LengthInv'
  BY DEF Protected, LengthInv

LEMMA InitLengths ==
    ASSUME TypeOK, LengthInv, HeapInv, KerbInit
    PROVE  LengthInv'
<1>1. CASE Fail({"protected"})
  BY <1>1, FailLengths
<1>2. CASE ~Fail({"protected"})
  <2>1. /\ UnicodeLength(domain) # Null /\ UnicodeLength(username) # Null
        /\ UnicodeLength(copy.chars) # Null
        /\ step' = "pack" /\ UNCHANGED <<domain, copy, result>>
        /\ kiul' = [ domain   |-> UnicodeLength(domain), user |-> UnicodeLength(username),
                     password |-> UnicodeLength(copy.chars) ]
    BY <1>2 DEF KerbInit, Working
  <2>2. domain \in Length /\ username \in Length /\ copy.chars \in Length
    BY NothingTypes, LengthsAssumption DEF TypeOK
  <2>3. /\ UnicodeLength(domain) = 2 * domain
        /\ UnicodeLength(username) = 2 * username /\ username # Null
        /\ UnicodeLength(copy.chars) = 2 * copy.chars /\ copy.chars # Null
        /\ UnicodeLength(domain) \in Nat /\ UnicodeLength(username) \in Nat
        /\ UnicodeLength(copy.chars) \in Nat
    BY <2>1, <2>2, UnicodeLengthType DEF Length
  <2>4. username = UserLength
    BY <2>3 DEF TypeOK
  <2>5. copy.chars \in ProtectedLengths \cup {copy.of}
    BY <1>2, <2>3 DEF KerbInit, Working, LengthInv
  <2>6. result # "finished"
    BY <1>2 DEF KerbInit, Working, HeapInv
  <2>7. kiul'.password \in {2 * n : n \in ProtectedLengths \cup {copy.of}}
    BY <2>1, <2>3, <2>5
  <2> QED
    BY <2>1, <2>3, <2>4, <2>6, <2>7 DEF LengthInv
<1> QED
  BY <1>1, <1>2

LEMMA PackLengths ==
    ASSUME TypeOK, LengthInv, HeapInv, PackLogon
    PROVE  LengthInv'
<1>1. CASE Fail({"protected"})
  BY <1>1, FailLengths
<1>2. CASE ~Fail({"protected"})
  <2>1. /\ step = "pack" /\ step' = "lookup" /\ UNCHANGED <<domain, result>>
        /\ out' = [ packed |-> Pack(kiul.domain, kiul.user, kiul.password),
                    type |-> cpus, of |-> copy.of ]
    BY <1>2 DEF PackLogon, Working
  <2>2. /\ kiul.domain \in Nat /\ kiul.user \in Nat /\ kiul.password \in Nat
        /\ kiul.domain = 2 * domain /\ kiul.user = 2 * UserLength
        /\ kiul.password \in {2 * n : n \in ProtectedLengths \cup {copy.of}}
    BY <2>1 DEF LengthInv
  <2>3. Unpackable(out'.packed) /\ Disjoint(out'.packed)
    BY <2>1, <2>2, PackIsReadable
  <2>4. /\ out'.packed.user.length = kiul.user
        /\ out'.packed.domain.length = kiul.domain
        /\ out'.packed.password.length = kiul.password
        /\ out'.of = copy.of
    BY <2>1 DEF Pack
  <2> QED
    BY <2>1, <2>2, <2>3, <2>4 DEF LengthInv
<1> QED
  BY <1>1, <1>2

LEMMA StepLengths == TypeOK /\ HeapInv /\ LengthInv /\ [Next]_vars => LengthInv'
<1> SUFFICES ASSUME TypeOK, HeapInv, LengthInv, [Next]_vars PROVE LengthInv'
  OBVIOUS
<1>1. CASE GetSerialization
  BY <1>1 DEF GetSerialization, LengthInv
<1>2. ASSUME NEW s \in BOOLEAN, ReportResult(s) PROVE LengthInv'
  BY <1>2 DEF ReportResult, workVars, LengthInv
<1>3. CASE ProtectIfNecessary
  <2>1. CASE Protected(0, {}) /\ password \in {Null, 0}
    BY <1>3, <2>1, ProtectedLengthInv DEF ProtectIfNecessary, Working, HeapInv
  <2>2. CASE step' = "check" /\ password \notin {Null, 0} /\ UNCHANGED <<password, result>>
    BY <1>3, <2>2 DEF ProtectIfNecessary, Working, HeapInv, LengthInv
  <2> QED
    BY <1>3, <2>1, <2>2, FailLengths DEF ProtectIfNecessary, Working, boxVars
<1>4. CASE CheckProtected
  <2>1. CASE Protected(password, {"copy"})
    <3>1. password # Null
      BY <1>4 DEF CheckProtected, Working, LengthInv
    <3> QED
      BY <1>4, <2>1, <3>1, ProtectedLengthInv DEF CheckProtected, Working, HeapInv
  <2>2. CASE step' = "size" /\ UNCHANGED <<password, result>>
    BY <1>4, <2>2 DEF CheckProtected, Working, HeapInv, LengthInv
  <2> QED
    BY <1>4, <2>1, <2>2, FailLengths DEF CheckProtected, Working, boxVars
<1>5. CASE CredProtectSize
  <2>1. CASE step' = "encrypt" /\ UNCHANGED <<password, result>>
    BY <1>5, <2>1 DEF CredProtectSize, Working, HeapInv, LengthInv
  <2>2. CASE step' = "init" /\ copy' = NoCopy /\ UNCHANGED result
    BY <1>5, <2>2 DEF CredProtectSize, Working, HeapInv, LengthInv, NoCopy
  <2> QED
    BY <1>5, <2>1, <2>2, FailLengths DEF CredProtectSize, Working, boxVars
<1>6. CASE CredProtect
  <2>1. ASSUME NEW n \in ProtectedLengths, Protected(n, {"copy", "source"}) PROVE LengthInv'
    BY <1>6, <2>1, ProtectedLengthInv DEF CredProtect, Working, HeapInv
  <2> QED
    BY <1>6, <2>1, FailLengths DEF CredProtect
<1>7. CASE RetrieveNegotiateAuthPackage
  BY <1>7 DEF RetrieveNegotiateAuthPackage, Working, Return, LengthInv
<1>8. CASE UNCHANGED <<step, domain, copy, kiul, out, result>>
  <2>1. step \in {"check", "size", "encrypt"} => UNCHANGED password
    <3>1. ASSUME step # "idle", Next, ~Serialize PROVE FALSE
      BY <3>1, Quiet DEF Waiting, GetSerialization, ReportResult
    <3>2. Serialize => UNCHANGED password
      BY DEF Serialize, ProtectIfNecessary, CheckProtected, CredProtectSize, CredProtect,
             KerbInit, PackLogon, RetrieveNegotiateAuthPackage, Working, boxVars
    <3> QED
      BY <3>1, <3>2 DEF vars, boxVars
  <2> QED
    BY <1>8, <2>1 DEF LengthInv
<1> QED
  BY <1>1, <1>2, <1>3, <1>4, <1>5, <1>6, <1>7, <1>8, InitLengths, PackLengths, Quiet
     DEF Serialize, vars, callVars, workVars

-----------------------------------------------------------------------------
(* The passwords.                                                          *)

LEMMA StepBox == TypeOK /\ HeapInv /\ LengthInv /\ BoxInv /\ [Next]_vars => BoxInv'
<1> SUFFICES ASSUME TypeOK, HeapInv, LengthInv, BoxInv, [Next]_vars PROVE BoxInv'
  OBVIOUS
<1>1. ASSUME Waiting, ~refused' /\ ~emptied' => Shown(password)' = box',
             scenario # "none" /\ scenario' # "none" PROVE BoxInv'
  BY <1>1 DEF Waiting, BoxInv, callVars, workVars
<1>2. ASSUME NEW s \in Scenarios, NEW n \in 0..NumFields + 2, Initialize(s, n) PROVE BoxInv'
  <2>1. /\ password' \in {Null, 0} /\ Waiting /\ scenario' # "none"
        /\ UNCHANGED box /\ scenario = "none"
    BY <1>2 DEF Initialize, Scenarios
  <2>2. box' = 0 /\ Shown(password)' = 0
    BY <2>1 DEF BoxInv, Shown
  <2> QED
    BY <2>1, <2>2 DEF BoxInv, Waiting, callVars, workVars
<1>3. ASSUME NEW n \in PasswordLengths, SetStringValue(n) PROVE BoxInv'
  <2>1. n # Null
    BY LengthsAssumption, SMT DEF Null
  <2>2. scenario # "none" /\ scenario' # "none" /\ Waiting
    BY <1>3 DEF SetStringValue, BoxInv, tileVars
  <2>3. ~refused' /\ ~emptied' => Shown(password)' = box'
    BY <1>3, <2>1 DEF SetStringValue, Shown
  <2> QED
    BY <1>1, <2>2, <2>3
<1>4. CASE SetDeselected
  <2>1. scenario # "none" /\ scenario' # "none" /\ Waiting
    BY <1>4 DEF SetDeselected, BoxInv, tileVars
  <2>2. ~refused' /\ ~emptied' => Shown(password)' = box'
    <3>1. CASE password' = 0 /\ box' = 0
      BY <3>1 DEF Shown
    <3>2. CASE UNCHANGED boxVars
      BY <3>2 DEF boxVars, BoxInv, Shown
    <3> QED
      BY <1>4, <3>1, <3>2 DEF SetDeselected
  <2> QED
    BY <1>1, <2>1, <2>2
<1>5. ASSUME NEW s \in Scenarios, SetUsageScenario(s) PROVE BoxInv'
  <2>1. /\ scenario # "none" /\ scenario' # "none" /\ Waiting
        /\ UNCHANGED <<password, box, refused, emptied>>
    BY <1>5 DEF SetUsageScenario, boxVars, Scenarios
  <2> QED
    BY <1>1, <2>1 DEF BoxInv, Shown
<1>6. CASE Advise \/ UnAdvise \/ SetSelected
  <2>1. /\ scenario # "none" /\ scenario' # "none" /\ Waiting
        /\ UNCHANGED <<password, box, refused, emptied>>
    BY <1>6 DEF Advise, UnAdvise, SetSelected, boxVars, tileVars, BoxInv
  <2> QED
    BY <1>1, <2>1 DEF BoxInv, Shown
<1>7. ASSUME NEW s \in BOOLEAN, ReportResult(s) PROVE BoxInv'
  <2>1. /\ UNCHANGED <<scenario, password, refused, advised, selected, step>>
        /\ step = "idle" /\ result' = "none"
        /\ UNCHANGED <<box, emptied>> \/ (box' = 0 /\ emptied' = TRUE)
    BY <1>7 DEF ReportResult, tileVars, uiVars, workVars
  <2> QED
    BY <2>1 DEF BoxInv, Shown
<1>8. CASE GetSerialization
  BY <1>8 DEF GetSerialization, tileVars, boxVars, uiVars, BoxInv, Shown
<1>9. ASSUME NEW s, Working(s), s # "idle", step' = "lookup" => s = "lookup",
             step' = "pack" => s = "pack" /\ UNCHANGED copy,
             step' = "init" /\ copy'.chars # Null => copy'.of = Shown(password),
             result' = "finished" => s = "lookup" /\ UNCHANGED out,
             step' # "lookup"
      PROVE BoxInv'
  BY <1>9 DEF Working, tileVars, boxVars, uiVars, BoxInv, Shown
<1>10. ASSUME NEW s, NEW f, Working(s), s # "idle", Fail(f) PROVE BoxInv'
  BY <1>9, <1>10 DEF Fail, Return
<1>11. ASSUME NEW s, NEW n, NEW f, Working(s), s # "idle", Protected(n, f) PROVE BoxInv'
  <2>1. /\ step' = "init" /\ copy'.of = Shown(password) /\ result' = result
        /\ step = s
    BY <1>11 DEF Protected, Shown, Working
  <2> QED
    BY <1>9, <1>11, <2>1 DEF HeapInv
<1>12. CASE ProtectIfNecessary
  <2>1. CASE step' = "check" /\ UNCHANGED result
    BY <1>12, <2>1, <1>9 DEF ProtectIfNecessary, Working, HeapInv
  <2> QED
    BY <1>12, <2>1, <1>10, <1>11 DEF ProtectIfNecessary
<1>13. CASE CheckProtected
  <2>1. CASE step' = "size" /\ UNCHANGED result
    BY <1>13, <2>1, <1>9 DEF CheckProtected, Working, HeapInv
  <2> QED
    BY <1>13, <2>1, <1>10, <1>11 DEF CheckProtected
<1>14. CASE CredProtectSize
  <2>1. CASE step' = "encrypt" /\ UNCHANGED result
    BY <1>14, <2>1, <1>9 DEF CredProtectSize, Working, HeapInv
  <2>2. CASE step' = "init" /\ copy' = NoCopy /\ UNCHANGED result
    BY <1>14, <2>2, <1>9 DEF CredProtectSize, Working, HeapInv, NoCopy
  <2> QED
    BY <1>14, <2>1, <2>2, <1>10 DEF CredProtectSize
<1>15. CASE CredProtect
  BY <1>15, <1>10, <1>11 DEF CredProtect
<1>16. CASE KerbInit
  <2>1. CASE Fail({"protected"})
    BY <1>16, <2>1, <1>10 DEF KerbInit
  <2>2. CASE ~Fail({"protected"})
    <3>1. /\ step = "init" /\ step' = "pack" /\ UNCHANGED <<copy, result, out>>
          /\ UnicodeLength(copy.chars) # Null
      BY <1>16, <2>2 DEF KerbInit, Working
    <3>2. copy.chars # Null
      BY <3>1, UnicodeLengthType DEF TypeOK
    <3> QED
      BY <1>16, <3>1, <3>2 DEF KerbInit, Working, tileVars, boxVars, uiVars, BoxInv, HeapInv,
                               Shown
  <2> QED
    BY <2>1, <2>2
<1>17. CASE PackLogon
  <2>1. CASE Fail({"protected"})
    BY <1>17, <2>1, <1>10 DEF PackLogon
  <2>2. CASE ~Fail({"protected"})
    <3>1. /\ step = "pack" /\ step' = "lookup" /\ out'.of = copy.of
      BY <1>17, <2>2 DEF PackLogon, Working
    <3> QED
      BY <1>17, <3>1 DEF PackLogon, Working, tileVars, boxVars, uiVars, BoxInv, Shown
  <2> QED
    BY <2>1, <2>2
<1>18. CASE RetrieveNegotiateAuthPackage
  BY <1>18, <1>9 DEF RetrieveNegotiateAuthPackage, Working, Return
<1>19. CASE UNCHANGED vars
  BY <1>19 DEF vars, tileVars, boxVars, uiVars, callVars, workVars, BoxInv, Shown
<1> QED
  BY <1>2, <1>3, <1>4, <1>5, <1>6, <1>7, <1>8, <1>12, <1>13, <1>14, <1>15, <1>16, <1>17, <1>18,
     <1>19 DEF Next, Serialize

-----------------------------------------------------------------------------
LEMMA StepErased ==
    TypeOK /\ ErasedWhenDeselected /\ [Next]_vars => ErasedWhenDeselected'
<1> SUFFICES ASSUME TypeOK, ErasedWhenDeselected, [Next]_vars PROVE ErasedWhenDeselected'
  OBVIOUS
<1> USE DEF ErasedWhenDeselected
<1>1. ASSUME NEW s \in Scenarios, NEW n \in 0..NumFields + 2, Initialize(s, n)
      PROVE  ErasedWhenDeselected'
  BY <1>1 DEF Initialize
<1>2. ASSUME NEW s \in Scenarios, SetUsageScenario(s) PROVE ErasedWhenDeselected'
  BY <1>2 DEF SetUsageScenario, boxVars, uiVars
<1>3. CASE Advise \/ UnAdvise \/ SetSelected
  BY <1>3 DEF Advise, UnAdvise, SetSelected, tileVars, boxVars
<1>4. ASSUME NEW n \in PasswordLengths, SetStringValue(n) PROVE ErasedWhenDeselected'
  BY <1>4 DEF SetStringValue, uiVars
<1>5. CASE SetDeselected
  BY <1>5 DEF SetDeselected, boxVars
<1>6. ASSUME NEW s \in BOOLEAN, ReportResult(s) PROVE ErasedWhenDeselected'
  BY <1>6 DEF ReportResult, uiVars
<1>7. CASE GetSerialization
  BY <1>7 DEF GetSerialization, boxVars, uiVars
<1>8. CASE Serialize
  BY <1>8 DEF Serialize, ProtectIfNecessary, CheckProtected, CredProtectSize, CredProtect,
              KerbInit, PackLogon, RetrieveNegotiateAuthPackage, Working, boxVars, uiVars
<1>9. CASE UNCHANGED vars
  BY <1>9 DEF vars, boxVars, uiVars
<1> QED
  BY <1>1, <1>2, <1>3, <1>4, <1>5, <1>6, <1>7, <1>8, <1>9 DEF Next

IInv == TypeOK /\ HeapInv /\ LengthInv /\ BoxInv /\ ErasedWhenDeselected

LEMMA Start == Init => IInv
  BY StartTypes DEF Init, IInv, HeapInv, Held, LengthInv, BoxInv, Shown, ErasedWhenDeselected

LEMMA Invariant == Spec => []IInv
<1>1. IInv /\ [Next]_vars => IInv'
  BY StepTypes, StepHeap, StepLengths, StepBox, StepErased DEF IInv
<1> QED
  BY Start, <1>1, PTL DEF Spec

\* Type correctness.
THEOREM TypeCorrect == Spec => []TypeOK
<1>1. IInv => TypeOK
  BY DEF IInv
<1> QED
  BY Invariant, <1>1, PTL

\* No typed password outlives the selection of its tile, whichever allocation
\* of SetDeselected, SetStringValue or Initialize fails.
THEOREM Erased == Spec => []ErasedWhenDeselected
<1>1. IInv => ErasedWhenDeselected
  BY DEF IInv
<1> QED
  BY Invariant, <1>1, PTL

\* GetSerialization frees what it allocated on each of its paths, but for the
\* buffer of a call whose package lookup failed.
THEOREM Balanced == Spec => []HeapBalanced
<1>1. IInv => HeapBalanced
  BY DEF IInv, HeapInv, Held, HeapBalanced
<1> QED
  BY Invariant, <1>1, PTL

\* What LSA is handed is readable and whole, for strings of any length: those
\* that 16 bits cannot hold make the call fail.
THEOREM Readable == Spec => []PackedIsReadable
<1>1. IInv => PackedIsReadable
  BY DEF IInv, LengthInv, PackedIsReadable
<1> QED
  BY Invariant, <1>1, PTL

\* The tile's copy of the password and LogonUI's differ only after a refused
\* SetStringValue or SetFieldString, or a rejected logon.
THEOREM SubmitsBox == Spec => []SubmitsTheBox
<1>1. IInv => SubmitsTheBox
  BY DEF IInv, BoxInv, SubmitsTheBox
<1> QED
  BY Invariant, <1>1, PTL
=============================================================================
