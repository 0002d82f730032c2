------------------------------- MODULE Tiles ---------------------------------
(***************************************************************************)
(* The tile a user logs on with (CSampleCredential), as LogonUI's one      *)
(* thread uses it: its strings, its selection, and GetSerialization, which *)
(* protects the password, packs the logon structure and looks up the       *)
(* authentication package, and may fail at every allocation and every call *)
(* of the system. The message tile (CMessageCredential) has one constant   *)
(* string, keeps nothing else and refuses to log on.                       *)
(*                                                                         *)
(* A string is its number of characters. LogonUI's password box is in the  *)
(* model because the tile and LogonUI each hold a copy of the password.    *)
(***************************************************************************)
EXTENDS KerbPack

CONSTANTS
    UserLength,         \* characters of the user name the tile is given
    DomainLengths,      \* of the computer's name
    PasswordLengths,    \* of what a user may type
    ProtectedLengths    \* of what CredProtect makes of it

ASSUME LengthsAssumption ==
    /\ UserLength \in Nat /\ DomainLengths \subseteq Nat
    /\ PasswordLengths \subseteq Nat /\ ProtectedLengths \subseteq Nat

Scenarios == {"logon", "unlock"}
NumFields == 4
Password  == 2          \* SFI_PASSWORD

VARIABLES
    scenario,   \* CSampleProvider::_cpus
    cpus,       \* CSampleCredential::_cpus
    described,  \* how many fields have their descriptor
    username,   \* _rgFieldStrings[SFI_USERNAME]
    password,   \* _rgFieldStrings[SFI_PASSWORD]
    box,        \* what LogonUI's password box shows
    refused,    \* the tile has answered that it could not store that
    emptied,    \* LogonUI emptied the box after a rejected logon
    advised,    \* _pCredProvCredentialEvents is set
    selected,   \* LogonUI has zoomed the tile
    step,       \* where GetSerialization is
    domain,     \* its computer name
    copy,       \* its protected password: characters, and of which password
    kiul,       \* the lengths in bytes of its three strings
    heap,       \* what the calls have allocated and nobody freed
    out,        \* the caller's serialization
    result      \* what the last GetSerialization came to

tileVars == <<scenario, cpus, described, username>>
boxVars  == <<password, box, refused, emptied>>
uiVars   == <<advised, selected>>
workVars == <<step, domain, copy, kiul>>
callVars == <<workVars, heap, out, result>>
vars     == <<tileVars, boxVars, uiVars, callVars>>

NoCopy    == [chars |-> Null, of |-> Null]
NoLengths == [domain |-> Null, user |-> Null, password |-> Null]
NoString  == [at |-> 0, length |-> 0]
NoOut     == [ packed |-> [size |-> 0, domain |-> NoString, user |-> NoString,
                           password |-> NoString],
               type |-> "none", of |-> Null ]

Init ==
    /\ scenario = "none" /\ cpus = "none" /\ described = 0
    /\ username = Null /\ password = Null
    /\ box = 0 /\ refused = FALSE /\ emptied = FALSE
    /\ advised = FALSE /\ selected = FALSE
    /\ step = "idle" /\ domain = 0 /\ copy = NoCopy /\ kiul = NoLengths
    /\ heap = {} /\ out = NoOut /\ result = "none"

\* LogonUI is in no call of the tile and waits for no logon.
Waiting == step = "idle" /\ result # "finished" /\ UNCHANGED callVars

-----------------------------------------------------------------------------
(* The provider's SetUsageScenario and the tile's Initialize.              *)

\* Mistaken variant: the loop over the fields does not end at the last one.
InitializeOneMore(s, allocated) ==
    /\ Waiting /\ scenario = "none"
    /\ scenario' = s /\ cpus' = s
    /\ described' = allocated
    /\ username' = Null /\ password' = Null
    /\ UNCHANGED <<box, refused, emptied, uiVars>>

\* The first time the tile is given copies of the labels and then of the
\* strings, until an allocation fails; success is reported in any case.
Initialize(s, allocated) ==
    /\ Waiting /\ scenario = "none"
    /\ scenario' = s /\ cpus' = s
    /\ described' = IF allocated < NumFields THEN allocated ELSE NumFields
    /\ username' = IF allocated > NumFields THEN UserLength ELSE Null
    /\ password' = IF allocated > NumFields + 1 THEN 0 ELSE Null
    /\ UNCHANGED <<box, refused, emptied, uiVars>>

\* Later the provider notes the scenario and leaves the tile as it is.
SetUsageScenario(s) ==
    /\ Waiting /\ scenario # "none" /\ ~selected
    /\ scenario' = s
    /\ UNCHANGED <<cpus, described, username, boxVars, uiVars>>

-----------------------------------------------------------------------------
(* The calls of LogonUI while nobody logs on.                              *)

Advise ==
    /\ Waiting /\ scenario # "none" /\ ~advised
    /\ advised' = TRUE
    /\ UNCHANGED <<tileVars, boxVars, selected>>

UnAdvise ==
    /\ Waiting /\ advised /\ ~selected
    /\ advised' = FALSE
    /\ UNCHANGED <<tileVars, boxVars, selected>>

SetSelected ==
    /\ Waiting /\ advised /\ ~selected
    /\ selected' = TRUE
    /\ UNCHANGED <<tileVars, boxVars, advised>>

\* Mistaken variant: without memory the old password stays and nobody is told.
SetStringValueKeepsOld(n) ==
    /\ Waiting /\ selected
    /\ box' = n /\ emptied' = FALSE
    /\ \/ described > Password /\ password' = n /\ refused' = FALSE
       \/ described > Password /\ UNCHANGED <<password, refused>>
       \/ described <= Password /\ UNCHANGED password /\ refused' = TRUE
    /\ UNCHANGED <<tileVars, uiVars>>

\* A keystroke: the box shows a password of n characters. Without the
\* descriptor the field is not known to be one that can be set; without
\* memory the old password is gone and there is no new one.
SetStringValue(n) ==
    /\ Waiting /\ selected
    /\ box' = n /\ emptied' = FALSE
    /\ \/ described > Password /\ password' = n /\ refused' = FALSE
       \/ described > Password /\ password' = Null /\ refused' = TRUE
       \/ described <= Password /\ UNCHANGED password /\ refused' = TRUE
    /\ UNCHANGED <<tileVars, uiVars>>

\* Mistaken variant: only the box is emptied.
SetDeselectedBoxOnly ==
    /\ Waiting /\ selected
    /\ selected' = FALSE
    /\ box' = 0 /\ refused' = FALSE /\ emptied' = FALSE
    /\ UNCHANGED <<password, tileVars, advised>>

\* The password is replaced by an empty one, and LogonUI told so. If there is
\* no memory for that, there is none and LogonUI is not told.
SetDeselected ==
    /\ Waiting /\ selected
    /\ selected' = FALSE
    /\ \/ /\ password # Null /\ password' = 0
          /\ box' = 0 /\ refused' = FALSE /\ emptied' = FALSE
       \/ /\ password # Null /\ password' = Null
          /\ refused' = TRUE /\ UNCHANGED <<box, emptied>>
       \/ password = Null /\ UNCHANGED boxVars
    /\ UNCHANGED <<tileVars, advised>>

\* The logon LogonUI tried with the serialization has ended. If it failed the
\* tile has LogonUI empty the box; what the tile stores remains.
ReportResult(success) ==
    /\ step = "idle" /\ result = "finished"
    /\ result' = "none" /\ out' = NoOut
    /\ heap' = heap \ {"packed"}
    /\ IF success \/ ~advised
       THEN UNCHANGED <<box, emptied>>
       ELSE box' = 0 /\ emptied' = TRUE
    /\ UNCHANGED <<password, refused, tileVars, uiVars, workVars>>

-----------------------------------------------------------------------------
(* GetSerialization.                                                       *)

\* GetComputerNameW may fail.
GetSerialization ==
    /\ step = "idle" /\ result # "finished" /\ selected
    /\ \/ /\ step' = "protect" /\ result' = "none"
          /\ domain' \in DomainLengths
       \/ result' = "failed" /\ UNCHANGED <<step, domain>>
    /\ out' = NoOut
    /\ UNCHANGED <<copy, kiul, heap, tileVars, boxVars, uiVars>>

Working(s) == step = s /\ UNCHANGED <<tileVars, boxVars, uiVars, domain>>

\* The call returns: what it still holds of its own is the protected password.
Return(r) ==
    /\ step' = "idle" /\ result' = r
    /\ copy' = NoCopy /\ kiul' = NoLengths

Fail(freed) == Return("failed") /\ heap' = heap \ freed /\ UNCHANGED out

\* The protected password is ready: it is of the password as it is stored.
Protected(n, freed) ==
    /\ step' = "init"
    /\ copy' = [chars |-> n, of |-> IF password = Null THEN 0 ELSE password]
    /\ heap' = (heap \cup {"protected"}) \ freed
    /\ UNCHANGED <<kiul, out, result>>

\* ProtectIfNecessaryAndCopyPassword: an empty password is not protected.
ProtectIfNecessary ==
    /\ Working("protect")
    /\ \/ password \in {Null, 0} /\ Protected(0, {})
       \/ /\ password \notin {Null, 0}
          /\ step' = "check" /\ heap' = heap \cup {"copy"}
          /\ UNCHANGED <<copy, kiul, out, result>>
       \/ Fail({})

\* CredIsProtected: what is protected already is copied as it is; the rest is
\* copied once more to be protected.
CheckProtected ==
    /\ Working("check")
    /\ \/ Protected(password, {"copy"})
       \/ /\ step' = "size" /\ heap' = heap \cup {"source"}
          /\ UNCHANGED <<copy, kiul, out, result>>
       \/ Fail({"copy"})

\* The first CredProtect, which should fail and tell the size. When it
\* succeeds there is no protected password, and no error either.
CredProtectSize ==
    /\ Working("size")
    /\ \/ /\ step' = "encrypt" /\ heap' = heap \cup {"protected"}
          /\ UNCHANGED <<copy, kiul, out, result>>
       \/ /\ step' = "init" /\ copy' = NoCopy
          /\ heap' = heap \ {"copy", "source"}
          /\ UNCHANGED <<kiul, out, result>>
       \/ Fail({"copy", "source"})

\* The second CredProtect.
CredProtect ==
    /\ Working("encrypt")
    /\ \/ \E n \in ProtectedLengths : Protected(n, {"copy", "source"})
       \/ Fail({"copy", "source", "protected"})

\* KerbInteractiveUnlockLogonInit.
KerbInit ==
    /\ Working("init")
    /\ LET lengths == [ domain   |-> UnicodeLength(domain),
                        user     |-> UnicodeLength(username),
                        password |-> UnicodeLength(copy.chars) ]
       IN IF \E s \in DOMAIN lengths : lengths[s] = Null
          THEN Fail({"protected"})
          ELSE /\ step' = "pack" /\ kiul' = lengths
               /\ UNCHANGED <<copy, heap, out, result>>

\* KerbInteractiveUnlockLogonPack hands the buffer to the caller's structure.
PackLogon ==
    /\ Working("pack")
    /\ \/ /\ step' = "lookup" /\ heap' = heap \cup {"packed"}
          /\ out' = [ packed |-> Pack(kiul.domain, kiul.user, kiul.password),
                      type |-> cpus, of |-> copy.of ]
          /\ UNCHANGED <<copy, kiul, result>>
       \/ Fail({"protected"})

\* Mistaken variant: an early return when the package is not found.
RetrieveNegotiateAuthPackageReturnsEarly ==
    /\ Working("lookup") /\ UNCHANGED out
    /\ \/ Return("finished") /\ heap' = heap \ {"protected"}
       \/ Return("failed") /\ heap' = (heap \ {"packed"}) \cup {"lost"}

\* RetrieveNegotiateAuthPackage. When it fails so does the call, and LogonUI
\* does not look at the buffer in its structure: nobody frees it.
RetrieveNegotiateAuthPackage ==
    /\ Working("lookup") /\ UNCHANGED out
    /\ \/ Return("finished") /\ heap' = heap \ {"protected"}
       \/ Return("failed") /\ heap' = (heap \ {"packed", "protected"}) \cup {"lost"}

-----------------------------------------------------------------------------
Serialize ==
    \/ ProtectIfNecessary \/ CheckProtected \/ CredProtectSize \/ CredProtect
    \/ KerbInit \/ PackLogon \/ RetrieveNegotiateAuthPackage

Next ==
    \/ \E s \in Scenarios : SetUsageScenario(s)
    \/ \E s \in Scenarios, allocated \in 0..NumFields + 2 : Initialize(s, allocated)
    \/ Advise \/ UnAdvise \/ SetSelected \/ SetDeselected
    \/ \E n \in PasswordLengths : SetStringValue(n)
    \/ \E success \in BOOLEAN : ReportResult(success)
    \/ GetSerialization \/ Serialize

Spec == Init /\ [][Next]_vars

-----------------------------------------------------------------------------
Length == Nat \cup {Null}
Packed == [ size : Nat, domain : [at : Nat, length : Nat], user : [at : Nat, length : Nat],
            password : [at : Nat, length : Nat] ]

TypeOK ==
    /\ scenario \in Scenarios \cup {"none"} /\ cpus \in Scenarios \cup {"none"}
    /\ described \in 0..NumFields
    /\ username \in {UserLength, Null} /\ password \in Length /\ box \in Nat
    /\ refused \in BOOLEAN /\ emptied \in BOOLEAN
    /\ advised \in BOOLEAN /\ selected \in BOOLEAN
    /\ step \in {"idle", "protect", "check", "size", "encrypt", "init", "pack", "lookup"}
    /\ domain \in Nat
    /\ copy \in [chars : Length, of : Length]
    /\ kiul \in [domain : Length, user : Length, password : Length]
    /\ heap \subseteq {"copy", "source", "protected", "packed", "lost"}
    /\ out \in [packed : Packed, type : Scenarios \cup {"none"}, of : Length]
    /\ result \in {"none", "failed", "finished"}

\* A tile that is not selected stores no password a user has typed, whatever
\* failed on the way.
ErasedWhenDeselected == ~selected => password \in {0, Null}

\* Between two calls nothing is held but the buffer LogonUI has to free, and
\* those lost because the package was not found, whichever step failed.
HeapBalanced ==
    step = "idle" => heap \ {"lost"} = (IF result = "finished" THEN {"packed"} ELSE {})

\* The strings LSA is handed lie in the buffer, apart from one another, and
\* are as long as those packed: a length that 16 bits cannot hold is refused.
PackedIsReadable ==
    result = "finished" =>
        /\ Unpackable(out.packed) /\ Disjoint(out.packed)
        /\ out.packed.user.length = 2 * UserLength
        /\ out.packed.domain.length = 2 * domain
        /\ out.packed.password.length \in {2 * n : n \in ProtectedLengths \cup {out.of}}

\* The password submitted is the one in LogonUI's box, unless LogonUI was told
\* that it could not be stored, or had emptied the box after a rejected logon.
SubmitsTheBox ==
    result = "finished" /\ ~refused /\ ~emptied => out.of = box

\* CSampleProvider.cpp:72: "there's no point in recreating our creds, since
\* they're the same all the time": the tile logs on for the scenario the
\* provider was last given.
CredsAreTheSame == result = "finished" => out.type = scenario
=============================================================================
