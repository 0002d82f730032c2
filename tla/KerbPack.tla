------------------------------ MODULE KerbPack -------------------------------
(***************************************************************************)
(* The logon structure that is handed to LSA: three counted strings whose  *)
(* byte lengths are held in 16 bits, packed behind a structure of fixed    *)
(* size, with offsets in the place of pointers.                            *)
(***************************************************************************)
EXTENDS Integers

CONSTANT StructSize     \* sizeof(KERB_INTERACTIVE_UNLOCK_LOGON)

ASSUME StructSizeAssumption == StructSize \in Nat

MaxUShort == 65535
Null      == -1         \* no string

\* Mistaken variant: the multiplication is not checked.
UnicodeLengthWraps(chars) == (2 * chars) % (MaxUShort + 1)

\* UnicodeStringInitWithString: the length in bytes of a string of that many
\* characters, or Null when there is no string, or none that 16 bits hold.
UnicodeLength(chars) ==
    IF chars # Null /\ 2 * chars <= MaxUShort THEN 2 * chars ELSE Null

\* Mistaken variant: the pointer does not move on after the user name.
PackStays(domain, user, password) ==
    [ size     |-> StructSize + domain + user + password,
      domain   |-> [at |-> StructSize, length |-> domain],
      user     |-> [at |-> StructSize + domain, length |-> user],
      password |-> [at |-> StructSize + domain, length |-> password] ]

\* KerbInteractiveUnlockLogonPack: where the strings of these byte lengths go.
Pack(domain, user, password) ==
    [ size     |-> StructSize + domain + user + password,
      domain   |-> [at |-> StructSize, length |-> domain],
      user     |-> [at |-> StructSize + domain, length |-> user],
      password |-> [at |-> StructSize + domain + user, length |-> password] ]

\* KerbInteractiveUnlockLogonUnpackInPlace: the buffer is long enough for the
\* structure, and each string lies within it.
Unpackable(packed) ==
    /\ StructSize <= packed.size
    /\ packed.domain.at + packed.domain.length <= packed.size
    /\ packed.user.at + packed.user.length <= packed.size
    /\ packed.password.at + packed.password.length <= packed.size

\* No byte belongs to two strings or to a string and the structure.
Disjoint(packed) ==
    /\ StructSize <= packed.domain.at
    /\ packed.domain.at + packed.domain.length <= packed.user.at
    /\ packed.user.at + packed.user.length <= packed.password.at
=============================================================================
