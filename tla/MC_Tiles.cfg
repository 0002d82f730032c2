\* Lengths at the bounds of what 16 bits hold: in bytes 2 * 32767 fits and
\* 2 * 32768 does not; 65536 does not fit as a number of characters either.
SPECIFICATION Spec
CONSTANTS
    StructSize = 64
    UserLength = 8
    DomainLengths = {1, 15}
    PasswordLengths = {0, 5, 32767, 32768, 65536}
    ProtectedLengths = {40, 32767, 32768}
INVARIANTS
    TypeOK
    ErasedWhenDeselected
    HeapBalanced
    PackedIsReadable
    SubmitsTheBox
