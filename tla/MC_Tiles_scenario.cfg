\* One name, one password.
SPECIFICATION Spec
CONSTANTS
    StructSize = 64
    UserLength = 8
    DomainLengths = {15}
    PasswordLengths = {5}
    ProtectedLengths = {40}
INVARIANT
    CredsAreTheSame
