\* Generate over three specifications, NewSigner over what Generate
\* returned and over PEM files, junk and other messages.  The history
\* stops growing once every call has been made, so the model stops.
CONSTANTS
    Specs <- MCSpecs
    KeyIds <- MCKeyIds
    GenAlgs <- MCGenAlgs
    DerAlgs <- MCDerAlgs
    PemFiles <- MCPemFiles
    Passwords <- MCPasswords
    Junk = Junk
SPECIFICATION Spec
INVARIANT GeneratedKeysLoad
