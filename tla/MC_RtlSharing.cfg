SPECIFICATION Spec

INVARIANT TypeOK
INVARIANT NoInvalidSharing
INVARIANT TreesPreserved
