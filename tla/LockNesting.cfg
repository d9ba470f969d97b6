SPECIFICATION Spec
CONSTANTS
  MaxHeld = 3
  MaxFaults = 2
INVARIANT TypeOK
INVARIANT CountsAgree
INVARIANT NoPhysicalLeak
INVARIANT RepositoryCoversBranch
INVARIANT GroupInItsLock
INVARIANT FallbackFollows
