CONSTANTS
  HostCr4 <- Cr4Values
  OwnedTried <- Flipped
  Qualification <- Qualifications
SPECIFICATION Spec
INVARIANTS
  GuestStateValid
  GuestContinuesHost
  AccessorsAgree
