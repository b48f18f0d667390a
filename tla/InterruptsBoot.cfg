\* A key may already move while the machine boots.
CONSTANTS
  BX_KBD_ELEMENTS = 2
  MAX_BYTES = 2
  BOOT_KEYS = TRUE
SPECIFICATION FairSpec
INVARIANT ByteHasItsInterrupt
