\* Room for two waiting bytes beside the one in the output buffer; the keyboard
\* is quiet until InitPIC.
CONSTANTS
  BX_KBD_ELEMENTS = 2
  MAX_BYTES = 5
  BOOT_KEYS = FALSE
SPECIFICATION FairSpec
INVARIANTS
  NothingInServiceInUserMode
  ByteHasItsInterrupt
  BytesReadInOrder
PROPERTIES
  EveryByteHandled
  TicksKeepComing
