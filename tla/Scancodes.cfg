\* Two characters, with up to four bytes still unread.
CONSTANTS
  MAX_TYPED = 2
  WIRE = 4
SPECIFICATION KeysSpec
INVARIANTS
  TypesWhatIsMeant
  FlagsFollowKeys
