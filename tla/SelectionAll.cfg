\* Two SOCKS adapters before the direct one.
SPECIFICATION Spec
CONSTANTS
  Hellos <- FullHellos
  Configs <- AllConfigs
  ByteMod = 8
CHECK_DEADLOCK FALSE
INVARIANTS TypeOK NothingLost PlainUnchanged PayloadOnly RoutedOnlyWithPassword
