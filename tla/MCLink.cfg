SPECIFICATION LinkSpec
CONSTANTS
  PacketMax = 2
  Pages = 2
  Signed = TRUE
  Scenarios <- Everything
INVARIANTS
  LinkInStep
  
  LinkOwnPayload
  
PROPERTIES
  LinkReconnects
