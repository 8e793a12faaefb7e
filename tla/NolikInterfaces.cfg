SPECIFICATION InterfacesSpec
CONSTANTS
  ann = ann
  ben = ben
  cat = cat
  broker = broker
  sn = sn
  pn = pn
  x = x
  y = y
  KeyPairs = {ann, ben, cat, broker}
  Nonces = {sn, pn}
  Contents = {x, y}
  Failed = Failed
  Users <- MCUsers
  Broker = broker
  DrawnNonce = sn
  PublicNonce = pn
  RecipientLists <- MCRecipientLists
  Messages <- MCMessages
  Zeros = Zeros
  Trap = Trap
  Nothing = Nothing
CHECK_DEADLOCK FALSE
INVARIANTS
  MetadataOpenAlike
  EntriesSurvive
  NoFalseMessage
