SPECIFICATION Spec
CONSTANTS
  ann = ann
  ben = ben
  cat = cat
  k1 = k1
  k2 = k2
  sn1 = sn1
  sn2 = sn2
  pn = pn
  x = x
  y = y
  Users <- MCUsers
  KeyPairs = {ann, ben, cat, k1, k2}
  Nonces = {sn1, sn2, pn}
  Contents = {x, y}
  BrokerKeys <- MCBrokerKeys
  SecretNonces <- MCSecretNonces
  PublicNonces = {pn}
  RecipientLists <- MCRecipientLists
  Messages <- MCKinds
  Failed = Failed
  NoChannel = NoChannel
  Nothing = Nothing
CHECK_DEADLOCK FALSE
INVARIANTS
  HashCoversEntries
