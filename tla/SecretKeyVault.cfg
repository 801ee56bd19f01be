SPECIFICATION Spec
CONSTANTS
  tls = tls
  creds = creds
  cert = cert
  key = key
  id = id
  idSuffix = idSuffix
  lower = lower
  upper = upper
  server = server
  Absent = Absent
  Default = Default
  Secrets = {creds}
  Keys = {id}
  Requests = {r1}
  Changes <- VaultChanges
  KeyVaultKeys = {id}
  Suffixes = {idSuffix}
  Suffix <- VaultSuffix
  Declared <- AsWritten
  Kind <- Kinds
  MaxRevision = 3
CHECK_DEADLOCK FALSE
INVARIANTS AcceptedIsDated
