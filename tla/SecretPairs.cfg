SPECIFICATION Spec
CONSTANTS
  tls = tls
  creds = creds
  cert = cert
  key = key
  id = id
  idSuffix = idSuffix
  lower = lower
  upper = upper
  server = server
  Absent = Absent
  Default = Default
  Secrets = {tls, creds}
  Keys = {cert, key, server}
  Requests = {r1, r2}
  Changes <- TLSChanges
  KeyVaultKeys <- NoKeys
  Suffixes = {}
  Suffix <- NoSuffix
  Declared <- AsWritten
  Kind <- Kinds
  MaxRevision = 3
CHECK_DEADLOCK FALSE
INVARIANTS StoredTogether AcceptedIsDated
PROPERTIES UpdatedNeverGoesBack ImplementsAtomicSecrets
