CONSTANTS
  Requests = {r1, r2}
  Nonces = {n1, n2}
  MaxClients = 2
  MaxVerifiers = 3
SPECIFICATION ConnectSpec
INVARIANTS
  TypeOK
  OneClientForStartAndCallback
  VerifierOfTheLink
PROPERTIES
  VerifierSentOnce
