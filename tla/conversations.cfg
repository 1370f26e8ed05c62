CONSTANTS
  Null = Null
  MaxCalls = 4
  MaxSessions = 2
  Requests <- MCRequests
  Claims <- MCClaims
  Writers = {"writes", "owner"}
  Cut <- MCCut
  Expiring = {"old", "reads"}
SPECIFICATION Spec
INVARIANTS CredentialIsRecent WritesAreGranted PreviewStaysInConversation OneSessionPerConversation
CHECK_DEADLOCK FALSE
