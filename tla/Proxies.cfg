\* One connection of up to three messages under up to two windows; the
\* handshakes; two tests, two packet windows, one death on the host.
SPECIFICATION MCSpec
CONSTANTS
  Protocols <- SupportsProxy
  Scripts <- MCScripts
  MaxPush = 1
  maxRounds = 16
INVARIANTS RulesHaveAWindow AnswersAreRight StopIsNotSilent GatewayIsHonest
PROPERTY ProxiesSettle
CHECK_DEADLOCK FALSE
