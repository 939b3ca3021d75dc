\* Two packets in, one out.
SPECIFICATION Spec
CONSTANTS
    Ingress <- MCIngress
    Egress <- MCEgress
    Packet <- MCPacket
    RuleSets <- MCRuleSets
    Setups <- MCSetups
    MaxCalls = 1
    MaxBacklog = 1
    MaxTime = 1
INVARIANTS
    FiredInOrder
PROPERTIES
    LinkSpec
    QueueDrains
CHECK_DEADLOCK FALSE
