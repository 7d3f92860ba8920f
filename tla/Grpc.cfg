SPECIFICATION FairSpec
CONSTANT MaxEvents = 3
INVARIANTS TypeOK NoSpuriousDisconnect AtMostOneLateWrite
PROPERTIES NeverReconnected DeadCallEndsClient
