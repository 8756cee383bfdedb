CONSTANTS NumIp6 = 2
          NumIp4 = 2
SPECIFICATION Spec
CHECK_DEADLOCK FALSE
INVARIANTS TypeOK WinnerUsable NoDoubleClose ThrowsOnlyIfAllFailed NoSocketLeft
PROPERTIES ImplementsRace RaceDelivers
