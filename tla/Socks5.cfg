CONSTANTS MaxLength = 3
          Calls <- MCCalls
          Names = {0, 1, 3}
          MaxForward = 2
SPECIFICATION Spec
CHECK_DEADLOCK FALSE
INVARIANTS TypeOK CleanTunnel NoMutualWait SaidInTurn
PROPERTIES Returns
