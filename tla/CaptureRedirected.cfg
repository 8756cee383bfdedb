CONSTANTS r1 = r1
          r2 = r2
          Run <- MCRun
          Job <- MCJob
          Concurrent = FALSE
          Batches <- MCBatches
          Hints <- MCHints
          NoUrl = ""
          MaxSuffix = 3
          MaxFailures = 1
SPECIFICATION Spec
CHECK_DEADLOCK FALSE
INVARIANTS PresentIsLeftOver
