CONSTANTS a = a
          b = b
          p443 = p443
          x = x
          y = y
          z = z
          Host <- MCHost
          Port <- MCPort
          Path <- MCPath
          DefaultPort = p443
          BadUrl = BadUrl
          NoUrl = NoUrl
          Faults = {}
          MaxWire = 2
          Guard = 2
          BodySize <- MCBodySize
          Matches <- MCMatches
          Encoded <- MCHome
          Pieces <- MCPieces
          Options <- MCPlain
          Redirects <- MCRedirects
SPECIFICATION Spec
CHECK_DEADLOCK FALSE
INVARIANTS EveryLinkFound
