CONSTANTS a = a
          b = b
          p443 = p443
          p8443 = p8443
          x = x
          y = y
          Host <- MCHost
          Port <- MCPort
          Path <- MCPath
          DefaultPort = p443
          BadUrl = BadUrl
          NoUrl = NoUrl
          Faults = {"reset"}
          MaxWire = 2
          Options <- MCTriple
          Redirects <- MCRedirects
SPECIFICATION Spec
CHECK_DEADLOCK FALSE
PROPERTIES NoRequestOnBroken
