CONSTANTS a = a
          b = b
          p443 = p443
          x = x
          y = y
          z = z
          Host <- MCHost
          Port <- MCPort
          Path <- MCPath
          DefaultPort = p443
          BadUrl = BadUrl
          NoUrl = NoUrl
          Faults = {"rst", "goaway", "eof", "reset", "epipe"}
          MaxWire = 3
          Guard = 2
          BodySize <- MCBodySize
          Matches <- MCMatches
          Encoded <- MCEncoded
          Pieces <- MCPieces
          Options <- MCOptions
          Redirects <- MCRedirects
SPECIFICATION Spec
CHECK_DEADLOCK FALSE
INVARIANTS TypeOK LinksConserved ActiveIsInFlight PageIsComplete WindowsSearched SeqInStartOrder OwnHost StreamedIsAnswer
PROPERTIES Terminates
