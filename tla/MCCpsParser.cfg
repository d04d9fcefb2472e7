\* Every single tag with data up to 4 characters (no tab), and up to three
\* pieces; Go int as 16 bits, far above the <r> values; rand.Read succeeds.
CONSTANTS
  DataChars <- NoTabChars
  MaxData = 4
  IntBits = 16
  ReadFails = FALSE
  ParserTemplates <- ResolveTemplates
  Configs <- OneConfig
SPECIFICATION Spec
INVARIANT ParserMatchesSpec
