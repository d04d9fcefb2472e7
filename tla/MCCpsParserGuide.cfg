\* The templates of cps_parser (single tags with data up to 4 characters,
\* <c> and <r 5555> among them), checked against AMNEZIA_GUIDE.md's lengths.
CONSTANTS
  DataChars <- NoTabChars
  MaxData = 4
  IntBits = 16
  ReadFails = FALSE
  ParserTemplates <- ResolveTemplates
  Configs <- OneConfig
SPECIFICATION Spec
INVARIANT GuideCpsLengths
