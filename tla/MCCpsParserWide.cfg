\* <r N> with N beyond Go's int: 12-bit int, data up to 4 characters.
CONSTANTS
  DataChars <- NoTabChars
  MaxData = 4
  IntBits = 12
  ReadFails = FALSE
  ParserTemplates <- ResolveTemplates
  Configs <- OneConfig
SPECIFICATION Spec
INVARIANT ParserMatchesSpec
