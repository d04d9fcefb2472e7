\* Tag data with a tab, up to 3 characters.
CONSTANTS
  DataChars <- AllChars
  MaxData = 3
  IntBits = 16
  ReadFails = FALSE
  ParserTemplates <- ResolveTemplates
  Configs <- OneConfig
SPECIFICATION Spec
INVARIANT ParserMatchesSpec
