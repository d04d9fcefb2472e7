\* Every configuration of I1..I5 over five kinds of template.
CONSTANTS
  DataChars <- NoTabChars
  MaxData = 0
  IntBits = 16
  ReadFails = FALSE
  ParserTemplates <- OneTemplate
  Configs <- AllConfigs
SPECIFICATION Spec
INVARIANT ConstructionMatchesSpec
