\* Junk sizes in the range the CLI documents (0-1500); Go int as 12 bits.
CONSTANTS
  JminValues <- DocumentedSizes
  JmaxValues <- DocumentedSizes
  GoIntBits = 12
SPECIFICATION Spec
INVARIANT GeneratorMatchesSpec
