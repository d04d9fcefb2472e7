\* Junk sizes at the edges Go's int allows: negative and the largest int.
CONSTANTS
  JminValues <- EdgeJmin
  JmaxValues <- EdgeJmax
  GoIntBits = 12
SPECIFICATION Spec
INVARIANT GeneratorMatchesSpec
