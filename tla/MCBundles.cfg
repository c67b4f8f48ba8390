CONSTANTS
  Unset = Unset
  Archive <- MCArchive
  Limits <- MCLimits
  DefaultLimits <- MCDefaultLimits
  Largest = 7
  PyodideVersion = "314"
  ProfileName = {"default", "blas"}
  Directory = {"d"}
  Inline <- MCInline
  Dotted <- MCDotted
  FileOf <- MCFileOf
  Descriptor <- MCDescriptor
  Override = 3
  PathBytes <- MCPathBytes
  LengthBytes <- MCLengthBytes
  DataBytes <- MCDataBytes
  MaxBundles = 2
SPECIFICATION BundlesSpec
INVARIANTS WithinLimits SameFingerprintSameBundle InlineIsImportable HotIsCold RunsOnRequestedProfile
CHECK_DEADLOCK FALSE
