SPECIFICATION ReferencesSpec
CONSTANTS
  here = here
  there = there
  s1 = s1
  s2 = s2
  Orbs = {here, there}
  Skeletons = {s1, s2}
  Address <- MCAddress
  Numerals <- MCNumerals
  AppKeys <- MCAppKeys
  Names <- MCNames
  MaxShutdowns <- MCMaxShutdowns
  MaxIds <- MCMaxIds
  NameServiceImpl = NameServiceImpl
  None = None
  Labels <- MCLabels
  NumberOf <- MCNumberOf
  Leading <- MCLeading
  Ipv6 = {"::1"}
  Forms <- MCForms
  Lookups <- MCLookups
INVARIANTS TypeOK ReferenceStaysRight ProperUseIsReachable DecodeIsMeaning
PROPERTIES LookupFindsNamed
SYMMETRY MCSymmetry
