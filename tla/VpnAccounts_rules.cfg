CONSTANTS
  Calls = {c1, c2}
  m = m
  a = a
  g = g
  Names = {a, g}
  Managers = {m}
  NoOwner = NoOwner
  NoAccount = NoAccount
  NoList = NoList
  NoId = NoId
  NoInput = NoInput
  NameOwner <- SlugPattern
  Quota <- Ceiling3
  MaxShared = 3
  Inputs <- RuleInputs
  Legacy <- RuleLegacy
  MaxInFlight = 2
  MaxFaults = 1
  MaxCrashes = 0
  MaxEdits = 0
SPECIFICATION Spec
SYMMETRY Symmetric
PROPERTIES CreateWithinQuota RaiseWithinQuota RowsStayInStep PatchKeepsOwner
