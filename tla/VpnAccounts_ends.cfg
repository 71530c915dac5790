CONSTANTS
  Calls = {c1, c2}
  m = m
  a = a
  g = g
  Names = {a}
  Managers = {m}
  NoOwner = NoOwner
  NoAccount = NoAccount
  NoList = NoList
  NoId = NoId
  NoInput = NoInput
  NameOwner <- SlugPattern
  Quota <- Ceiling3
  MaxShared = 1
  Inputs <- EndInputs
  Legacy <- RaceLegacy
  MaxInFlight = 2
  MaxFaults = 1
  MaxCrashes = 1
  MaxEdits = 1
SPECIFICATION FairSpec
INVARIANT DeletedForGood
PROPERTY NoStrayAccount
