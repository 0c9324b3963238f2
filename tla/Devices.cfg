CONSTANT Device <- MCCatalogue
SPECIFICATION MCSpec
INVARIANTS DevicesTypeOK OneRowOpen PrerequisitesEnd TimingKept ConfigConsistent
PROPERTIES RefreshesClosedBanks
