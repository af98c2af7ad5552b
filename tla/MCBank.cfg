CONSTANTS
  seller = seller
  buyer = buyer
  Players <- MCPlayers
  Wealth <- MCWealth
  GuildMembers <- MCMembers
  Treasury = 1
  HouseOwner = buyer
  HouseItems <- MCHouseItems
  MaxUnsaved = 2
  Scopes <- MCScopes
  Prices = {1}
  Amounts = {1, 2}
  Fees = {1}
  MaxOffers = 1
  MaxId = 1
  MaxChecks = 2
  MaxCrashes = 1
  MaxRefusals = 2
SPECIFICATION BankSpec
INVARIANTS BankTypeOK 
PROPERTIES  ExpiredLeave
