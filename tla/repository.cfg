CONSTANTS
  alice = alice
  bob = bob
  yesterday = yesterday
  Null = Null
  Clients <- MCClients
  Ids <- MCIds
  Emails <- MCEmails
  Dates <- MCDates
  Calls <- MCCalls
  Drivers <- MCDrivers
SPECIFICATION Spec
SYMMETRY MCSymmetry
INVARIANTS TypeOK OneInsertWins PagesFitTogether
PROPERTIES RowsChangeOnlyWhenAsked ImplementsPort
