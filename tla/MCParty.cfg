CONSTANTS
  Players = {a, b, c, d}
  Parties = {q, r}
SPECIFICATION Spec
SYMMETRY Symmetry
INVARIANTS MembersHoldParty InvitationsAgree NoEmptyParty NobodyStranded
PROPERTIES PartySurvives
CHECK_DEADLOCK FALSE
