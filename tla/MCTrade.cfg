CONSTANTS
  bag = bag
  box = box
  coins = coins
  Players = {a, b, c}
  Items = {bag, box, coins}
  Containers = {bag, box}
  Stackable = {coins}
  Spots = {0, 1, 3}
  Floor = {1}
SPECIFICATION Spec
SYMMETRY Symmetry
INVARIANTS PartnersAgree PromisedOnce InReach
PROPERTIES OfferUnchanged GivenWhole
