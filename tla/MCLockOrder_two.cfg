SPECIFICATION OrderSpec
CONSTANTS
  Proc = {h1, h2}
  MaxDepth = 3
  Key = {1, 2, 11, 21, 31}
  Orgs = {1, 2}
  Apps = {11}
  Handles = {21}
  Creators = {31}
  NoCall = none
  NoKey = nokey
  Call <- MCCall
PROPERTIES
  EveryHandlerReturns
