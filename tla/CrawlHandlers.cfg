SPECIFICATION FairSpec
CONSTANTS
  ann = ann
  bob = bob
  Handlers = {h1, h2}
  Slots = 1
  MaxRate = 4
  MaxTries = 2
  Names = {ann, bob}
  None = None
  Answers <- MCAnswers
INVARIANTS TypeOK SlotsConserved
PROPERTIES NothingForgotten HandlersEnd
