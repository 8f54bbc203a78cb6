SPECIFICATION FormSpec
CONSTANTS
  Letters <- SomeLetters
  Names <- SomeNames
  Longest = 3
  MaxUnsaved = 1
  Ports <- SomePorts
  Rates <- SomeRates
PROPERTIES
  ReceiverGetsTheForm
  NextLaunchTheSame
  LeavingKeepsTheForm
