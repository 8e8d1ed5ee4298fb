\* One busy and one quiet symbol, both tasks at a time, one page.
SPECIFICATION Spec
CONSTANTS
  busy = busy
  quiet = quiet
  Symbols <- MCSymbols
  KeyOf <- MCKeyOf
  ReadingsOf <- MCReadingsOf
  Primary = busy
  Retirable <- MCRetirable
  Kinds <- MCKinds
  Failing <- MCFailing
  NoOne = NoOne
  MaxConcurrency = 2
INVARIANTS  WorseNeverLooser 
 
