SPECIFICATION Spec
CONSTANTS
  Junk = 127
  Numbers <- MCNumbers
  Payloads <- MCPayloads
INVARIANTS
  WriterExact
  RoundTrip
  ShortRefused
