CONSTANTS
  u1 = u1
  u2 = u2
  a = a
  Publishers = {u1, u2}
  Readers = {r1}
  Payloads = {a, b}
  Before = Before
  Attempts = 2
  None = None
SPECIFICATION RaceSpec
INVARIANTS NoFalseAlarm PublishersAreUndisturbed
PROPERTIES SuccessIsSettled WriteOnce Termination
