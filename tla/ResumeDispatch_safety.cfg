SPECIFICATION Machine
CONSTANTS
  Programs <- MCPrograms
  Lowered <- Plan
  Following <- After
INVARIANT ControlSound SlotsLive CopiesOwnScope
PROPERTY Structured EnvironmentExact
