\* One to three samples, six packets that reach the sockets: a late or repeated
\* position can meet the two samples after its own.  The probe ends.
SPECIFICATION ProbeSpec
CONSTANTS
  DefaultSamples = 2
  Settings <- SmallSettings
  MaxArrivals = 6
  None = None
INVARIANTS ProbeTypeOK OwnAnswers Accounted SummaryInside
PROPERTIES ProbeEnds
CHECK_DEADLOCK FALSE
