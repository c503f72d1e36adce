CONSTANTS
  LimbDigits = 2  BASE = 100  INT_2_16 = 24  INT_2_21 = 192  NumberDigits = 5
  ExpRange = 64  EXP_BIAS = 32
  maxDecimalMantissaLen = 9  maxFixedMantissaLen = 10  MAX_DECIMAL_LENGTH = 10
  HOURS = 2  MINUTES = 3  SECONDS = 4  TICKS = 10
  Kinds = {"integers", "decimals", "fixed", "dates", "bytes", "flags", "vectors", "rows"}
  Statements <- MCStatements
  Normalises = TRUE
SPECIFICATION ValuesSpec
CHECK_DEADLOCK FALSE
INVARIANTS ReadsWhatWasWritten RefusesMisfits
