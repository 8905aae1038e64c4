SPECIFICATION CachesSpec
CONSTANTS
  Null = Null
  Slots = {s1, s2}
  Groups <- CacheGroups
  Users = {u1}
  Lag = 1
  Addresses = {a1}
  FarAway = 769
  LongAfter = 60
  Offsets = {0, 20}
  AlertWindow = 144
SYMMETRY Symmetry
INVARIANT CachesOK
PROPERTIES AnswersAreRecent ServedUrlWorks NominatimSpaced ServedWeatherIsFresh
  PromisedForecastComes
CHECK_DEADLOCK FALSE
