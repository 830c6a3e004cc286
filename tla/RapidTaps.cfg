\* The buttons alone, two reactions and two taps.
CONSTANTS
  Parts = {"buttons"}
  Reporters = {"reporter"}
  Admins = {"paged", "caller"}
  Paged = {"paged"}
  Subjects = {"subject"}
  ReactionKinds = {"LIKE", "LOVE"}
  MaxTaps = 2
  Clickers = {1, 2, 3}
  MaxClicks = 3
  Cookies = {1, 2}
  Asks = {1, 2}
  Urls = {"a"}
  MaxImages = 2
  MaxScrapes = 1
  MaxFiles = 2
  MaxPolls = 1
SPECIFICATION Spec
INVARIANT RapidTapsSettle
CHECK_DEADLOCK FALSE
