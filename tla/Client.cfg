\* A reporter, an administrator with the page and one without, and a subject of each
\* kind; two reactions and three taps; three requests to a link; two session
\* tokens and two questions who the viewer is; a link, two images, two files, a scrape.
CONSTANTS
  Parts = {"moderation", "buttons", "clicks", "signin", "create"}
  Reporters = {"reporter"}
  Admins = {"paged", "caller"}
  Paged = {"paged"}
  Subjects = {"subject"}
  ReactionKinds = {"LIKE", "LOVE"}
  MaxTaps = 3
  Clickers = {1, 2, 3}
  MaxClicks = 3
  Cookies = {1, 2}
  Asks = {1, 2}
  Urls = {"a"}
  MaxImages = 2
  MaxScrapes = 1
  MaxFiles = 2
  MaxPolls = 1
SPECIFICATION Spec
INVARIANTS TypeOK QueueDrains ButtonSettles ClicksOncePerHour SignedInShown ImagesWithinLimit
PROPERTY DecisionsStand
\* A viewer stops after MaxTaps taps.
CHECK_DEADLOCK FALSE
