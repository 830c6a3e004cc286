\* Three followers in pages of two and a post queued from two followers on, two
\* workers; one request and two instances; one counter over two rows; two click
\* logs deleted one at a time; two requests for one address; two notifications with one
\* request for their count and one to mark them; one scrape, one image and one file.
CONSTANTS
  Followers = {1, 2, 3}
  Workers = {1, 2}
  Page = 2
  Threshold = 2
  JobTries = 2
  ListReaders = {1}
  RefreshInstances = {1, 2}
  Items = {1, 2}
  Owners = {1}
  ReconcileInstances = {1, 2}
  MaxDrift = 1
  Logs = {1, 2}
  LogBatch = 1
  Sweepers = {1, 2}
  Callers = {1, 2}
  Tokens = {1, 2, 3, 4, 5}
  MaxAccounts = 1
  MaxExpiries = 1
  Notices = {1, 2}
  CountRequests = {1}
  MaxPushed = 1
  MaxBadge = 2
  MaxMarks = 1
  Urls = {"a"}
  MaxImages = 1
  MaxScrapes = 1
  MaxFiles = 1
  MaxPolls = 1
SPECIFICATION Spec
INVARIANTS TypeOK NotifiedOnce FanoutReaches
PROPERTIES FanoutEnds HiddenDisappears CountersHeal OldRowsGo VerifiedInTheEnd ReadInTheEnd ScrapeEnds
CHECK_DEADLOCK FALSE
