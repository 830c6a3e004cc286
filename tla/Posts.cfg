\* One author and post with two requests and two places in the index queue;
\* five rows in pages of two, changed twice, and one page in the cache; a comment
\* and its reply, with two events under way at most.
CONSTANTS
  author = author
  post = post
  r1 = r1
  r2 = r2
  s1 = s1
  s2 = s2
  NoJob = NoJob
  Users = {author}
  Posts = {post}
  Author <- MCAuthor
  Requests = {r1, r2}
  Slots = {s1, s2}
  Attempts = 2
  MaxVersion = 2
  Items = {1, 2, 3, 4, 5}
  PageLimit = 2
  MaxKey = 2
  MaxChanges = 2
  MaxCopies = 1
  Comments = {1, 2}
  ParentOf <- MCParentOf
  RepliesPage = 1
  MaxWire = 2
  MaxRestores = 1
SPECIFICATION Spec
SYMMETRY Symmetry
INVARIANTS TypeOK IndexSettles EndReachesAll NoRowTwice NoCommentTwice DeletedDisappears
PROPERTY HiddenStaysOut
