\* One post, its author and a reader, three comments, two requests.
CONSTANTS
  author = author
  reader = reader
  p1 = p1
  r1 = r1
  r2 = r2
  Admin = Admin
  Users = {author, reader}
  Posts = {p1}
  Author <- MCAuthor
  Requests = {r1, r2}
  MaxComments = 3
SPECIFICATION Spec
SYMMETRY Symmetry
CONSTRAINT FewObstacles
INVARIANTS TypeOK RepliesOneLevel
PROPERTIES RemovalAttributionStable CommentsTallied
