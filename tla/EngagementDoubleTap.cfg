\* A double tap with two different reactions.
CONSTANTS
  author = author
  reader = reader
  post = post
  r1 = r1
  r2 = r2
  like = like
  love = love
  NoReaction = NoReaction
  Users = {author, reader}
  Posts = {post}
  Author <- MCAuthor
  Types = {like, love}
  Requests = {r1, r2}
  MaxShares = 1
SPECIFICATION Spec
SYMMETRY Symmetry
PROPERTY DoubleTapIdempotent
