SPECIFICATION Spec
CONSTANTS
  Item = {clip}
  User = {ann}
  Comment = {c1, c2, c3}
  NoComment = NoComment
  Request = {r1, r2}
SYMMETRY Ids
INVARIANTS CountersExact CommentsCounted LikeXorDislike
