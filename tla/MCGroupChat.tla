----------------------------- MODULE MCGroupChat -----------------------------
\* Small instances of GroupChat for TLC.
EXTENDS GroupChat, TLC

Symmetry == Permutations(User) \cup Permutations(Conversation) \cup Permutations(Request)

\* A group shares nothing with any other conversation: it is looked at alone, and
\* 1:1 conversations beside each other.
GroupAlone ==
  \A row \in conversations : row.is_group => used = {row.id}

================================================================================
