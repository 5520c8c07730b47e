----------------------------- MODULE MCModeration -----------------------------
\* Small instances of Moderation for TLC.
EXTENDS Moderation, TLC

Symmetry == Permutations(ReportId) \cup Permutations(AppealId) \cup Permutations(Request)

================================================================================
