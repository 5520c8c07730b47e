------------------------------ MODULE Moderation ------------------------------
(***************************************************************************)
(* Reports, takedowns, an author's own deletes, and appeals                *)
(* (moderationService.ts, reportService.ts, appealService.ts, and          *)
(* deleteVideo and deletePost of the services of content).                 *)
(*                                                                         *)
(* A target is a piece of content (a video or a post: the code is the      *)
(* same) or an account; it is down when its deleted_at is set or its       *)
(* is_active is not. A moderator's call is one transaction: its reads take *)
(* no lock, its first write holds the row to the commit. An author's       *)
(* delete is a read and two writes of their own. Sequelize writes only     *)
(* what differs from the row it read.                                      *)
(*                                                                         *)
(* Left out: comments, which a moderator deletes for good (Engagement has  *)
(* it), notes, and the lists moderators read. The variables from           *)
(* `takedowns` on are history.                                             *)
(***************************************************************************)
EXTENDS Integers, FiniteSets

CONSTANTS
  Content,     \* videos and posts
  Account,     \* users
  Reporter,    \* those who report
  ReportId,    \* ids of reports; bounds how many are ever filed
  AppealId,    \* ids of appeals; bounds how many are ever filed
  MaxReports,  \* MAX_REPORTS_PER_WINDOW
  Request,     \* handlers that may be in flight at a time
  MaxCalls     \* bounds the calls ever made

ASSUME ModerationAssumption ==
  /\ Content \cap Account = {}
  /\ MaxReports \in Nat \ {0}
  /\ MaxCalls \in Nat
  /\ IsFiniteSet(Request) /\ IsFiniteSet(ReportId)

Target == Content \cup Account
DeletedBy == {"nobody", "author", "moderator"}
Report == [reporter : Reporter, target : Target, status : {"pending", "dismissed", "actioned"},
           recent : BOOLEAN]
Appeal == [target : Target, status : {"pending", "granted", "denied"}]
NoRow == [gone |-> TRUE]

Idle == [pc |-> "idle"]
Handler ==
  {Idle}
    \cup [pc : {"report"}, reporter : Reporter, target : Target]
    \cup [pc : {"resolve"}, target : Target, action : {"dismiss", "take_down"}, finds : BOOLEAN]
    \cup [pc : {"held"}, target : Target]
    \cup [pc : {"delete"}, target : Content, stamps : BOOLEAN]
    \cup [pc : {"stamped"}, target : Content]
    \cup [pc : {"appeal"}, target : Target]
    \cup [pc : {"review"}, appeal : AppealId, grant : BOOLEAN]
    \cup [pc : {"judged"}, appeal : AppealId, changes : BOOLEAN, clears : BOOLEAN]
    \cup [pc : {"restoring"}, appeal : AppealId, clears : BOOLEAN]

VARIABLES
  down,        \* targets that are deleted or suspended
  deleted_by,  \* of each piece of content
  reports,     \* the rows of Report
  appeals,     \* the rows of Appeal
  req,         \* the handlers in flight
  calls,       \* how many calls were made
  takedowns,   \* history: content a moderator took down and nobody restored
  overlapped,  \* history: those whose author was deleting it when they did
  withdrawn,   \* history: content its author took down, and no moderator after
  contested,   \* history: targets two appeals, or two reviews of one appeal, crossed over
  verdicts,    \* history: <<appeal, granted or not>> of reviews that committed
  rivals,      \* history: appeals two moderators reviewed at a time
  doubled      \* history: <<reporter, target>> of reports that were filed at a time

rows == <<down, deleted_by>>
cases == <<contested, verdicts, rivals>>
removals == <<takedowns, overlapped, withdrawn>>
vars == <<rows, reports, appeals, req, calls, removals, cases, doubled>>

Goto(r, h) == req' = [req EXCEPT ![r] = h]
Call(r) == req[r] = Idle /\ calls < MaxCalls /\ calls' = calls + 1

Filed(i) == reports[i] # NoRow
Pending(i) == Filed(i) /\ reports[i].status = "pending"
OpenAppeal(a) == appeals[a] # NoRow /\ appeals[a].status = "pending"
TargetOf(a) == appeals[a].target

\* A transaction that has written a row holds it.
Held(t) ==
  \E r \in Request :
    \/ req[r].pc = "held" /\ req[r].target = t
    \/ req[r].pc = "restoring" /\ TargetOf(req[r].appeal) = t

Others(r, pc) == {s \in Request \ {r} : req[s].pc = pc}

--------------------------------------------------------------------------------
(* createReport *)

By(u) == {i \in ReportId : Filed(i) /\ reports[i].reporter = u}
Recent(u) == {i \in By(u) : reports[i].recent}

\* The two checks: what is pending, and how many in the window.
FileReport(r, u, t) ==
  /\ Call(r)
  /\ ~ \E i \in By(u) : Pending(i) /\ reports[i].target = t
  /\ Cardinality(Recent(u)) < MaxReports
  /\ Goto(r, [pc |-> "report", reporter |-> u, target |-> t])
  /\ doubled' = IF \E s \in Others(r, "report") : req[s].reporter = u /\ req[s].target = t
                THEN doubled \cup {<<u, t>>} ELSE doubled
  /\ UNCHANGED <<rows, reports, appeals, removals, cases>>

InsertReport(r, i) ==
  /\ req[r].pc = "report"
  /\ ~Filed(i)
  /\ reports' = [reports EXCEPT ![i] =
       [reporter |-> req[r].reporter, target |-> req[r].target, status |-> "pending", recent |-> TRUE]]
  /\ Goto(r, Idle)
  /\ UNCHANGED <<rows, appeals, calls, removals, cases, doubled>>

\* A report leaves the window.
WindowPasses(i) ==
  /\ Filed(i) /\ reports[i].recent
  /\ reports' = [reports EXCEPT ![i].recent = FALSE]
  /\ UNCHANGED <<rows, appeals, req, calls, removals, cases, doubled>>

--------------------------------------------------------------------------------
(* resolveTarget *)

\* The read of the target: nothing of it is written where it is down already.
Resolve(r, t, action) ==
  /\ Call(r)
  /\ Goto(r, [pc |-> "resolve", target |-> t, action |-> action,
              finds |-> action = "take_down" /\ t \notin down])
  /\ UNCHANGED <<rows, reports, appeals, removals, cases, doubled>>

\* The first write of a takedown, deleted_by or is_active.
TakeHold(r) ==
  /\ req[r].pc = "resolve" /\ req[r].finds
  /\ ~Held(req[r].target)
  /\ Goto(r, [pc |-> "held", target |-> req[r].target])
  /\ UNCHANGED <<rows, reports, appeals, calls, removals, cases, doubled>>

Close(t, status) ==
  reports' = [i \in ReportId |->
    IF Pending(i) /\ reports[i].target = t THEN [reports[i] EXCEPT !.status = status]
    ELSE reports[i]]

Deleting(c) == \E s \in Request : req[s].pc \in {"delete", "stamped"} /\ req[s].target = c

\* Mutant: the destroy comes without the stamp.
CommitTakedown_Unstamped(r) ==
  LET t == req[r].target IN
  /\ req[r].pc = "held"
  /\ down' = down \cup {t}
  /\ takedowns' = takedowns \cup ({t} \cap Content)
  /\ overlapped' = IF Deleting(t) THEN overlapped \cup {t} ELSE overlapped \ {t}
  /\ withdrawn' = withdrawn \ {t}
  /\ Close(t, "actioned")
  /\ Goto(r, Idle)
  /\ UNCHANGED <<deleted_by, appeals, calls, cases, doubled>>

\* The destroy, the reports and the commit.
CommitTakedown(r) ==
  LET t == req[r].target IN
  /\ req[r].pc = "held"
  /\ down' = down \cup {t}
  /\ deleted_by' = [c \in Content |-> IF c = t THEN "moderator" ELSE deleted_by[c]]
  /\ takedowns' = takedowns \cup ({t} \cap Content)
  /\ overlapped' = IF Deleting(t) THEN overlapped \cup {t} ELSE overlapped \ {t}
  /\ withdrawn' = withdrawn \ {t}
  /\ Close(t, "actioned")
  /\ Goto(r, Idle)
  /\ UNCHANGED <<appeals, calls, cases, doubled>>

\* A dismissal, or a takedown that found nothing to take down.
CommitReports(r) ==
  /\ req[r].pc = "resolve" /\ ~req[r].finds
  /\ Close(req[r].target, IF req[r].action = "dismiss" THEN "dismissed" ELSE "actioned")
  /\ Goto(r, Idle)
  /\ UNCHANGED <<rows, appeals, calls, removals, cases, doubled>>

--------------------------------------------------------------------------------
(* deleteVideo, deletePost *)

Delete(r, c) ==
  /\ Call(r)
  /\ c \notin down
  /\ Goto(r, [pc |-> "delete", target |-> c, stamps |-> deleted_by[c] # "author"])
  /\ UNCHANGED <<rows, reports, appeals, removals, cases, doubled>>

\* By key: the row may be down by now. One that was read stamped is not written.
StampAuthor(r) ==
  LET c == req[r].target IN
  /\ req[r].pc = "delete"
  /\ IF req[r].stamps
     THEN ~Held(c) /\ deleted_by' = [deleted_by EXCEPT ![c] = "author"]
     ELSE UNCHANGED deleted_by
  /\ Goto(r, [pc |-> "stamped", target |-> c])
  /\ UNCHANGED <<down, reports, appeals, calls, removals, cases, doubled>>

DestroyOwn(r) ==
  LET c == req[r].target IN
  /\ req[r].pc = "stamped"
  /\ ~Held(c)
  /\ down' = down \cup {c}
  /\ withdrawn' = IF c \in down THEN withdrawn ELSE withdrawn \cup {c}
  /\ Goto(r, Idle)
  /\ UNCHANGED <<deleted_by, reports, appeals, calls, takedowns, overlapped, cases, doubled>>

--------------------------------------------------------------------------------
(* createAppeal, createSuspensionAppeal *)

Appealable(t) == t \in down /\ (t \in Content => deleted_by[t] = "moderator")

\* Mutant: only content that was restored is not appealed.
FileAppeal_Again(r, t) ==
  /\ Call(r)
  /\ Appealable(t)
  /\ Goto(r, [pc |-> "appeal", target |-> t])
  /\ contested' = IF \E s \in Others(r, "appeal") : req[s].target = t
                  THEN contested \cup {t} ELSE contested
  /\ UNCHANGED <<rows, reports, appeals, removals, verdicts, rivals, doubled>>

\* Mutant: an author's own delete can be appealed.
FileAppeal_AnyRemoval(r, t) ==
  /\ Call(r)
  /\ t \in down
  /\ ~ \E a \in AppealId : OpenAppeal(a) /\ TargetOf(a) = t
  /\ Goto(r, [pc |-> "appeal", target |-> t])
  /\ contested' = IF \E s \in Others(r, "appeal") : req[s].target = t
                  THEN contested \cup {t} ELSE contested
  /\ UNCHANGED <<rows, reports, appeals, removals, verdicts, rivals, doubled>>

\* The reads: the target is down by a moderator, and no appeal is pending.
FileAppeal(r, t) ==
  /\ Call(r)
  /\ Appealable(t)
  /\ ~ \E a \in AppealId : OpenAppeal(a) /\ TargetOf(a) = t
  /\ Goto(r, [pc |-> "appeal", target |-> t])
  /\ contested' = IF \E s \in Others(r, "appeal") : req[s].target = t
                  THEN contested \cup {t} ELSE contested
  /\ UNCHANGED <<rows, reports, appeals, removals, verdicts, rivals, doubled>>

InsertAppeal(r, a) ==
  /\ req[r].pc = "appeal"
  /\ appeals[a] = NoRow
  /\ appeals' = [appeals EXCEPT ![a] = [target |-> req[r].target, status |-> "pending"]]
  /\ Goto(r, Idle)
  /\ UNCHANGED <<rows, reports, calls, removals, cases, doubled>>

--------------------------------------------------------------------------------
(* resolveAppeal *)

Reviewing(s, a) == req[s].pc \in {"review", "judged", "restoring"} /\ req[s].appeal = a

\* Mutant: an appeal that was denied can still be granted.
Review_Denied(r, a, grant) ==
  LET rival == \E s \in Request \ {r} : Reviewing(s, a) IN
  /\ Call(r)
  /\ appeals[a] # NoRow
  /\ OpenAppeal(a) \/ (appeals[a].status = "denied" /\ grant)
  /\ Goto(r, [pc |-> "review", appeal |-> a, grant |-> grant])
  /\ rivals' = IF rival THEN rivals \cup {a} ELSE rivals
  /\ contested' = IF rival THEN contested \cup {TargetOf(a)} ELSE contested
  /\ UNCHANGED <<rows, reports, appeals, removals, verdicts, doubled>>

\* The read of the appeal, before the transaction.
Review(r, a, grant) ==
  LET rival == \E s \in Request \ {r} : Reviewing(s, a) IN
  /\ Call(r)
  /\ OpenAppeal(a)
  /\ Goto(r, [pc |-> "review", appeal |-> a, grant |-> grant])
  /\ rivals' = IF rival THEN rivals \cup {a} ELSE rivals
  /\ contested' = IF rival THEN contested \cup {TargetOf(a)} ELSE contested
  /\ UNCHANGED <<rows, reports, appeals, removals, verdicts, doubled>>

\* A grant reads the target: one that is up is left alone.
JudgeTarget(r) ==
  LET t == TargetOf(req[r].appeal) IN
  /\ req[r].pc = "review" /\ req[r].grant
  /\ Goto(r, [pc |-> "judged", appeal |-> req[r].appeal, changes |-> t \in down,
              clears |-> t \in Content /\ deleted_by[t] # "nobody"])
  /\ UNCHANGED <<rows, reports, appeals, calls, removals, cases, doubled>>

\* Its first write, deleted_at or is_active.
HoldRestored(r) ==
  /\ req[r].pc = "judged" /\ req[r].changes
  /\ ~Held(TargetOf(req[r].appeal))
  /\ Goto(r, [pc |-> "restoring", appeal |-> req[r].appeal, clears |-> req[r].clears])
  /\ UNCHANGED <<rows, reports, appeals, calls, removals, cases, doubled>>

\* The appeal's row, whatever it says by now.
Decide(r, granted) ==
  LET a == req[r].appeal IN
  /\ appeals' = [appeals EXCEPT ![a].status = IF granted THEN "granted" ELSE "denied"]
  /\ verdicts' = verdicts \cup {<<a, granted>>}
  /\ Goto(r, Idle)

\* The rest of a grant that restores.
CommitRestore(r) ==
  LET t == TargetOf(req[r].appeal) IN
  /\ req[r].pc = "restoring"
  /\ down' = down \ {t}
  /\ deleted_by' = [c \in Content |-> IF c = t /\ req[r].clears THEN "nobody" ELSE deleted_by[c]]
  /\ takedowns' = takedowns \ {t}
  /\ Decide(r, TRUE)
  /\ UNCHANGED <<reports, calls, overlapped, withdrawn, contested, rivals, doubled>>

CommitDecision(r) ==
  /\ \/ req[r].pc = "review" /\ ~req[r].grant /\ Decide(r, FALSE)
     \/ req[r].pc = "judged" /\ ~req[r].changes /\ Decide(r, TRUE)
  /\ UNCHANGED <<rows, reports, calls, removals, contested, rivals, doubled>>

--------------------------------------------------------------------------------

\* A handler dies or a statement throws: a transaction is rolled back, an author's
\* stamp stays.
Abort(r) ==
  /\ req[r] # Idle
  /\ Goto(r, Idle)
  /\ UNCHANGED <<rows, reports, appeals, calls, removals, cases, doubled>>

Init ==
  /\ down = {}
  /\ deleted_by = [c \in Content |-> "nobody"]
  /\ reports = [i \in ReportId |-> NoRow]
  /\ appeals = [a \in AppealId |-> NoRow]
  /\ req = [r \in Request |-> Idle]
  /\ calls = 0
  /\ takedowns = {}
  /\ overlapped = {}
  /\ withdrawn = {}
  /\ contested = {}
  /\ verdicts = {}
  /\ rivals = {}
  /\ doubled = {}

\* The routes of users.
BeginUser(r) ==
  \/ \E u \in Reporter, t \in Target : FileReport(r, u, t)
  \/ \E c \in Content : Delete(r, c)
  \/ \E t \in Target : FileAppeal(r, t)

\* The routes under /admin.
BeginAdmin(r) ==
  \/ \E t \in Target, action \in {"dismiss", "take_down"} : Resolve(r, t, action)
  \/ \E a \in AppealId, grant \in BOOLEAN : Review(r, a, grant)

Continue(r) ==
  \/ \E i \in ReportId : InsertReport(r, i)
  \/ TakeHold(r)
  \/ CommitTakedown(r)
  \/ CommitReports(r)
  \/ StampAuthor(r)
  \/ DestroyOwn(r)
  \/ \E a \in AppealId : InsertAppeal(r, a)
  \/ JudgeTarget(r)
  \/ HoldRestored(r)
  \/ CommitRestore(r)
  \/ CommitDecision(r)
  \/ Abort(r)

Next ==
  \/ \E i \in ReportId : WindowPasses(i)
  \/ \E r \in Request : BeginUser(r) \/ BeginAdmin(r) \/ Continue(r)

Spec == Init /\ [][Next]_vars

--------------------------------------------------------------------------------
(* Properties *)

\* Every variable and handler keeps its shape, and an appeal under review has its
\* row (resolveAppeal).
TypeOK ==
  /\ down \subseteq Target
  /\ deleted_by \in [Content -> DeletedBy]
  /\ reports \in [ReportId -> Report \cup {NoRow}]
  /\ appeals \in [AppealId -> Appeal \cup {NoRow}]
  /\ req \in [Request -> Handler]
  /\ calls \in 0 .. MaxCalls
  /\ \A r \in Request :
       req[r].pc \in {"review", "judged", "restoring"} => appeals[req[r].appeal] # NoRow

\* What a moderator took down is down and can be appealed, unless its author's own
\* delete was in flight when they did: then it may read as the author's
\* (resolveTarget, deleteVideo, deletePost).
TakedownAppealable ==
  \A c \in takedowns : c \in down /\ (deleted_by[c] = "moderator" \/ c \in overlapped)

\* Content its author deleted, and no moderator after them, stays deleted: an appeal
\* brings back what a moderator took down and nothing else, unless two appeals of it,
\* or two reviews of one, were under way at a time (createAppeal, resolveAppeal). An
\* author's delete that lands on what a moderator took down meanwhile does not count:
\* the takedown stands, and an appeal of it may bring the content back.
AuthorsWordStands == withdrawn \ contested \subseteq down

\* An appeal is decided one way, the way its row says, unless two moderators had it
\* before them at a time: the check of its status is outside the transaction that
\* decides it (resolveAppeal).
OneVerdict ==
  \A v \in verdicts :
    v[1] \notin rivals =>
      /\ appeals[v[1]].status = IF v[2] THEN "granted" ELSE "denied"
      /\ <<v[1], ~v[2]>> \notin verdicts

\* A target has one open appeal, a user one open report of it, unless two were filed
\* at a time; and a user's reports in the window pass their limit by no more than
\* those that were counted together (createAppeal, createReport).
OneOpenCase ==
  /\ \A a, b \in AppealId :
       OpenAppeal(a) /\ OpenAppeal(b) /\ TargetOf(a) = TargetOf(b) =>
         a = b \/ TargetOf(a) \in contested
  /\ \A i, j \in ReportId :
       Pending(i) /\ Pending(j) /\ reports[i].reporter = reports[j].reporter
         /\ reports[i].target = reports[j].target =>
           i = j \/ <<reports[i].reporter, reports[i].target>> \in doubled
  /\ \A u \in Reporter : Cardinality(Recent(u)) <= MaxReports + Cardinality(Request) - 1

================================================================================
