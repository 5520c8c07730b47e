--------------------------- MODULE ModerationProofs ---------------------------
(***************************************************************************)
(* Theorems about module Moderation, for any content, accounts, reports    *)
(* and appeals, and any number of handlers in flight.                      *)
(*                                                                         *)
(* As long as no two of them cross, a target has at most one appeal, on    *)
(* its way or open, and one review of it; while it has one it is down, so  *)
(* its author's delete finds nothing to withdraw, and the restore that     *)
(* ends it clears the stamp, so no removal but a moderator's can be        *)
(* appealed next.                                                          *)
(***************************************************************************)
EXTENDS Moderation, FiniteSetTheorems, TLAPS

HistoryOK ==
  /\ takedowns \subseteq Content
  /\ withdrawn \subseteq Content
  /\ verdicts \subseteq AppealId \X BOOLEAN
  /\ rivals \subseteq AppealId

\* What the author's delete has yet to stamp was taken down under its eyes.
DeletesOverlap ==
  \A r \in Request :
    req[r].pc = "delete" /\ req[r].target \in takedowns => req[r].target \in overlapped

InAppeal(r, t) == req[r].pc = "appeal" /\ req[r].target = t
OpenFor(a, t) == OpenAppeal(a) /\ TargetOf(a) = t
UnderAppeal(t) == (\E r \in Request : InAppeal(r, t)) \/ (\E a \in AppealId : OpenFor(a, t))

OneAppeal ==
  \A t \in Target \ contested :
    /\ \A r, s \in Request : InAppeal(r, t) /\ InAppeal(s, t) => r = s
    /\ \A r \in Request, a \in AppealId : ~(InAppeal(r, t) /\ OpenFor(a, t))
    /\ \A a, b \in AppealId : OpenFor(a, t) /\ OpenFor(b, t) => a = b

OneReview ==
  \A r \in Request, a \in AppealId \ rivals :
    Reviewing(r, a) => OpenAppeal(a) /\ \A s \in Request : Reviewing(s, a) => s = r

RivalsContested == \A a \in rivals : appeals[a] # NoRow /\ TargetOf(a) \in contested

StaysDown ==
  \A t \in Target \ contested :
    UnderAppeal(t) =>
      /\ t \in down
      /\ t \in Content => t \notin withdrawn /\ deleted_by[t] # "nobody"

GrantsClear ==
  \A r \in Request :
    req[r].pc \in {"judged", "restoring"} /\ TargetOf(req[r].appeal) \in Content \ contested =>
      req[r].clears

ModeratorsDown == \A c \in Content \ contested : deleted_by[c] = "moderator" => c \in down

WithdrawnDown == \A c \in withdrawn \ contested : c \in down /\ deleted_by[c] # "moderator"

VerdictsKept ==
  \A v \in verdicts :
    appeals[v[1]] # NoRow
      /\ (v[1] \notin rivals => appeals[v[1]].status = IF v[2] THEN "granted" ELSE "denied")

AppealsInv ==
  /\ HistoryOK
  /\ TakedownAppealable
  /\ DeletesOverlap
  /\ OneAppeal
  /\ OneReview
  /\ RivalsContested
  /\ StaysDown
  /\ GrantsClear
  /\ ModeratorsDown
  /\ WithdrawnDown
  /\ VerdictsKept

Filing(u) == {r \in Request : req[r].pc = "report" /\ req[r].reporter = u}
FilingOf(r, u, t) == req[r].pc = "report" /\ req[r].reporter = u /\ req[r].target = t
PendingOf(i, u, t) == Pending(i) /\ reports[i].reporter = u /\ reports[i].target = t

OneReport ==
  \A u \in Reporter, t \in Target : <<u, t>> \notin doubled =>
    /\ \A r, s \in Request : FilingOf(r, u, t) /\ FilingOf(s, u, t) => r = s
    /\ \A r \in Request, i \in ReportId : ~(FilingOf(r, u, t) /\ PendingOf(i, u, t))
    /\ \A i, j \in ReportId : PendingOf(i, u, t) /\ PendingOf(j, u, t) => i = j

WindowBounded ==
  \A u \in Reporter :
    Cardinality(Recent(u)) + Cardinality(Filing(u)) <= MaxReports + Cardinality(Request) - 1

ReportsInv == OneReport /\ WindowBounded

--------------------------------------------------------------------------------
(* Types *)

LEMMA HandlerFields ==
  ASSUME NEW h \in Handler
  PROVE  /\ h.pc \in {"idle", "report", "resolve", "held", "delete", "stamped", "appeal",
                      "review", "judged", "restoring"}
         /\ h.pc = "idle" => h = Idle
         /\ h.pc = "report" => h.reporter \in Reporter /\ h.target \in Target
         /\ h.pc = "resolve" =>
              h.target \in Target /\ h.action \in {"dismiss", "take_down"} /\ h.finds \in BOOLEAN
         /\ h.pc \in {"held", "appeal"} => h.target \in Target
         /\ h.pc = "delete" => h.target \in Content /\ h.stamps \in BOOLEAN
         /\ h.pc = "stamped" => h.target \in Content
         /\ h.pc = "review" => h.appeal \in AppealId /\ h.grant \in BOOLEAN
         /\ h.pc = "judged" =>
              h.appeal \in AppealId /\ h.changes \in BOOLEAN /\ h.clears \in BOOLEAN
         /\ h.pc = "restoring" => h.appeal \in AppealId /\ h.clears \in BOOLEAN
BY DEF Handler, Idle

LEMMA HandlerShapes ==
  /\ Idle \in Handler /\ Idle.pc = "idle"
  /\ \A u \in Reporter, t \in Target : [pc |-> "report", reporter |-> u, target |-> t] \in Handler
  /\ \A t \in Target, a \in {"dismiss", "take_down"}, f \in BOOLEAN :
       [pc |-> "resolve", target |-> t, action |-> a, finds |-> f] \in Handler
  /\ \A t \in Target : [pc |-> "held", target |-> t] \in Handler
  /\ \A c \in Content, s \in BOOLEAN : [pc |-> "delete", target |-> c, stamps |-> s] \in Handler
  /\ \A c \in Content : [pc |-> "stamped", target |-> c] \in Handler
  /\ \A t \in Target : [pc |-> "appeal", target |-> t] \in Handler
  /\ \A a \in AppealId, g \in BOOLEAN : [pc |-> "review", appeal |-> a, grant |-> g] \in Handler
  /\ \A a \in AppealId, f \in BOOLEAN, g \in BOOLEAN :
       [pc |-> "judged", appeal |-> a, changes |-> f, clears |-> g] \in Handler
  /\ \A a \in AppealId, g \in BOOLEAN :
       [pc |-> "restoring", appeal |-> a, clears |-> g] \in Handler
BY DEF Handler, Idle

LEMMA GotoReq ==
  ASSUME req \in [Request -> Handler], NEW r \in Request, NEW h \in Handler, Goto(r, h)
  PROVE  /\ req' \in [Request -> Handler]
         /\ req'[r] = h
         /\ \A q \in Request \ {r} : req'[q] = req[q]
BY DEF Goto

Judging == {"review", "judged", "restoring"}

LEMMA RowFields ==
  ASSUME TypeOK
  PROVE  /\ \A i \in ReportId : Filed(i) =>
              /\ reports[i].reporter \in Reporter /\ reports[i].target \in Target
              /\ reports[i].status \in {"pending", "dismissed", "actioned"}
              /\ reports[i].recent \in BOOLEAN
         /\ \A a \in AppealId : appeals[a] # NoRow =>
              /\ appeals[a].target \in Target
              /\ appeals[a].status \in {"pending", "granted", "denied"}
         /\ \A r \in Request : req[r].pc \in Judging =>
              req[r].appeal \in AppealId /\ appeals[req[r].appeal] # NoRow
              /\ TargetOf(req[r].appeal) \in Target
<1>1. \A i \in ReportId : reports[i] \in Report \cup {NoRow}
  BY DEF TypeOK
<1>2. \A a \in AppealId : appeals[a] \in Appeal \cup {NoRow}
  BY DEF TypeOK
<1>3. \A r \in Request : req[r].pc \in Judging => req[r].appeal \in AppealId
  <2> SUFFICES ASSUME NEW r \in Request, req[r].pc \in Judging
               PROVE  req[r].appeal \in AppealId
    OBVIOUS
  <2>1. req[r] \in Handler
    BY DEF TypeOK
  <2>2. QED
    BY <2>1, HandlerFields DEF Judging
<1>4. \A r \in Request : req[r].pc \in Judging => appeals[req[r].appeal] # NoRow
  BY DEF TypeOK, Judging
<1>5. QED
  BY <1>1, <1>2, <1>3, <1>4 DEF Filed, Report, Appeal, TargetOf

\* A step of a handler that leaves no appeal without its row keeps the types.
LEMMA TypeStep ==
  ASSUME TypeOK, NEW r \in Request, NEW h \in Handler, Goto(r, h),
         down' \subseteq Target, deleted_by' \in [Content -> DeletedBy],
         reports' \in [ReportId -> Report \cup {NoRow}],
         appeals' \in [AppealId -> Appeal \cup {NoRow}],
         \A a \in AppealId : appeals[a] # NoRow => appeals'[a] # NoRow,
         h.pc \in Judging => appeals'[h.appeal] # NoRow,
         calls' \in 0 .. MaxCalls
  PROVE  TypeOK'
<1>1. /\ req' \in [Request -> Handler]
      /\ req'[r] = h
      /\ \A q \in Request \ {r} : req'[q] = req[q]
  BY GotoReq DEF TypeOK
<1>2. ASSUME NEW q \in Request, req'[q].pc \in Judging
      PROVE  appeals'[req'[q].appeal] # NoRow
  <2>1. CASE q = r
    BY <1>1, <1>2, <2>1
  <2>2. CASE q # r
    BY <1>1, <1>2, <2>2, RowFields
  <2>3. QED
    BY <2>1, <2>2
<1>3. QED
  BY <1>1, <1>2 DEF TypeOK, Judging

LEMMA CallCounted ==
  ASSUME TypeOK, NEW r \in Request, Call(r)
  PROVE  calls' \in 0 .. MaxCalls /\ req[r].pc = "idle"
BY ModerationAssumption, HandlerShapes DEF TypeOK, Call

LEMMA FileReportTypes ==
  ASSUME TypeOK, NEW r \in Request, NEW u \in Reporter, NEW t \in Target, FileReport(r, u, t)
  PROVE  TypeOK'
<1>1. PICK h \in Handler : h = [pc |-> "report", reporter |-> u, target |-> t]
  BY HandlerShapes
<1>2. Goto(r, h) /\ Call(r) /\ UNCHANGED <<rows, reports, appeals>>
  BY <1>1 DEF FileReport
<1>3. h.pc \notin Judging
  BY <1>1 DEF Judging
<1>4. QED
  BY <1>2, <1>3, CallCounted, TypeStep DEF TypeOK, rows

LEMMA InsertReportTypes ==
  ASSUME TypeOK, NEW r \in Request, NEW i \in ReportId, InsertReport(r, i)
  PROVE  TypeOK'
<1>1. req[r].reporter \in Reporter /\ req[r].target \in Target
  BY HandlerFields DEF InsertReport, TypeOK
<1>2. reports' \in [ReportId -> Report \cup {NoRow}]
  BY <1>1 DEF InsertReport, TypeOK, Report
<1>3. QED
  BY <1>2, HandlerShapes, TypeStep DEF TypeOK, rows, InsertReport, Judging

LEMMA WindowPassesTypes ==
  ASSUME TypeOK, NEW i \in ReportId, WindowPasses(i)
  PROVE  TypeOK'
<1>1. reports[i] \in Report
  BY DEF WindowPasses, TypeOK, Filed
<1>2. reports' \in [ReportId -> Report \cup {NoRow}]
  BY <1>1 DEF WindowPasses, TypeOK, Report
<1>3. QED
  BY <1>2 DEF TypeOK, rows, WindowPasses

LEMMA CloseTypes ==
  ASSUME TypeOK, NEW t, NEW status \in {"dismissed", "actioned"}, Close(t, status)
  PROVE  reports' \in [ReportId -> Report \cup {NoRow}]
<1>1. \A i \in ReportId : reports[i] \in Report \cup {NoRow}
  BY DEF TypeOK
<1>2. \A i \in ReportId : Pending(i) => reports[i] \in Report
  BY <1>1 DEF Pending, Filed
<1>3. \A i \in ReportId : Pending(i) => [reports[i] EXCEPT !.status = status] \in Report
  BY <1>2 DEF Report
<1>4. QED
  BY <1>1, <1>3 DEF Close

LEMMA ResolveTypes ==
  ASSUME TypeOK, NEW r \in Request, NEW t \in Target, NEW action \in {"dismiss", "take_down"},
         Resolve(r, t, action)
  PROVE  TypeOK'
<1>1. PICK h \in Handler : h = [pc |-> "resolve", target |-> t, action |-> action,
                                finds |-> action = "take_down" /\ t \notin down]
  BY HandlerShapes
<1>2. Goto(r, h) /\ Call(r) /\ UNCHANGED <<rows, reports, appeals>>
  BY <1>1 DEF Resolve
<1>3. h.pc \notin Judging
  BY <1>1 DEF Judging
<1>4. QED
  BY <1>2, <1>3, CallCounted, TypeStep DEF TypeOK, rows

LEMMA TakeHoldTypes ==
  ASSUME TypeOK, NEW r \in Request, TakeHold(r)
  PROVE  TypeOK'
<1>1. req[r].target \in Target
  BY HandlerFields DEF TakeHold, TypeOK
<1>2. PICK h \in Handler : h = [pc |-> "held", target |-> req[r].target]
  BY <1>1, HandlerShapes
<1>3. Goto(r, h) /\ UNCHANGED <<rows, reports, appeals, calls>> /\ h.pc \notin Judging
  BY <1>2 DEF TakeHold, Judging
<1>4. QED
  BY <1>3, TypeStep DEF TypeOK, rows

LEMMA CommitTakedownTypes ==
  ASSUME TypeOK, NEW r \in Request, CommitTakedown(r)
  PROVE  TypeOK'
<1>1. req[r].target \in Target
  BY HandlerFields DEF CommitTakedown, TypeOK
<1>2. reports' \in [ReportId -> Report \cup {NoRow}]
  BY CloseTypes DEF CommitTakedown
<1>3. deleted_by' \in [Content -> DeletedBy] /\ down' \subseteq Target
  BY <1>1 DEF CommitTakedown, TypeOK, DeletedBy
<1>4. QED
  BY <1>2, <1>3, HandlerShapes, TypeStep DEF TypeOK, CommitTakedown, Judging

LEMMA CommitReportsTypes ==
  ASSUME TypeOK, NEW r \in Request, CommitReports(r)
  PROVE  TypeOK'
<1>1. reports' \in [ReportId -> Report \cup {NoRow}]
  BY CloseTypes DEF CommitReports
<1>2. QED
  BY <1>1, HandlerShapes, TypeStep DEF TypeOK, rows, CommitReports, Judging

LEMMA DeleteTypes ==
  ASSUME TypeOK, NEW r \in Request, NEW c \in Content, Delete(r, c)
  PROVE  TypeOK'
<1>1. PICK h \in Handler :
        h = [pc |-> "delete", target |-> c, stamps |-> deleted_by[c] # "author"]
  BY HandlerShapes
<1>2. Goto(r, h) /\ Call(r) /\ UNCHANGED <<rows, reports, appeals>>
  BY <1>1 DEF Delete
<1>3. h.pc \notin Judging
  BY <1>1 DEF Judging
<1>4. QED
  BY <1>2, <1>3, CallCounted, TypeStep DEF TypeOK, rows

LEMMA StampAuthorTypes ==
  ASSUME TypeOK, NEW r \in Request, StampAuthor(r)
  PROVE  TypeOK'
<1>1. req[r].target \in Content
  BY HandlerFields DEF StampAuthor, TypeOK
<1>2. PICK h \in Handler : h = [pc |-> "stamped", target |-> req[r].target]
  BY <1>1, HandlerShapes
<1>3. Goto(r, h) /\ UNCHANGED <<down, reports, appeals, calls>> /\ h.pc \notin Judging
  BY <1>2 DEF StampAuthor, Judging
<1>4. deleted_by' \in [Content -> DeletedBy]
  BY DEF StampAuthor, TypeOK, DeletedBy
<1>5. QED
  BY <1>3, <1>4, TypeStep DEF TypeOK

LEMMA DestroyOwnTypes ==
  ASSUME TypeOK, NEW r \in Request, DestroyOwn(r)
  PROVE  TypeOK'
<1>1. req[r].target \in Target
  BY HandlerFields DEF DestroyOwn, TypeOK, Target
<1>2. QED
  BY <1>1, HandlerShapes, TypeStep DEF TypeOK, DestroyOwn, Judging

LEMMA FileAppealTypes ==
  ASSUME TypeOK, NEW r \in Request, NEW t \in Target, FileAppeal(r, t)
  PROVE  TypeOK'
<1>1. PICK h \in Handler : h = [pc |-> "appeal", target |-> t]
  BY HandlerShapes
<1>2. Goto(r, h) /\ Call(r) /\ UNCHANGED <<rows, reports, appeals>>
  BY <1>1 DEF FileAppeal
<1>3. h.pc \notin Judging
  BY <1>1 DEF Judging
<1>4. QED
  BY <1>2, <1>3, CallCounted, TypeStep DEF TypeOK, rows

LEMMA InsertAppealTypes ==
  ASSUME TypeOK, NEW r \in Request, NEW a \in AppealId, InsertAppeal(r, a)
  PROVE  TypeOK'
<1>1. req[r].target \in Target
  BY HandlerFields DEF InsertAppeal, TypeOK
<1>2. appeals' \in [AppealId -> Appeal \cup {NoRow}]
  BY <1>1 DEF InsertAppeal, TypeOK, Appeal
<1>3. \A b \in AppealId : appeals[b] # NoRow => appeals'[b] # NoRow
  BY DEF InsertAppeal, TypeOK
<1>4. QED
  BY <1>2, <1>3, HandlerShapes, TypeStep DEF TypeOK, rows, InsertAppeal, Judging

LEMMA ReviewTypes ==
  ASSUME TypeOK, NEW r \in Request, NEW a \in AppealId, NEW grant \in BOOLEAN,
         Review(r, a, grant)
  PROVE  TypeOK'
<1>1. PICK h \in Handler : h = [pc |-> "review", appeal |-> a, grant |-> grant]
  BY HandlerShapes
<1>2. Goto(r, h) /\ Call(r) /\ UNCHANGED <<rows, reports, appeals>>
  BY <1>1 DEF Review
<1>3. appeals'[h.appeal] # NoRow
  BY <1>1, <1>2 DEF Review, OpenAppeal
<1>4. QED
  BY <1>2, <1>3, CallCounted, TypeStep DEF TypeOK, rows

LEMMA JudgeTargetTypes ==
  ASSUME TypeOK, NEW r \in Request, JudgeTarget(r)
  PROVE  TypeOK'
<1> DEFINE t == TargetOf(req[r].appeal)
           changes == t \in down
           clears == t \in Content /\ deleted_by[t] # "nobody"
           h == [pc |-> "judged", appeal |-> req[r].appeal, changes |-> changes, clears |-> clears]
<1>1. req[r].appeal \in AppealId /\ appeals[req[r].appeal] # NoRow
  BY RowFields DEF JudgeTarget, Judging
<1>2. changes \in BOOLEAN /\ clears \in BOOLEAN
  OBVIOUS
<1>3. Goto(r, h) /\ UNCHANGED <<rows, reports, appeals, calls>> /\ h.appeal = req[r].appeal
  BY DEF JudgeTarget
<1> HIDE DEF changes, clears
<1>4. h \in Handler
  BY <1>1, <1>2, HandlerShapes
<1> HIDE DEF h
<1>5. QED
  BY <1>1, <1>3, <1>4, TypeStep DEF TypeOK, rows

LEMMA HoldRestoredTypes ==
  ASSUME TypeOK, NEW r \in Request, HoldRestored(r)
  PROVE  TypeOK'
<1>1. req[r].appeal \in AppealId /\ appeals[req[r].appeal] # NoRow /\ req[r].clears \in BOOLEAN
  BY RowFields, HandlerFields DEF HoldRestored, Judging, TypeOK
<1>2. PICK h \in Handler :
        h = [pc |-> "restoring", appeal |-> req[r].appeal, clears |-> req[r].clears]
  BY <1>1, HandlerShapes
<1>3. Goto(r, h) /\ UNCHANGED <<rows, reports, appeals, calls>> /\ h.appeal = req[r].appeal
  BY <1>2 DEF HoldRestored
<1>4. QED
  BY <1>1, <1>3, TypeStep DEF TypeOK, rows

LEMMA DecideTypes ==
  ASSUME TypeOK, NEW r \in Request, NEW granted \in BOOLEAN, req[r].pc \in Judging,
         Decide(r, granted), reports' = reports, calls' = calls,
         down' \subseteq Target, deleted_by' \in [Content -> DeletedBy]
  PROVE  TypeOK'
<1> DEFINE a == req[r].appeal
<1>1. a \in AppealId /\ appeals[a] # NoRow
  BY RowFields
<1>2. appeals[a] \in Appeal
  BY <1>1 DEF TypeOK
<1>3. \A s \in {"granted", "denied"} : [appeals[a] EXCEPT !.status = s] \in Appeal
  BY <1>2 DEF Appeal
<1>4. PICK s \in {"granted", "denied"} : appeals' = [appeals EXCEPT ![a].status = s]
  BY DEF Decide
<1>5. appeals' \in [AppealId -> Appeal \cup {NoRow}]
  BY <1>1, <1>3, <1>4 DEF TypeOK
<1>6. \A b \in AppealId : appeals[b] # NoRow => appeals'[b] # NoRow
  <2> SUFFICES ASSUME NEW b \in AppealId, appeals[b] # NoRow
               PROVE  appeals'[b] # NoRow
    OBVIOUS
  <2>1. CASE b = a
    <3>1. appeals'[a] = [appeals[a] EXCEPT !.status = s]
      BY <1>1, <1>4 DEF TypeOK
    <3>2. appeals'[a] \in Appeal
      BY <1>3, <3>1
    <3>3. NoRow \notin Appeal
      BY DEF NoRow, Appeal
    <3>4. QED
      BY <2>1, <3>2, <3>3
  <2>2. CASE b # a
    BY <1>4, <2>2 DEF TypeOK
  <2>3. QED
    BY <2>1, <2>2
<1>7. Goto(r, Idle) /\ Idle \in Handler /\ Idle.pc \notin Judging
  BY HandlerShapes DEF Decide, Judging
<1>8. QED
  BY <1>5, <1>6, <1>7, TypeStep DEF TypeOK

LEMMA CommitRestoreTypes ==
  ASSUME TypeOK, NEW r \in Request, CommitRestore(r)
  PROVE  TypeOK'
<1>1. down' \subseteq Target /\ deleted_by' \in [Content -> DeletedBy]
  BY DEF CommitRestore, TypeOK, DeletedBy
<1>2. QED
  BY <1>1, DecideTypes DEF CommitRestore, Judging

LEMMA CommitDecisionTypes ==
  ASSUME TypeOK, NEW r \in Request, CommitDecision(r)
  PROVE  TypeOK'
<1>1. down' \subseteq Target /\ deleted_by' \in [Content -> DeletedBy]
  BY DEF CommitDecision, TypeOK, rows
<1>2. QED
  BY <1>1, DecideTypes DEF CommitDecision, Judging

LEMMA AbortTypes ==
  ASSUME TypeOK, NEW r \in Request, Abort(r)
  PROVE  TypeOK'
BY HandlerShapes, TypeStep DEF TypeOK, rows, Abort, Judging

LEMMA TypeNext == TypeOK /\ [Next]_vars => TypeOK'
<1> SUFFICES ASSUME TypeOK, [Next]_vars
             PROVE  TypeOK'
  OBVIOUS
<1>1. ASSUME NEW i \in ReportId, WindowPasses(i) PROVE TypeOK'
  BY <1>1, WindowPassesTypes
<1>2. ASSUME NEW r \in Request, BeginUser(r) PROVE TypeOK'
  BY <1>2, FileReportTypes, DeleteTypes, FileAppealTypes DEF BeginUser
<1>3. ASSUME NEW r \in Request, BeginAdmin(r) PROVE TypeOK'
  BY <1>3, ResolveTypes, ReviewTypes DEF BeginAdmin
<1>4. ASSUME NEW r \in Request, Continue(r) PROVE TypeOK'
  BY <1>4, InsertReportTypes, TakeHoldTypes, CommitTakedownTypes, CommitReportsTypes,
     StampAuthorTypes, DestroyOwnTypes, InsertAppealTypes, JudgeTargetTypes,
     HoldRestoredTypes, CommitRestoreTypes, CommitDecisionTypes, AbortTypes DEF Continue
<1>5. CASE UNCHANGED vars
  BY <1>5 DEF vars, rows, removals, cases, TypeOK
<1>6. QED
  BY <1>1, <1>2, <1>3, <1>4, <1>5 DEF Next

LEMMA TypeInit == Init => TypeOK
BY ModerationAssumption, HandlerShapes DEF Init, TypeOK, DeletedBy

\* Every state has well-typed rows and handlers, and no review outlives the row of
\* its appeal (resolveAppeal).
THEOREM TypeCorrect == Spec => []TypeOK
BY TypeInit, TypeNext, PTL DEF Spec

--------------------------------------------------------------------------------
(* Appeals: what only moves a handler *)

\* A handler that files nothing and takes up no review leaves every case as it was.
LEMMA CasesKept ==
  ASSUME TypeOK, AppealsInv, NEW r \in Request, NEW h \in Handler, Goto(r, h),
         h.pc # "appeal",
         h.pc \in Judging => req[r].pc \in Judging /\ h.appeal = req[r].appeal,
         UNCHANGED <<appeals, contested, rivals>>
  PROVE  /\ OneAppeal' /\ OneReview' /\ RivalsContested'
         /\ \A t \in Target : UnderAppeal(t)' => UnderAppeal(t)
<1>1. req'[r] = h /\ \A q \in Request \ {r} : req'[q] = req[q]
  BY GotoReq DEF TypeOK
<1>2. \A q \in Request, t \in Target : InAppeal(q, t)' => InAppeal(q, t)
  BY <1>1 DEF InAppeal
<1>3. \A q \in Request, a \in AppealId : Reviewing(q, a)' => Reviewing(q, a)
  BY <1>1 DEF Reviewing, Judging
<1>4. \A a \in AppealId : OpenAppeal(a)' = OpenAppeal(a)
  BY DEF OpenAppeal
<1>5. \A a \in AppealId, t \in Target : OpenFor(a, t)' = OpenFor(a, t)
  BY DEF OpenFor, OpenAppeal, TargetOf
<1>6. OneAppeal'
  BY <1>2, <1>5 DEF AppealsInv, OneAppeal
<1>7. OneReview'
  BY <1>3, <1>4 DEF AppealsInv, OneReview
<1>8. RivalsContested'
  BY DEF AppealsInv, RivalsContested, TargetOf
<1>9. \A t \in Target : UnderAppeal(t)' => UnderAppeal(t)
  BY <1>2, <1>5 DEF UnderAppeal
<1>10. QED
  BY <1>6, <1>7, <1>8, <1>9

LEMMA MoveStep ==
  ASSUME TypeOK, AppealsInv, NEW r \in Request, NEW h \in Handler, Goto(r, h),
         h.pc # "appeal",
         h.pc \in Judging => req[r].pc \in Judging /\ h.appeal = req[r].appeal,
         h.pc = "delete" => h.target \notin takedowns,
         h.pc \in {"judged", "restoring"} /\ TargetOf(h.appeal) \in Content \ contested => h.clears,
         UNCHANGED <<rows, appeals, removals, cases>>
  PROVE  AppealsInv'
<1>1. req'[r] = h /\ \A q \in Request \ {r} : req'[q] = req[q]
  BY GotoReq DEF TypeOK
<1>2. /\ UNCHANGED <<down, deleted_by, appeals, takedowns, overlapped, withdrawn>>
      /\ UNCHANGED <<contested, verdicts, rivals>>
  BY DEF rows, removals, cases
<1>3. /\ OneAppeal' /\ OneReview' /\ RivalsContested'
      /\ \A t \in Target : UnderAppeal(t)' => UnderAppeal(t)
  BY <1>2, CasesKept
<1>4. HistoryOK' /\ TakedownAppealable' /\ ModeratorsDown' /\ WithdrawnDown' /\ VerdictsKept'
  BY <1>2 DEF AppealsInv, HistoryOK, TakedownAppealable, ModeratorsDown, WithdrawnDown, VerdictsKept
<1>5. DeletesOverlap'
  BY <1>1, <1>2 DEF AppealsInv, DeletesOverlap
<1>6. StaysDown'
  BY <1>2, <1>3 DEF AppealsInv, StaysDown
<1>7. GrantsClear'
  BY <1>1, <1>2 DEF AppealsInv, GrantsClear, TargetOf
<1>8. QED
  BY <1>3, <1>4, <1>5, <1>6, <1>7 DEF AppealsInv

\* Handlers that have nothing to do with appeals.
LEMMA QuietStep ==
  ASSUME TypeOK, AppealsInv, NEW r \in Request, NEW h \in Handler, Goto(r, h),
         h.pc \in {"idle", "report", "resolve", "held"},
         UNCHANGED <<rows, appeals, removals, cases>>
  PROVE  AppealsInv'
BY MoveStep DEF Judging

LEMMA FileReportAppeals ==
  ASSUME TypeOK, AppealsInv, NEW r \in Request, NEW u \in Reporter, NEW t \in Target,
         FileReport(r, u, t)
  PROVE  AppealsInv'
<1>1. PICK h \in Handler : h = [pc |-> "report", reporter |-> u, target |-> t]
  BY HandlerShapes
<1>2. QED
  BY <1>1, QuietStep DEF FileReport

LEMMA InsertReportAppeals ==
  ASSUME TypeOK, AppealsInv, NEW r \in Request, NEW i \in ReportId, InsertReport(r, i)
  PROVE  AppealsInv'
BY HandlerShapes, QuietStep DEF InsertReport

LEMMA ResolveAppeals ==
  ASSUME TypeOK, AppealsInv, NEW r \in Request, NEW t \in Target,
         NEW action \in {"dismiss", "take_down"}, Resolve(r, t, action)
  PROVE  AppealsInv'
<1>1. PICK h \in Handler : h = [pc |-> "resolve", target |-> t, action |-> action,
                                finds |-> action = "take_down" /\ t \notin down]
  BY HandlerShapes
<1>2. QED
  BY <1>1, QuietStep DEF Resolve

LEMMA TakeHoldAppeals ==
  ASSUME TypeOK, AppealsInv, NEW r \in Request, TakeHold(r)
  PROVE  AppealsInv'
<1>1. req[r].target \in Target
  BY HandlerFields DEF TakeHold, TypeOK
<1>2. PICK h \in Handler : h = [pc |-> "held", target |-> req[r].target]
  BY <1>1, HandlerShapes
<1>3. QED
  BY <1>2, QuietStep DEF TakeHold

LEMMA CommitReportsAppeals ==
  ASSUME TypeOK, AppealsInv, NEW r \in Request, CommitReports(r)
  PROVE  AppealsInv'
BY HandlerShapes, QuietStep DEF CommitReports

LEMMA AbortAppeals ==
  ASSUME TypeOK, AppealsInv, NEW r \in Request, Abort(r)
  PROVE  AppealsInv'
BY HandlerShapes, QuietStep DEF Abort

\* What an author finds up was not taken down.
LEMMA DeleteAppeals ==
  ASSUME TypeOK, AppealsInv, NEW r \in Request, NEW c \in Content, Delete(r, c)
  PROVE  AppealsInv'
<1>1. PICK h \in Handler :
        h = [pc |-> "delete", target |-> c, stamps |-> deleted_by[c] # "author"]
  BY HandlerShapes
<1>2. c \notin takedowns
  BY DEF Delete, AppealsInv, TakedownAppealable
<1>3. h.pc = "delete" /\ h.target = c /\ Goto(r, h) /\ UNCHANGED <<rows, appeals, removals, cases>>
  BY <1>1 DEF Delete
<1>4. QED
  BY <1>2, <1>3, MoveStep DEF Judging

\* A review under way has its appeal open, unless two moderators have it.
LEMMA ReviewUnderAppeal ==
  ASSUME TypeOK, AppealsInv, NEW r \in Request, req[r].pc \in Judging
  PROVE  TargetOf(req[r].appeal) \notin contested =>
           /\ req[r].appeal \in AppealId \ rivals
           /\ OpenFor(req[r].appeal, TargetOf(req[r].appeal))
           /\ UnderAppeal(TargetOf(req[r].appeal))
<1> DEFINE a == req[r].appeal
<1>1. a \in AppealId /\ Reviewing(r, a)
  BY RowFields DEF Reviewing, Judging
<1>2. TargetOf(a) \notin contested => a \notin rivals
  BY DEF AppealsInv, RivalsContested
<1>3. a \notin rivals => OpenAppeal(a)
  BY <1>1 DEF AppealsInv, OneReview
<1>4. QED
  BY <1>1, <1>2, <1>3 DEF OpenFor, UnderAppeal

LEMMA JudgeTargetAppeals ==
  ASSUME TypeOK, AppealsInv, NEW r \in Request, JudgeTarget(r)
  PROVE  AppealsInv'
<1> DEFINE t == TargetOf(req[r].appeal)
           changes == t \in down
           clears == t \in Content /\ deleted_by[t] # "nobody"
           h == [pc |-> "judged", appeal |-> req[r].appeal, changes |-> changes, clears |-> clears]
<1>1. req[r].appeal \in AppealId /\ req[r].pc \in Judging /\ t \in Target
  BY RowFields DEF JudgeTarget, Judging
<1>2. changes \in BOOLEAN /\ clears \in BOOLEAN
  OBVIOUS
<1>3. /\ Goto(r, h) /\ UNCHANGED <<rows, appeals, removals, cases>>
      /\ h.appeal = req[r].appeal /\ h.pc = "judged" /\ h.clears = clears
  BY DEF JudgeTarget
<1>4. t \in Content \ contested => clears
  BY <1>1, ReviewUnderAppeal DEF AppealsInv, StaysDown
<1> HIDE DEF changes, clears
<1>5. h \in Handler
  BY <1>1, <1>2, HandlerShapes
<1> HIDE DEF h
<1>6. QED
  BY <1>1, <1>3, <1>4, <1>5, MoveStep

LEMMA HoldRestoredAppeals ==
  ASSUME TypeOK, AppealsInv, NEW r \in Request, HoldRestored(r)
  PROVE  AppealsInv'
<1>1. req[r].appeal \in AppealId /\ req[r].clears \in BOOLEAN /\ req[r].pc \in Judging
  BY RowFields, HandlerFields DEF HoldRestored, Judging, TypeOK
<1>2. PICK h \in Handler :
        h = [pc |-> "restoring", appeal |-> req[r].appeal, clears |-> req[r].clears]
  BY <1>1, HandlerShapes
<1>3. /\ Goto(r, h) /\ UNCHANGED <<rows, appeals, removals, cases>>
      /\ h.appeal = req[r].appeal /\ h.pc = "restoring" /\ h.clears = req[r].clears
  BY <1>2 DEF HoldRestored
<1>4. TargetOf(h.appeal) \in Content \ contested => h.clears
  BY <1>3 DEF AppealsInv, GrantsClear, HoldRestored
<1>5. QED
  BY <1>1, <1>3, <1>4, MoveStep

LEMMA WindowPassesAppeals ==
  ASSUME AppealsInv, NEW i \in ReportId, WindowPasses(i)
  PROVE  AppealsInv'
<1>1. /\ UNCHANGED <<down, deleted_by, appeals, req, takedowns, overlapped, withdrawn>>
      /\ UNCHANGED <<contested, verdicts, rivals>>
  BY DEF WindowPasses, rows, removals, cases
<1>2. (HistoryOK /\ TakedownAppealable /\ DeletesOverlap /\ GrantsClear /\ ModeratorsDown
        /\ WithdrawnDown /\ VerdictsKept)'
  BY <1>1 DEF AppealsInv, HistoryOK, TakedownAppealable, DeletesOverlap, GrantsClear,
     ModeratorsDown, WithdrawnDown, VerdictsKept, TargetOf
<1>3. (OneAppeal /\ OneReview /\ RivalsContested /\ StaysDown)'
  BY <1>1 DEF AppealsInv, OneAppeal, OneReview, RivalsContested, StaysDown, UnderAppeal,
     InAppeal, OpenFor, OpenAppeal, Reviewing, TargetOf
<1>4. QED
  BY <1>2, <1>3 DEF AppealsInv

--------------------------------------------------------------------------------
(* Appeals: removals *)

LEMMA CommitTakedownAppeals ==
  ASSUME TypeOK, AppealsInv, NEW r \in Request, CommitTakedown(r)
  PROVE  AppealsInv'
<1> DEFINE t == req[r].target
<1>1. /\ t \in Target /\ Goto(r, Idle)
      /\ down' = down \cup {t}
      /\ deleted_by' = [c \in Content |-> IF c = t THEN "moderator" ELSE deleted_by[c]]
      /\ takedowns' = takedowns \cup ({t} \cap Content)
      /\ overlapped' = IF Deleting(t) THEN overlapped \cup {t} ELSE overlapped \ {t}
      /\ withdrawn' = withdrawn \ {t}
      /\ UNCHANGED <<appeals, contested, verdicts, rivals>>
  BY HandlerFields DEF CommitTakedown, TypeOK, cases
<1>2. req'[r] = Idle /\ \A q \in Request \ {r} : req'[q] = req[q]
  BY <1>1, GotoReq, HandlerShapes DEF TypeOK
<1>3. /\ OneAppeal' /\ OneReview' /\ RivalsContested'
      /\ \A s \in Target : UnderAppeal(s)' => UnderAppeal(s)
  BY <1>1, CasesKept, HandlerShapes DEF Judging
<1>4. HistoryOK' /\ VerdictsKept'
  BY <1>1 DEF AppealsInv, HistoryOK, VerdictsKept
<1>5. TakedownAppealable'
  <2> SUFFICES ASSUME NEW c \in takedowns'
               PROVE  c \in down' /\ (deleted_by'[c] = "moderator" \/ c \in overlapped')
    BY DEF TakedownAppealable
  <2>1. c \in Content
    BY <1>4 DEF HistoryOK
  <2>2. CASE c = t
    BY <1>1, <2>1, <2>2
  <2>3. CASE c # t
    <3>1. c \in down /\ (deleted_by[c] = "moderator" \/ c \in overlapped)
      BY <1>1, <2>3 DEF AppealsInv, TakedownAppealable
    <3>2. QED
      BY <1>1, <2>1, <2>3, <3>1
  <2>4. QED
    BY <2>2, <2>3
<1>6. DeletesOverlap'
  <2> SUFFICES ASSUME NEW q \in Request, req'[q].pc = "delete", req'[q].target \in takedowns'
               PROVE  req'[q].target \in overlapped'
    BY DEF DeletesOverlap
  <2>1. req[q].pc = "delete" /\ req'[q] = req[q]
    BY <1>2, HandlerShapes
  <2>2. CASE req[q].target = t
    BY <1>1, <2>1, <2>2 DEF Deleting
  <2>3. CASE req[q].target # t
    BY <1>1, <2>1, <2>3 DEF AppealsInv, DeletesOverlap
  <2>4. QED
    BY <2>2, <2>3
<1>7. StaysDown'
  BY <1>1, <1>3 DEF AppealsInv, StaysDown
<1>8. GrantsClear'
  BY <1>1, <1>2, HandlerShapes DEF AppealsInv, GrantsClear, TargetOf
<1>9. ModeratorsDown'
  BY <1>1 DEF AppealsInv, ModeratorsDown
<1>10. WithdrawnDown'
  BY <1>1 DEF AppealsInv, WithdrawnDown, HistoryOK
<1>11. QED
  BY <1>3, <1>4, <1>5, <1>6, <1>7, <1>8, <1>9, <1>10 DEF AppealsInv

\* The stamp lands on a takedown only if that takedown came while it was on its way.
LEMMA StampAuthorAppeals ==
  ASSUME TypeOK, AppealsInv, NEW r \in Request, StampAuthor(r)
  PROVE  AppealsInv'
<1> DEFINE t == req[r].target
<1>1. PICK h \in Handler : h = [pc |-> "stamped", target |-> t]
  BY HandlerShapes, HandlerFields DEF StampAuthor, TypeOK
<1>2. /\ t \in Content /\ req[r].pc = "delete" /\ Goto(r, h) /\ h.pc = "stamped"
      /\ deleted_by' = deleted_by \/ deleted_by' = [deleted_by EXCEPT ![t] = "author"]
      /\ UNCHANGED <<down, appeals, takedowns, overlapped, withdrawn>>
      /\ UNCHANGED <<contested, verdicts, rivals>>
  BY <1>1, HandlerFields DEF StampAuthor, TypeOK, cases, removals
<1>3. req'[r] = h /\ \A q \in Request \ {r} : req'[q] = req[q]
  BY <1>2, GotoReq DEF TypeOK
<1>4. /\ OneAppeal' /\ OneReview' /\ RivalsContested'
      /\ \A s \in Target : UnderAppeal(s)' => UnderAppeal(s)
  BY <1>2, CasesKept DEF Judging
<1>5. HistoryOK' /\ VerdictsKept'
  BY <1>2 DEF AppealsInv, HistoryOK, VerdictsKept
<1>6. \A c \in Content :
        \/ deleted_by'[c] = deleted_by[c]
        \/ c = t /\ deleted_by'[c] = "author"
  BY <1>2 DEF TypeOK
<1>7. TakedownAppealable'
  <2> SUFFICES ASSUME NEW c \in takedowns
               PROVE  c \in down /\ (deleted_by'[c] = "moderator" \/ c \in overlapped)
    BY <1>2 DEF TakedownAppealable
  <2>1. c \in Content /\ c \in down /\ (deleted_by[c] = "moderator" \/ c \in overlapped)
    BY DEF AppealsInv, HistoryOK, TakedownAppealable
  <2>2. c = t => c \in overlapped
    BY <1>2 DEF AppealsInv, DeletesOverlap
  <2>3. QED
    BY <1>6, <2>1, <2>2
<1>8. DeletesOverlap'
  BY <1>2, <1>3 DEF AppealsInv, DeletesOverlap
<1>9. StaysDown'
  BY <1>2, <1>4, <1>6 DEF AppealsInv, StaysDown
<1>10. GrantsClear'
  BY <1>2, <1>3 DEF AppealsInv, GrantsClear, TargetOf
<1>11. ModeratorsDown'
  BY <1>2, <1>6 DEF AppealsInv, ModeratorsDown
<1>12. WithdrawnDown'
  <2>1. withdrawn \subseteq Content
    BY DEF AppealsInv, HistoryOK
  <2>2. QED
    BY <1>2, <1>6, <2>1 DEF AppealsInv, WithdrawnDown
<1>13. QED
  BY <1>4, <1>5, <1>7, <1>8, <1>9, <1>10, <1>11, <1>12 DEF AppealsInv

\* What an author withdraws was up: no appeal of it is under way, and no stamp of a
\* moderator's is left on it.
LEMMA DestroyOwnAppeals ==
  ASSUME TypeOK, AppealsInv, NEW r \in Request, DestroyOwn(r)
  PROVE  AppealsInv'
<1> DEFINE t == req[r].target
<1>1. /\ t \in Content /\ Goto(r, Idle)
      /\ down' = down \cup {t}
      /\ withdrawn' = IF t \in down THEN withdrawn ELSE withdrawn \cup {t}
      /\ UNCHANGED <<deleted_by, appeals, takedowns, overlapped>>
      /\ UNCHANGED <<contested, verdicts, rivals>>
  BY HandlerFields DEF DestroyOwn, TypeOK, cases
<1>2. req'[r] = Idle /\ \A q \in Request \ {r} : req'[q] = req[q]
  BY <1>1, GotoReq, HandlerShapes DEF TypeOK
<1>3. /\ OneAppeal' /\ OneReview' /\ RivalsContested'
      /\ \A s \in Target : UnderAppeal(s)' => UnderAppeal(s)
  BY <1>1, CasesKept, HandlerShapes DEF Judging
<1>4. HistoryOK' /\ VerdictsKept'
  BY <1>1 DEF AppealsInv, HistoryOK, VerdictsKept
<1>5. TakedownAppealable'
  BY <1>1 DEF AppealsInv, TakedownAppealable
<1>6. DeletesOverlap'
  BY <1>1, <1>2, HandlerShapes DEF AppealsInv, DeletesOverlap
<1>7. StaysDown'
  <2> SUFFICES ASSUME NEW s \in Target \ contested, UnderAppeal(s)'
               PROVE  /\ s \in down'
                      /\ s \in Content => s \notin withdrawn' /\ deleted_by'[s] # "nobody"
    BY <1>1 DEF StaysDown
  <2>1. /\ s \in down
        /\ s \in Content => s \notin withdrawn /\ deleted_by[s] # "nobody"
    BY <1>3 DEF AppealsInv, StaysDown
  <2>2. QED
    BY <1>1, <2>1
<1>8. GrantsClear'
  BY <1>1, <1>2, HandlerShapes DEF AppealsInv, GrantsClear, TargetOf
<1>9. ModeratorsDown'
  BY <1>1 DEF AppealsInv, ModeratorsDown
<1>10. WithdrawnDown'
  BY <1>1 DEF AppealsInv, WithdrawnDown, ModeratorsDown
<1>11. QED
  BY <1>3, <1>4, <1>5, <1>6, <1>7, <1>8, <1>9, <1>10 DEF AppealsInv

--------------------------------------------------------------------------------
(* Appeals: filing and taking up *)

LEMMA FileAppealAppeals ==
  ASSUME TypeOK, AppealsInv, NEW r \in Request, NEW t \in Target, FileAppeal(r, t)
  PROVE  AppealsInv'
<1>1. PICK h \in Handler : h = [pc |-> "appeal", target |-> t]
  BY HandlerShapes
<1>2. /\ Goto(r, h) /\ h.pc = "appeal" /\ h.target = t
      /\ Appealable(t)
      /\ ~ \E a \in AppealId : OpenAppeal(a) /\ TargetOf(a) = t
      /\ contested' = IF \E s \in Others(r, "appeal") : req[s].target = t
                      THEN contested \cup {t} ELSE contested
      /\ UNCHANGED <<down, deleted_by, appeals, takedowns, overlapped, withdrawn>>
      /\ UNCHANGED <<verdicts, rivals>>
  BY <1>1 DEF FileAppeal, rows, removals
<1>3. req'[r] = h /\ \A q \in Request \ {r} : req'[q] = req[q]
  BY <1>2, GotoReq DEF TypeOK
<1>4. contested \subseteq contested'
  BY <1>2
<1>5. HistoryOK' /\ VerdictsKept' /\ TakedownAppealable'
  BY <1>2 DEF AppealsInv, HistoryOK, VerdictsKept, TakedownAppealable
<1>6. DeletesOverlap'
  BY <1>2, <1>3 DEF AppealsInv, DeletesOverlap
<1>7. \A a \in AppealId, s \in Target : OpenFor(a, s)' = OpenFor(a, s)
  BY <1>2 DEF OpenFor, OpenAppeal, TargetOf
<1>8. \A q \in Request, s \in Target : InAppeal(q, s)' => InAppeal(q, s) \/ (q = r /\ s = t)
  BY <1>2, <1>3 DEF InAppeal
<1>9. t \notin contested' => \A q \in Request \ {r} : ~InAppeal(q, t)
  BY <1>2 DEF InAppeal, Others
<1>10. OneAppeal'
  <2> SUFFICES ASSUME NEW s \in Target \ contested'
               PROVE  /\ \A p, q \in Request : InAppeal(p, s)' /\ InAppeal(q, s)' => p = q
                      /\ \A q \in Request, a \in AppealId : ~(InAppeal(q, s)' /\ OpenFor(a, s)')
                      /\ \A a, b \in AppealId : OpenFor(a, s)' /\ OpenFor(b, s)' => a = b
    BY DEF OneAppeal
  <2>1. /\ \A p, q \in Request : InAppeal(p, s) /\ InAppeal(q, s) => p = q
        /\ \A q \in Request, a \in AppealId : ~(InAppeal(q, s) /\ OpenFor(a, s))
        /\ \A a, b \in AppealId : OpenFor(a, s) /\ OpenFor(b, s) => a = b
    BY <1>4 DEF AppealsInv, OneAppeal
  <2>2. CASE s = t
    <3>1. \A a \in AppealId : ~OpenFor(a, s)'
      BY <1>2, <1>7, <2>2 DEF OpenFor
    <3>2. \A q \in Request : InAppeal(q, s)' => q = r
      BY <1>8, <1>9, <2>2
    <3>3. QED
      BY <3>1, <3>2
  <2>3. CASE s # t
    BY <1>7, <1>8, <2>1, <2>3
  <2>4. QED
    BY <2>2, <2>3
<1>11. OneReview'
  <2>1. \A q \in Request, a \in AppealId : Reviewing(q, a)' => Reviewing(q, a)
    BY <1>2, <1>3 DEF Reviewing
  <2>2. \A a \in AppealId : OpenAppeal(a)' = OpenAppeal(a)
    BY <1>2 DEF OpenAppeal
  <2>3. QED
    BY <1>2, <2>1, <2>2 DEF AppealsInv, OneReview
<1>12. RivalsContested'
  BY <1>2, <1>4 DEF AppealsInv, RivalsContested, TargetOf
<1>13. StaysDown'
  <2> SUFFICES ASSUME NEW s \in Target \ contested', UnderAppeal(s)'
               PROVE  /\ s \in down
                      /\ s \in Content => s \notin withdrawn /\ deleted_by[s] # "nobody"
    BY <1>2 DEF StaysDown
  <2>1. CASE UnderAppeal(s)
    BY <1>4, <2>1 DEF AppealsInv, StaysDown
  <2>2. CASE s = t
    <3>1. s \in down /\ (s \in Content => deleted_by[s] = "moderator")
      BY <1>2, <2>2 DEF Appealable
    <3>2. s \notin withdrawn
      BY <1>4, <3>1 DEF AppealsInv, WithdrawnDown, HistoryOK
    <3>3. QED
      BY <3>1, <3>2
  <2>3. UnderAppeal(s) \/ s = t
    BY <1>7, <1>8 DEF UnderAppeal
  <2>4. QED
    BY <2>1, <2>2, <2>3
<1>14. GrantsClear'
  BY <1>2, <1>3, <1>4 DEF AppealsInv, GrantsClear, TargetOf
<1>15. ModeratorsDown' /\ WithdrawnDown'
  BY <1>2, <1>4 DEF AppealsInv, ModeratorsDown, WithdrawnDown
<1>16. QED
  BY <1>5, <1>6, <1>10, <1>11, <1>12, <1>13, <1>14, <1>15 DEF AppealsInv

LEMMA InsertAppealAppeals ==
  ASSUME TypeOK, AppealsInv, NEW r \in Request, NEW a \in AppealId, InsertAppeal(r, a)
  PROVE  AppealsInv'
<1> DEFINE t == req[r].target
<1>1. /\ t \in Target /\ InAppeal(r, t) /\ Goto(r, Idle)
      /\ appeals[a] = NoRow
      /\ appeals' = [appeals EXCEPT ![a] = [target |-> t, status |-> "pending"]]
      /\ UNCHANGED <<down, deleted_by, takedowns, overlapped, withdrawn>>
      /\ UNCHANGED <<contested, verdicts, rivals>>
  BY HandlerFields DEF InsertAppeal, TypeOK, InAppeal, rows, removals, cases
<1>2. req'[r] = Idle /\ \A q \in Request \ {r} : req'[q] = req[q]
  BY <1>1, GotoReq, HandlerShapes DEF TypeOK
<1>3. /\ appeals'[a] # NoRow /\ OpenAppeal(a)' /\ TargetOf(a)' = t
      /\ \A b \in AppealId \ {a} : appeals'[b] = appeals[b]
  BY <1>1 DEF TypeOK, OpenAppeal, TargetOf, NoRow
<1>4. ~OpenAppeal(a)
  BY <1>1 DEF OpenAppeal
<1>5. \A b \in AppealId \ {a} : OpenAppeal(b)' = OpenAppeal(b) /\ TargetOf(b)' = TargetOf(b)
  BY <1>3 DEF OpenAppeal, TargetOf
<1>6. \A b \in AppealId, s \in Target :
        OpenFor(b, s)' => (b = a /\ s = t) \/ (b # a /\ OpenFor(b, s))
  BY <1>3, <1>5 DEF OpenFor
<1>7. \A q \in Request, s \in Target : InAppeal(q, s)' => q # r /\ InAppeal(q, s)
  BY <1>2, HandlerShapes DEF InAppeal
<1>8. ASSUME NEW q \in Request, req'[q].pc \in Judging
      PROVE  req'[q] = req[q] /\ req[q].pc \in Judging /\ req[q].appeal \in AppealId \ {a}
  <2>1. q # r /\ req'[q] = req[q]
    BY <1>2, <1>8, HandlerShapes DEF Judging
  <2>2. QED
    BY <1>1, <1>8, <2>1, RowFields
<1>9. \A q \in Request, b \in AppealId : Reviewing(q, b)' => b # a /\ Reviewing(q, b)
  BY <1>8 DEF Reviewing, Judging
<1>10. HistoryOK' /\ TakedownAppealable' /\ ModeratorsDown' /\ WithdrawnDown'
  BY <1>1 DEF AppealsInv, HistoryOK, TakedownAppealable, ModeratorsDown, WithdrawnDown
<1>11. DeletesOverlap'
  BY <1>1, <1>2, HandlerShapes DEF AppealsInv, DeletesOverlap
<1>12. OneAppeal'
  <2> SUFFICES ASSUME NEW s \in Target \ contested
               PROVE  /\ \A p, q \in Request : InAppeal(p, s)' /\ InAppeal(q, s)' => p = q
                      /\ \A q \in Request, b \in AppealId : ~(InAppeal(q, s)' /\ OpenFor(b, s)')
                      /\ \A b, c \in AppealId : OpenFor(b, s)' /\ OpenFor(c, s)' => b = c
    BY <1>1 DEF OneAppeal
  <2>1. /\ \A p, q \in Request : InAppeal(p, s) /\ InAppeal(q, s) => p = q
        /\ \A q \in Request, b \in AppealId : ~(InAppeal(q, s) /\ OpenFor(b, s))
        /\ \A b, c \in AppealId : OpenFor(b, s) /\ OpenFor(c, s) => b = c
    BY DEF AppealsInv, OneAppeal
  <2>2. CASE s = t
    <3>1. \A b \in AppealId : OpenFor(b, s)' => b = a
      BY <1>1, <1>6, <2>1, <2>2
    <3>2. \A q \in Request : ~InAppeal(q, s)'
      BY <1>1, <1>7, <2>1, <2>2
    <3>3. QED
      BY <3>1, <3>2
  <2>3. CASE s # t
    BY <1>6, <1>7, <2>1, <2>3
  <2>4. QED
    BY <2>2, <2>3
<1>13. OneReview'
  BY <1>1, <1>5, <1>9 DEF AppealsInv, OneReview
<1>14. RivalsContested'
  <2> SUFFICES ASSUME NEW b \in rivals
               PROVE  appeals'[b] # NoRow /\ TargetOf(b)' \in contested
    BY <1>1 DEF RivalsContested
  <2>1. b \in AppealId /\ appeals[b] # NoRow /\ TargetOf(b) \in contested
    BY DEF AppealsInv, HistoryOK, RivalsContested
  <2>2. QED
    BY <1>1, <1>3, <1>5, <2>1
<1>15. StaysDown'
  <2>1. \A s \in Target : UnderAppeal(s)' => UnderAppeal(s)
    BY <1>1, <1>6, <1>7 DEF UnderAppeal
  <2>2. QED
    BY <1>1, <2>1 DEF AppealsInv, StaysDown
<1>16. GrantsClear'
  <2> SUFFICES ASSUME NEW q \in Request, req'[q].pc \in {"judged", "restoring"},
                      TargetOf(req[q].appeal)' \in Content \ contested
               PROVE  req'[q].clears
    BY <1>1 DEF GrantsClear
  <2>1. req'[q] = req[q] /\ req[q].appeal \in AppealId \ {a}
    BY <1>8 DEF Judging
  <2>2. TargetOf(req[q].appeal) \in Content \ contested
    BY <1>5, <2>1
  <2>3. QED
    BY <2>1, <2>2 DEF AppealsInv, GrantsClear
<1>17. VerdictsKept'
  <2> SUFFICES ASSUME NEW v \in verdicts
               PROVE  /\ appeals'[v[1]] # NoRow
                      /\ v[1] \notin rivals =>
                           appeals'[v[1]].status = IF v[2] THEN "granted" ELSE "denied"
    BY <1>1 DEF VerdictsKept
  <2>1. v[1] \in AppealId
    BY DEF AppealsInv, HistoryOK
  <2>2. QED
    BY <1>1, <1>3, <2>1 DEF AppealsInv, VerdictsKept
<1>18. QED
  BY <1>10, <1>11, <1>12, <1>13, <1>14, <1>15, <1>16, <1>17 DEF AppealsInv

LEMMA ReviewAppeals ==
  ASSUME TypeOK, AppealsInv, NEW r \in Request, NEW a \in AppealId, NEW grant \in BOOLEAN,
         Review(r, a, grant)
  PROVE  AppealsInv'
<1> DEFINE rival == \E s \in Request \ {r} : Reviewing(s, a)
<1>1. PICK h \in Handler : h = [pc |-> "review", appeal |-> a, grant |-> grant]
  BY HandlerShapes
<1>2. /\ Goto(r, h) /\ h.pc = "review" /\ h.appeal = a
      /\ OpenAppeal(a)
      /\ rivals' = IF rival THEN rivals \cup {a} ELSE rivals
      /\ contested' = IF rival THEN contested \cup {TargetOf(a)} ELSE contested
      /\ UNCHANGED <<down, deleted_by, appeals, takedowns, overlapped, withdrawn>>
      /\ UNCHANGED verdicts
  BY <1>1 DEF Review, rows, removals
<1>3. req'[r] = h /\ \A q \in Request \ {r} : req'[q] = req[q]
  BY <1>2, GotoReq DEF TypeOK
<1>4. contested \subseteq contested' /\ rivals \subseteq rivals'
  BY <1>2
<1>5. appeals[a] # NoRow
  BY <1>2 DEF OpenAppeal
<1>6. HistoryOK'
  BY <1>2 DEF AppealsInv, HistoryOK
<1>7. TakedownAppealable' /\ ModeratorsDown' /\ WithdrawnDown'
  BY <1>2, <1>4 DEF AppealsInv, TakedownAppealable, ModeratorsDown, WithdrawnDown
<1>8. DeletesOverlap'
  BY <1>2, <1>3 DEF AppealsInv, DeletesOverlap
<1>9. \A b \in AppealId, s \in Target : OpenFor(b, s)' = OpenFor(b, s)
  BY <1>2 DEF OpenFor, OpenAppeal, TargetOf
<1>10. \A q \in Request, s \in Target : InAppeal(q, s)' => InAppeal(q, s)
  BY <1>2, <1>3 DEF InAppeal
<1>11. \A q \in Request, b \in AppealId :
         Reviewing(q, b)' => (Reviewing(q, b) /\ q # r) \/ (q = r /\ b = a)
  BY <1>2, <1>3 DEF Reviewing
<1>12. OneAppeal'
  BY <1>4, <1>9, <1>10 DEF AppealsInv, OneAppeal
<1>13. OneReview'
  <2> SUFFICES ASSUME NEW q \in Request, NEW b \in AppealId \ rivals', Reviewing(q, b)'
               PROVE  OpenAppeal(b)' /\ \A s \in Request : Reviewing(s, b)' => s = q
    BY DEF OneReview
  <2>1. OpenAppeal(b)' = OpenAppeal(b)
    BY <1>2 DEF OpenAppeal
  <2>2. CASE b = a
    <3>1. \A s \in Request \ {r} : ~Reviewing(s, a)
      BY <1>2, <2>2
    <3>2. QED
      BY <1>2, <1>11, <2>1, <2>2, <3>1
  <2>3. CASE b # a
    <3>1. OpenAppeal(b) /\ \A s \in Request : Reviewing(s, b) => s = q
      BY <1>4, <1>11, <2>3 DEF AppealsInv, OneReview
    <3>2. QED
      BY <1>11, <2>1, <2>3, <3>1
  <2>4. QED
    BY <2>2, <2>3
<1>14. RivalsContested'
  <2>1. \A b \in rivals' : appeals[b] # NoRow /\ TargetOf(b) \in contested'
    BY <1>2, <1>5 DEF AppealsInv, RivalsContested
  <2>2. QED
    BY <1>2, <2>1 DEF RivalsContested, TargetOf
<1>15. StaysDown'
  <2>1. \A s \in Target : UnderAppeal(s)' => UnderAppeal(s)
    BY <1>9, <1>10 DEF UnderAppeal
  <2>2. QED
    BY <1>2, <1>4, <2>1 DEF AppealsInv, StaysDown
<1>16. GrantsClear'
  BY <1>2, <1>3, <1>4 DEF AppealsInv, GrantsClear, TargetOf
<1>17. VerdictsKept'
  BY <1>2, <1>4 DEF AppealsInv, VerdictsKept
<1>18. QED
  BY <1>6, <1>7, <1>8, <1>12, <1>13, <1>14, <1>15, <1>16, <1>17 DEF AppealsInv

--------------------------------------------------------------------------------
(* Appeals: decisions *)

\* The decision ends the case: what no two moderators had at a time has one verdict,
\* and what no two appeals crossed over is under no appeal any more.
LEMMA DecideCases ==
  ASSUME TypeOK, AppealsInv, NEW r \in Request, NEW granted \in BOOLEAN,
         req[r].pc \in Judging, Decide(r, granted), UNCHANGED <<contested, rivals>>
  PROVE  /\ OneAppeal' /\ OneReview' /\ RivalsContested' /\ VerdictsKept' /\ GrantsClear'
         /\ verdicts' \subseteq AppealId \X BOOLEAN
         /\ \A t \in Target \ contested :
              UnderAppeal(t)' => UnderAppeal(t) /\ t # TargetOf(req[r].appeal)
<1>0. PICK a \in AppealId : a = req[r].appeal
  BY RowFields
<1>1. appeals[a] # NoRow /\ Reviewing(r, a) /\ TargetOf(a) \in Target
  BY <1>0, RowFields DEF Reviewing, Judging
<1>2. PICK s \in {"granted", "denied"} :
        appeals' = [appeals EXCEPT ![a].status = s] /\ s = IF granted THEN "granted" ELSE "denied"
  BY <1>0 DEF Decide
<1>3. verdicts' = verdicts \cup {<<a, granted>>} /\ Goto(r, Idle)
  BY <1>0 DEF Decide
<1>4. req'[r] = Idle /\ \A q \in Request \ {r} : req'[q] = req[q]
  BY <1>3, GotoReq, HandlerShapes DEF TypeOK
<1>5. \A b \in AppealId \ {a} : appeals'[b] = appeals[b]
  BY <1>2 DEF TypeOK
<1>6. appeals'[a].status = s /\ appeals'[a].target = appeals[a].target /\ appeals'[a] # NoRow
  <2>1. appeals[a] \in Appeal
    BY <1>1 DEF TypeOK
  <2>2. appeals'[a] = [appeals[a] EXCEPT !.status = s]
    BY <1>1, <1>2 DEF TypeOK
  <2>3. appeals'[a] \in Appeal
    BY <2>1, <2>2 DEF Appeal
  <2>4. NoRow \notin Appeal
    BY DEF NoRow, Appeal
  <2>5. QED
    BY <2>1, <2>2, <2>3, <2>4 DEF Appeal
<1>7. ~OpenAppeal(a)' /\ \A b \in AppealId \ {a} : OpenAppeal(b)' <=> OpenAppeal(b)
  <2>1. s # "pending"
    OBVIOUS
  <2>2. ~OpenAppeal(a)'
    BY <1>6, <2>1 DEF OpenAppeal
  <2>3. \A b \in AppealId \ {a} : OpenAppeal(b)' <=> OpenAppeal(b)
    BY <1>5 DEF OpenAppeal
  <2>4. QED
    BY <2>2, <2>3
<1>8. \A b \in AppealId : TargetOf(b)' = TargetOf(b)
  BY <1>5, <1>6 DEF TargetOf
<1>9. \A b \in AppealId, t \in Target : OpenFor(b, t)' => b # a /\ OpenFor(b, t)
  BY <1>7, <1>8 DEF OpenFor
<1>10. \A q \in Request, t \in Target : InAppeal(q, t)' => InAppeal(q, t)
  BY <1>4, HandlerShapes DEF InAppeal
<1>11. \A q \in Request, b \in AppealId : Reviewing(q, b)' => q # r /\ Reviewing(q, b)
  BY <1>4, HandlerShapes DEF Reviewing
<1>12. OneAppeal'
  BY <1>9, <1>10 DEF AppealsInv, OneAppeal
<1>13. OneReview'
  <2> SUFFICES ASSUME NEW q \in Request, NEW b \in AppealId \ rivals, Reviewing(q, b)'
               PROVE  OpenAppeal(b)' /\ \A p \in Request : Reviewing(p, b)' => p = q
    BY DEF OneReview
  <2>1. q # r /\ OpenAppeal(b) /\ \A p \in Request : Reviewing(p, b) => p = q
    BY <1>11 DEF AppealsInv, OneReview
  <2>2. b # a
    BY <1>1, <2>1
  <2>3. QED
    BY <1>7, <1>11, <2>1, <2>2
<1>14. RivalsContested'
  <2>1. rivals \subseteq AppealId
    BY DEF AppealsInv, HistoryOK
  <2>2. \A b \in AppealId : appeals[b] # NoRow => appeals'[b] # NoRow
    BY <1>5, <1>6
  <2>3. QED
    BY <1>8, <2>1, <2>2 DEF AppealsInv, RivalsContested
<1>15. VerdictsKept'
  <2> SUFFICES ASSUME NEW v \in verdicts'
               PROVE  /\ appeals'[v[1]] # NoRow
                      /\ v[1] \notin rivals =>
                           appeals'[v[1]].status = IF v[2] THEN "granted" ELSE "denied"
    BY DEF VerdictsKept
  <2>1. CASE v = <<a, granted>>
    BY <1>2, <1>6, <2>1
  <2>2. CASE v \in verdicts
    <3>1. /\ v[1] \in AppealId /\ appeals[v[1]] # NoRow
          /\ v[1] \notin rivals =>
               appeals[v[1]].status = IF v[2] THEN "granted" ELSE "denied"
      BY <2>2 DEF AppealsInv, HistoryOK, VerdictsKept
    <3>2. CASE v[1] # a
      BY <1>5, <3>1, <3>2
    <3>3. CASE v[1] = a
      <4>1. a \notin rivals => OpenAppeal(a)
        BY <1>1 DEF AppealsInv, OneReview
      <4>2. a \in rivals
        BY <3>1, <3>3, <4>1 DEF OpenAppeal
      <4>3. QED
        BY <1>6, <3>3, <4>2
    <3>4. QED
      BY <3>2, <3>3
  <2>3. QED
    BY <1>3, <2>1, <2>2
<1>16. GrantsClear'
  <2> SUFFICES ASSUME NEW q \in Request, req'[q].pc \in {"judged", "restoring"},
                      TargetOf(req[q].appeal)' \in Content \ contested
               PROVE  req'[q].clears
    BY DEF GrantsClear
  <2>1. req'[q] = req[q]
    BY <1>4, HandlerShapes
  <2>2. req[q].appeal \in AppealId
    BY <2>1, RowFields DEF Judging
  <2>3. QED
    BY <1>8, <2>1, <2>2 DEF AppealsInv, GrantsClear
<1>17. verdicts' \subseteq AppealId \X BOOLEAN
  BY <1>1, <1>3 DEF AppealsInv, HistoryOK
<1>18. ASSUME NEW t \in Target \ contested, UnderAppeal(t)'
       PROVE  UnderAppeal(t) /\ t # TargetOf(a)
  <2>1. UnderAppeal(t)
    BY <1>9, <1>10, <1>18 DEF UnderAppeal
  <2>2. ASSUME t = TargetOf(a) PROVE FALSE
    <3>1. OpenFor(a, t)
      BY <1>0, <2>2, ReviewUnderAppeal
    <3>2. /\ \A q \in Request : ~InAppeal(q, t)
          /\ \A b \in AppealId : OpenFor(b, t) => b = a
      BY <1>1, <3>1 DEF AppealsInv, OneAppeal
    <3>3. QED
      BY <1>9, <1>10, <1>18, <3>2 DEF UnderAppeal
  <2>3. QED
    BY <2>1, <2>2
<1>19. QED
  BY <1>0, <1>12, <1>13, <1>14, <1>15, <1>16, <1>17, <1>18

LEMMA CommitDecisionAppeals ==
  ASSUME TypeOK, AppealsInv, NEW r \in Request, CommitDecision(r)
  PROVE  AppealsInv'
<1>1. PICK granted \in BOOLEAN : req[r].pc \in Judging /\ Decide(r, granted)
  BY DEF CommitDecision, Judging
<1>2. /\ UNCHANGED <<down, deleted_by, takedowns, overlapped, withdrawn, contested, rivals>>
  BY DEF CommitDecision, rows, removals
<1>3. /\ OneAppeal' /\ OneReview' /\ RivalsContested' /\ VerdictsKept' /\ GrantsClear'
      /\ verdicts' \subseteq AppealId \X BOOLEAN
      /\ \A t \in Target \ contested : UnderAppeal(t)' => UnderAppeal(t)
  BY <1>1, <1>2, DecideCases
<1>4. HistoryOK' /\ TakedownAppealable' /\ ModeratorsDown' /\ WithdrawnDown'
  BY <1>2, <1>3 DEF AppealsInv, HistoryOK, TakedownAppealable, ModeratorsDown, WithdrawnDown
<1>5. req'[r] = Idle /\ \A q \in Request \ {r} : req'[q] = req[q]
  BY <1>1, GotoReq, HandlerShapes DEF TypeOK, Decide
<1>6. DeletesOverlap'
  BY <1>2, <1>5, HandlerShapes DEF AppealsInv, DeletesOverlap
<1>7. StaysDown'
  BY <1>2, <1>3 DEF AppealsInv, StaysDown
<1>8. QED
  BY <1>3, <1>4, <1>6, <1>7 DEF AppealsInv

LEMMA CommitRestoreAppeals ==
  ASSUME TypeOK, AppealsInv, NEW r \in Request, CommitRestore(r)
  PROVE  AppealsInv'
<1> DEFINE t == TargetOf(req[r].appeal)
<1>1. /\ req[r].pc = "restoring" /\ req[r].pc \in Judging /\ Decide(r, TRUE)
      /\ down' = down \ {t}
      /\ deleted_by' = [c \in Content |-> IF c = t /\ req[r].clears THEN "nobody" ELSE deleted_by[c]]
      /\ takedowns' = takedowns \ {t}
      /\ UNCHANGED <<overlapped, withdrawn, contested, rivals>>
  BY DEF CommitRestore, Judging
<1>2. /\ OneAppeal' /\ OneReview' /\ RivalsContested' /\ VerdictsKept' /\ GrantsClear'
      /\ verdicts' \subseteq AppealId \X BOOLEAN
      /\ \A s \in Target \ contested : UnderAppeal(s)' => UnderAppeal(s) /\ s # t
  BY <1>1, DecideCases
<1>3. req'[r] = Idle /\ \A q \in Request \ {r} : req'[q] = req[q]
  BY <1>1, GotoReq, HandlerShapes DEF TypeOK, Decide
<1>4. HistoryOK'
  BY <1>1, <1>2 DEF AppealsInv, HistoryOK
<1>5. TakedownAppealable'
  <2> SUFFICES ASSUME NEW c \in takedowns \ {t}
               PROVE  c \in down' /\ (deleted_by'[c] = "moderator" \/ c \in overlapped)
    BY <1>1 DEF TakedownAppealable
  <2>1. c \in Content /\ c \in down /\ (deleted_by[c] = "moderator" \/ c \in overlapped)
    BY DEF AppealsInv, HistoryOK, TakedownAppealable
  <2>2. QED
    BY <1>1, <2>1
<1>6. DeletesOverlap'
  BY <1>1, <1>3, HandlerShapes DEF AppealsInv, DeletesOverlap
<1>7. t \notin contested => UnderAppeal(t) /\ t \in Target
  BY <1>1, ReviewUnderAppeal, RowFields
<1>8. t \in Content \ contested => deleted_by'[t] = "nobody" /\ t \notin withdrawn
  <2>1. t \in Content \ contested => req[r].clears
    BY <1>1 DEF AppealsInv, GrantsClear
  <2>2. t \in Content \ contested => t \notin withdrawn
    BY <1>7 DEF AppealsInv, StaysDown
  <2>3. QED
    BY <1>1, <2>1, <2>2
<1>9. \A c \in Content : c # t => deleted_by'[c] = deleted_by[c]
  BY <1>1
<1>10. StaysDown'
  <2> SUFFICES ASSUME NEW s \in Target \ contested, UnderAppeal(s)'
               PROVE  /\ s \in down'
                      /\ s \in Content => s \notin withdrawn /\ deleted_by'[s] # "nobody"
    BY <1>1 DEF StaysDown
  <2>1. s # t /\ s \in down
        /\ (s \in Content => s \notin withdrawn /\ deleted_by[s] # "nobody")
    BY <1>2 DEF AppealsInv, StaysDown
  <2>2. QED
    BY <1>1, <1>9, <2>1
<1>11. ModeratorsDown'
  <2> SUFFICES ASSUME NEW c \in Content \ contested, deleted_by'[c] = "moderator"
               PROVE  c \in down'
    BY <1>1 DEF ModeratorsDown
  <2>1. c # t
    BY <1>8
  <2>2. c \in down
    BY <1>9, <2>1 DEF AppealsInv, ModeratorsDown
  <2>3. QED
    BY <1>1, <2>1, <2>2
<1>12. WithdrawnDown'
  <2> SUFFICES ASSUME NEW c \in withdrawn \ contested
               PROVE  c \in down' /\ deleted_by'[c] # "moderator"
    BY <1>1 DEF WithdrawnDown
  <2>1. c \in Content /\ c \in down /\ deleted_by[c] # "moderator"
    BY DEF AppealsInv, HistoryOK, WithdrawnDown
  <2>2. c # t
    BY <1>8, <2>1
  <2>3. QED
    BY <1>1, <1>9, <2>1, <2>2
<1>13. QED
  BY <1>2, <1>4, <1>5, <1>6, <1>10, <1>11, <1>12 DEF AppealsInv

LEMMA AppealsInit == Init => AppealsInv
<1> SUFFICES ASSUME Init PROVE AppealsInv
  OBVIOUS
<1>1. \A r \in Request : req[r] = Idle /\ Idle.pc = "idle"
  BY HandlerShapes DEF Init
<1>2. \A a \in AppealId : ~OpenAppeal(a)
  BY DEF Init, OpenAppeal
<1>3. OneAppeal /\ OneReview /\ StaysDown
  BY <1>1, <1>2 DEF OneAppeal, OneReview, StaysDown, UnderAppeal, InAppeal, OpenFor, Reviewing
<1>4. DeletesOverlap /\ GrantsClear
  BY <1>1 DEF DeletesOverlap, GrantsClear
<1>5. HistoryOK /\ TakedownAppealable /\ RivalsContested /\ ModeratorsDown /\ WithdrawnDown
      /\ VerdictsKept
  BY DEF Init, HistoryOK, TakedownAppealable, RivalsContested, ModeratorsDown, WithdrawnDown,
     VerdictsKept
<1>6. QED
  BY <1>3, <1>4, <1>5 DEF AppealsInv

LEMMA AppealsNext == TypeOK /\ AppealsInv /\ [Next]_vars => AppealsInv'
<1> SUFFICES ASSUME TypeOK, AppealsInv, [Next]_vars
             PROVE  AppealsInv'
  OBVIOUS
<1>1. ASSUME NEW i \in ReportId, WindowPasses(i) PROVE AppealsInv'
  BY <1>1, WindowPassesAppeals
<1>2. ASSUME NEW r \in Request, BeginUser(r) PROVE AppealsInv'
  BY <1>2, FileReportAppeals, DeleteAppeals, FileAppealAppeals DEF BeginUser
<1>3. ASSUME NEW r \in Request, BeginAdmin(r) PROVE AppealsInv'
  BY <1>3, ResolveAppeals, ReviewAppeals DEF BeginAdmin
<1>4. ASSUME NEW r \in Request, Continue(r) PROVE AppealsInv'
  BY <1>4, InsertReportAppeals, TakeHoldAppeals, CommitTakedownAppeals, CommitReportsAppeals,
     StampAuthorAppeals, DestroyOwnAppeals, InsertAppealAppeals, JudgeTargetAppeals,
     HoldRestoredAppeals, CommitRestoreAppeals, CommitDecisionAppeals, AbortAppeals DEF Continue
<1>5. CASE UNCHANGED vars
  <2>1. UNCHANGED <<down, deleted_by, appeals, req, takedowns, overlapped, withdrawn>>
        /\ UNCHANGED <<contested, verdicts, rivals>>
    BY <1>5 DEF vars, rows, removals, cases
  <2>2. (HistoryOK /\ TakedownAppealable /\ DeletesOverlap /\ GrantsClear /\ ModeratorsDown
          /\ WithdrawnDown /\ VerdictsKept)'
    BY <2>1 DEF AppealsInv, HistoryOK, TakedownAppealable, DeletesOverlap, GrantsClear,
       ModeratorsDown, WithdrawnDown, VerdictsKept, TargetOf
  <2>3. (OneAppeal /\ OneReview /\ RivalsContested /\ StaysDown)'
    BY <2>1 DEF AppealsInv, OneAppeal, OneReview, RivalsContested, StaysDown, UnderAppeal,
       InAppeal, OpenFor, OpenAppeal, Reviewing, TargetOf
  <2>4. QED
    BY <2>2, <2>3 DEF AppealsInv
<1>6. QED
  BY <1>1, <1>2, <1>3, <1>4, <1>5 DEF Next

LEMMA AppealsInductive == Spec => [](TypeOK /\ AppealsInv)
<1>1. Init => TypeOK /\ AppealsInv
  BY TypeInit, AppealsInit
<1>2. TypeOK /\ AppealsInv /\ [Next]_vars => (TypeOK /\ AppealsInv)'
  BY TypeNext, AppealsNext
<1>3. QED
  BY <1>1, <1>2, PTL DEF Spec

\* What a moderator took down is down and reads as theirs, unless its author was
\* deleting it when they did.
THEOREM TakedownAppealableHolds == Spec => []TakedownAppealable
<1>1. AppealsInv => TakedownAppealable
  BY DEF AppealsInv
<1>2. QED
  BY <1>1, AppealsInductive, PTL

\* Nothing brings back what its author deleted, unless two appeals of it, or two
\* reviews of one, were under way at a time.
THEOREM AuthorsWordStandsHolds == Spec => []AuthorsWordStands
<1>1. AppealsInv => AuthorsWordStands
  BY DEF AppealsInv, WithdrawnDown, AuthorsWordStands
<1>2. QED
  BY <1>1, AppealsInductive, PTL

\* An appeal that one moderator at a time reviews is decided one way.
THEOREM OneVerdictHolds == Spec => []OneVerdict
<1>1. AppealsInv => OneVerdict
  <2> SUFFICES ASSUME AppealsInv, NEW v \in verdicts, v[1] \notin rivals
               PROVE  /\ appeals[v[1]].status = IF v[2] THEN "granted" ELSE "denied"
                      /\ <<v[1], ~v[2]>> \notin verdicts
    BY DEF OneVerdict
  <2>1. v[2] \in BOOLEAN
    BY DEF AppealsInv, HistoryOK
  <2>2. appeals[v[1]].status = IF v[2] THEN "granted" ELSE "denied"
    BY DEF AppealsInv, VerdictsKept
  <2>3. PICK w : w = <<v[1], ~v[2]>>
    OBVIOUS
  <2>4. w[1] = v[1] /\ w[2] = ~v[2]
    BY <2>3
  <2>5. w \in verdicts => appeals[v[1]].status = IF w[2] THEN "granted" ELSE "denied"
    BY <2>4 DEF AppealsInv, VerdictsKept
  <2>6. w \notin verdicts
    BY <2>1, <2>2, <2>4, <2>5
  <2>7. QED
    BY <2>2, <2>3, <2>6
<1>2. QED
  BY <1>1, AppealsInductive, PTL

--------------------------------------------------------------------------------
(* Reports *)

LEMMA SetsFinite ==
  ASSUME NEW u
  PROVE  /\ Recent(u) \subseteq ReportId /\ IsFiniteSet(Recent(u))
         /\ Filing(u) \subseteq Request /\ IsFiniteSet(Filing(u))
         /\ Cardinality(Recent(u)) \in Nat /\ Cardinality(Filing(u)) \in Nat
         /\ Cardinality(Filing(u)) <= Cardinality(Request)
<1>1. Recent(u) \subseteq ReportId /\ Filing(u) \subseteq Request
  BY DEF Recent, By, Filing
<1>2. IsFiniteSet(ReportId) /\ IsFiniteSet(Request)
  BY ModerationAssumption
<1>3. IsFiniteSet(Recent(u))
  BY <1>1, <1>2, FS_Subset
<1>4. IsFiniteSet(Filing(u)) /\ Cardinality(Filing(u)) <= Cardinality(Request)
  BY <1>1, <1>2, FS_Subset
<1>5. QED
  BY <1>1, <1>3, <1>4, FS_CardinalityType

\* What reports no longer say does no harm.
Fades(i) ==
  Filed(i)' =>
    /\ Filed(i)
    /\ reports'[i].reporter = reports[i].reporter /\ reports'[i].target = reports[i].target
    /\ reports'[i].recent => reports[i].recent
    /\ Pending(i)' => Pending(i)

LEMMA SumShrinks ==
  ASSUME NEW u,
         Cardinality(Recent(u)) + Cardinality(Filing(u)) <= MaxReports + Cardinality(Request) - 1,
         Recent(u)' \subseteq Recent(u), Filing(u)' \subseteq Filing(u)
  PROVE  Cardinality(Recent(u)') + Cardinality(Filing(u)') <= MaxReports + Cardinality(Request) - 1
<1>1. IsFiniteSet(Recent(u)') /\ Cardinality(Recent(u)') <= Cardinality(Recent(u))
  BY SetsFinite, FS_Subset
<1>2. IsFiniteSet(Filing(u)') /\ Cardinality(Filing(u)') <= Cardinality(Filing(u))
  BY SetsFinite, FS_Subset
<1>3. Cardinality(Recent(u)') \in Nat /\ Cardinality(Filing(u)') \in Nat
  BY <1>1, <1>2, FS_CardinalityType
<1>4. Cardinality(Recent(u)) \in Nat /\ Cardinality(Filing(u)) \in Nat
  BY SetsFinite
<1>5. MaxReports \in Nat /\ Cardinality(Request) \in Nat
  BY ModerationAssumption, FS_CardinalityType
<1>6. QED
  BY <1>1, <1>2, <1>3, <1>4, <1>5

LEMMA FadesKeeps ==
  ASSUME ReportsInv, doubled' = doubled,
         \A q \in Request : req'[q].pc = "report" => req'[q] = req[q],
         \A i \in ReportId : Fades(i)
  PROVE  ReportsInv'
<1>1. \A u, t : \A q \in Request : FilingOf(q, u, t)' => FilingOf(q, u, t)
  BY DEF FilingOf
<1>2. \A u, t : \A i \in ReportId : PendingOf(i, u, t)' => PendingOf(i, u, t)
  BY DEF PendingOf, Fades, Pending
<1>3. OneReport'
  BY <1>1, <1>2 DEF ReportsInv, OneReport
<1>4. WindowBounded'
  <2> SUFFICES ASSUME NEW u \in Reporter
               PROVE  Cardinality(Recent(u)') + Cardinality(Filing(u)')
                        <= MaxReports + Cardinality(Request) - 1
    BY DEF WindowBounded
  <2>1. Recent(u)' \subseteq Recent(u)
    BY DEF Recent, By, Fades
  <2>2. Filing(u)' \subseteq Filing(u)
    BY DEF Filing
  <2>3. QED
    BY <2>1, <2>2, SumShrinks DEF ReportsInv, WindowBounded
<1>5. QED
  BY <1>3, <1>4 DEF ReportsInv

LEMMA ClosedReports ==
  ASSUME TypeOK, ReportsInv, NEW r \in Request, Goto(r, Idle), doubled' = doubled,
         NEW t, NEW status \in {"dismissed", "actioned"}, Close(t, status)
  PROVE  ReportsInv'
<1>1. req'[r] = Idle /\ \A q \in Request \ {r} : req'[q] = req[q]
  BY GotoReq, HandlerShapes DEF TypeOK
<1>2. \A q \in Request : req'[q].pc = "report" => req'[q] = req[q]
  BY <1>1, HandlerShapes
<1>3. ASSUME NEW i \in ReportId PROVE Fades(i)
  <2>1. CASE reports'[i] = reports[i]
    BY <2>1 DEF Fades, Filed, Pending
  <2>2. CASE reports'[i] # reports[i]
    <3>1. Pending(i) /\ reports'[i] = [reports[i] EXCEPT !.status = status]
      BY <2>2 DEF Close
    <3>2. reports[i] \in Report
      BY <3>1 DEF Pending, Filed, TypeOK
    <3>3. /\ reports'[i].reporter = reports[i].reporter /\ reports'[i].target = reports[i].target
          /\ reports'[i].recent = reports[i].recent
      BY <3>1, <3>2 DEF Report
    <3>4. QED
      BY <3>1, <3>3 DEF Fades, Pending
  <2>3. QED
    BY <2>1, <2>2
<1>4. QED
  BY <1>2, <1>3, FadesKeeps

LEMMA WindowPassesReports ==
  ASSUME TypeOK, ReportsInv, NEW i \in ReportId, WindowPasses(i)
  PROVE  ReportsInv'
<1>1. reports[i] \in Report /\ doubled' = doubled /\ req' = req
  BY DEF WindowPasses, TypeOK, Filed
<1>2. reports'[i] = [reports[i] EXCEPT !.recent = FALSE]
  BY DEF WindowPasses, TypeOK
<1>3. /\ reports'[i].reporter = reports[i].reporter /\ reports'[i].target = reports[i].target
      /\ reports'[i].status = reports[i].status /\ ~reports'[i].recent
  BY <1>1, <1>2 DEF Report
<1>4. Fades(i)
  BY <1>3 DEF Fades, Pending, WindowPasses
<1>5. \A j \in ReportId \ {i} : reports'[j] = reports[j]
  BY DEF WindowPasses, TypeOK
<1>6. \A j \in ReportId \ {i} : Fades(j)
  BY <1>5 DEF Fades, Pending, Filed
<1>7. QED
  BY <1>1, <1>4, <1>6, FadesKeeps

\* One more on its way, of a user whose reports were under the limit.
LEMMA FileReportReports ==
  ASSUME TypeOK, ReportsInv, NEW r \in Request, NEW u \in Reporter, NEW t \in Target,
         FileReport(r, u, t)
  PROVE  ReportsInv'
<1>1. PICK h \in Handler : h = [pc |-> "report", reporter |-> u, target |-> t]
  BY HandlerShapes
<1>2. /\ Goto(r, h) /\ h.pc = "report" /\ h.reporter = u /\ h.target = t
      /\ ~ \E i \in By(u) : Pending(i) /\ reports[i].target = t
      /\ Cardinality(Recent(u)) < MaxReports
      /\ doubled' = IF \E s \in Others(r, "report") : req[s].reporter = u /\ req[s].target = t
                    THEN doubled \cup {<<u, t>>} ELSE doubled
      /\ reports' = reports
  BY <1>1 DEF FileReport
<1>3. req'[r] = h /\ \A q \in Request \ {r} : req'[q] = req[q]
  BY <1>2, GotoReq DEF TypeOK
<1>4. \A v, s : \A q \in Request :
        FilingOf(q, v, s)' => (q = r /\ v = u /\ s = t) \/ (q # r /\ FilingOf(q, v, s))
  BY <1>2, <1>3 DEF FilingOf
<1>5. \A v, s : \A i \in ReportId : PendingOf(i, v, s)' => PendingOf(i, v, s)
  BY <1>2 DEF PendingOf, Pending, Filed
<1>6. \A i \in ReportId : ~PendingOf(i, u, t)
  BY <1>2 DEF PendingOf, By, Pending
<1>7. <<u, t>> \notin doubled' => \A q \in Request \ {r} : ~FilingOf(q, u, t)
  BY <1>2 DEF FilingOf, Others
<1>8. OneReport'
  <2> SUFFICES ASSUME NEW v \in Reporter, NEW s \in Target, <<v, s>> \notin doubled'
               PROVE  /\ \A p, q \in Request : FilingOf(p, v, s)' /\ FilingOf(q, v, s)' => p = q
                      /\ \A q \in Request, i \in ReportId :
                           ~(FilingOf(q, v, s)' /\ PendingOf(i, v, s)')
                      /\ \A i, j \in ReportId :
                           PendingOf(i, v, s)' /\ PendingOf(j, v, s)' => i = j
    BY DEF OneReport
  <2>1. /\ \A p, q \in Request : FilingOf(p, v, s) /\ FilingOf(q, v, s) => p = q
        /\ \A q \in Request, i \in ReportId : ~(FilingOf(q, v, s) /\ PendingOf(i, v, s))
        /\ \A i, j \in ReportId : PendingOf(i, v, s) /\ PendingOf(j, v, s) => i = j
    BY <1>2 DEF ReportsInv, OneReport
  <2>2. CASE v = u /\ s = t
    BY <1>4, <1>5, <1>6, <1>7, <2>2
  <2>3. CASE ~(v = u /\ s = t)
    BY <1>4, <1>5, <2>1, <2>3
  <2>4. QED
    BY <2>2, <2>3
<1>9. WindowBounded'
  <2> SUFFICES ASSUME NEW v \in Reporter
               PROVE  Cardinality(Recent(v)') + Cardinality(Filing(v)')
                        <= MaxReports + Cardinality(Request) - 1
    BY DEF WindowBounded
  <2>1. Recent(v)' = Recent(v)
    BY <1>2 DEF Recent, By, Filed
  <2>2. CASE v = u
    <3>1. Filing(u)' \subseteq Request
      BY DEF Filing
    <3>2. /\ IsFiniteSet(Filing(u)') /\ Cardinality(Filing(u)') <= Cardinality(Request)
      BY <3>1, ModerationAssumption, FS_Subset
    <3>3. Cardinality(Filing(u)') \in Nat /\ Cardinality(Request) \in Nat
      BY <3>2, ModerationAssumption, FS_CardinalityType
    <3>4. Cardinality(Recent(u)) \in Nat /\ Cardinality(Recent(u)) < MaxReports
      BY <1>2, SetsFinite
    <3>5. QED
      BY <2>1, <2>2, <3>2, <3>3, <3>4, ModerationAssumption
  <2>3. CASE v # u
    <3>1. Filing(v)' \subseteq Filing(v)
      BY <1>2, <1>3, <2>3 DEF Filing
    <3>2. QED
      BY <2>1, <3>1, SumShrinks DEF ReportsInv, WindowBounded
  <2>4. QED
    BY <2>2, <2>3
<1>10. QED
  BY <1>8, <1>9 DEF ReportsInv

\* A report on its way becomes a row.
LEMMA InsertReportReports ==
  ASSUME TypeOK, ReportsInv, NEW r \in Request, NEW i \in ReportId, InsertReport(r, i)
  PROVE  ReportsInv'
<1>0. PICK u \in Reporter, t \in Target : u = req[r].reporter /\ t = req[r].target
  BY HandlerFields DEF InsertReport, TypeOK
<1>1. /\ FilingOf(r, u, t) /\ ~Filed(i) /\ Goto(r, Idle) /\ doubled' = doubled
      /\ reports' = [reports EXCEPT ![i] =
           [reporter |-> u, target |-> t, status |-> "pending", recent |-> TRUE]]
  BY <1>0 DEF InsertReport, FilingOf
<1>2. req'[r] = Idle /\ Idle.pc = "idle" /\ \A q \in Request \ {r} : req'[q] = req[q]
  BY <1>1, GotoReq, HandlerShapes DEF TypeOK
<1>3. reports'[i] = [reporter |-> u, target |-> t, status |-> "pending", recent |-> TRUE]
      /\ \A j \in ReportId \ {i} : reports'[j] = reports[j]
  BY <1>1 DEF TypeOK
<1>4. /\ Filed(i)' /\ Pending(i)' /\ reports'[i].reporter = u /\ reports'[i].target = t
      /\ reports'[i].recent
  BY <1>3 DEF Filed, Pending, NoRow
<1>5. \A j \in ReportId \ {i} : (Filed(j)' <=> Filed(j)) /\ (Pending(j)' <=> Pending(j))
  BY <1>3 DEF Filed, Pending
<1>6. \A v, s : \A q \in Request : FilingOf(q, v, s)' => q # r /\ FilingOf(q, v, s)
  BY <1>2 DEF FilingOf
<1>7. \A v, s : \A j \in ReportId :
        PendingOf(j, v, s)' => (j = i /\ v = u /\ s = t) \/ (j # i /\ PendingOf(j, v, s))
  BY <1>3, <1>4, <1>5 DEF PendingOf
<1>8. OneReport'
  <2> SUFFICES ASSUME NEW v \in Reporter, NEW s \in Target, <<v, s>> \notin doubled
               PROVE  /\ \A p, q \in Request : FilingOf(p, v, s)' /\ FilingOf(q, v, s)' => p = q
                      /\ \A q \in Request, j \in ReportId :
                           ~(FilingOf(q, v, s)' /\ PendingOf(j, v, s)')
                      /\ \A j, k \in ReportId :
                           PendingOf(j, v, s)' /\ PendingOf(k, v, s)' => j = k
    BY <1>1 DEF OneReport
  <2>1. /\ \A p, q \in Request : FilingOf(p, v, s) /\ FilingOf(q, v, s) => p = q
        /\ \A q \in Request, j \in ReportId : ~(FilingOf(q, v, s) /\ PendingOf(j, v, s))
        /\ \A j, k \in ReportId : PendingOf(j, v, s) /\ PendingOf(k, v, s) => j = k
    BY DEF ReportsInv, OneReport
  <2>2. CASE v = u /\ s = t
    <3>1. \A q \in Request : ~FilingOf(q, v, s)'
      BY <1>1, <1>6, <2>1, <2>2
    <3>2. \A j \in ReportId : PendingOf(j, v, s)' => j = i
      BY <1>1, <1>7, <2>1, <2>2
    <3>3. QED
      BY <3>1, <3>2
  <2>3. CASE ~(v = u /\ s = t)
    BY <1>6, <1>7, <2>1, <2>3
  <2>4. QED
    BY <2>2, <2>3
<1>9. WindowBounded'
  <2> SUFFICES ASSUME NEW v \in Reporter
               PROVE  Cardinality(Recent(v)') + Cardinality(Filing(v)')
                        <= MaxReports + Cardinality(Request) - 1
    BY DEF WindowBounded
  <2>1. Cardinality(Recent(v)) + Cardinality(Filing(v)) <= MaxReports + Cardinality(Request) - 1
    BY DEF ReportsInv, WindowBounded
  <2>2. CASE v = u
    <3>1. i \notin Recent(u) /\ r \in Filing(u)
      BY <1>1 DEF Recent, By, Filing, FilingOf
    <3>2. Recent(u)' = Recent(u) \cup {i}
      BY <1>3, <1>4, <1>5 DEF Recent, By
    <3>3. Filing(u)' = Filing(u) \ {r}
      BY <1>2 DEF Filing
    <3>4. Cardinality(Recent(u)') = Cardinality(Recent(u)) + 1
      BY <3>1, <3>2, SetsFinite, FS_AddElement
    <3>5. Cardinality(Filing(u)') = Cardinality(Filing(u)) - 1
      BY <3>1, <3>3, SetsFinite, FS_RemoveElement
    <3>6. Cardinality(Recent(u)) \in Nat /\ Cardinality(Filing(u)) \in Nat
      BY SetsFinite
    <3>7. QED
      BY <2>1, <2>2, <3>4, <3>5, <3>6
  <2>3. CASE v # u
    <3>1. Recent(v)' \subseteq Recent(v)
      BY <1>3, <1>4, <1>5, <2>3 DEF Recent, By
    <3>2. Filing(v)' \subseteq Filing(v)
      BY <1>2 DEF Filing
    <3>3. QED
      BY <2>1, <3>1, <3>2, SumShrinks
  <2>4. QED
    BY <2>2, <2>3
<1>10. QED
  BY <1>8, <1>9 DEF ReportsInv

LEMMA ReportsInit == Init => ReportsInv
<1> SUFFICES ASSUME Init PROVE ReportsInv
  OBVIOUS
<1>1. \A r \in Request : req[r].pc = "idle"
  BY HandlerShapes DEF Init
<1>2. \A i \in ReportId : ~Filed(i)
  BY DEF Init, Filed
<1>3. OneReport
  BY <1>1, <1>2 DEF OneReport, FilingOf, PendingOf, Pending
<1>4. WindowBounded
  <2> SUFFICES ASSUME NEW u \in Reporter
               PROVE  Cardinality(Recent(u)) + Cardinality(Filing(u))
                        <= MaxReports + Cardinality(Request) - 1
    BY DEF WindowBounded
  <2>1. Recent(u) = {} /\ Filing(u) = {}
    BY <1>1, <1>2 DEF Recent, By, Filing
  <2>2. Cardinality(Request) \in Nat
    BY ModerationAssumption, FS_CardinalityType
  <2>3. QED
    BY <2>1, <2>2, FS_EmptySet, ModerationAssumption
<1>5. QED
  BY <1>3, <1>4 DEF ReportsInv

LEMMA ReportsNext == TypeOK /\ ReportsInv /\ [Next]_vars => ReportsInv'
<1> SUFFICES ASSUME TypeOK, ReportsInv, [Next]_vars
             PROVE  ReportsInv'
  OBVIOUS
<1>1. ASSUME NEW i \in ReportId, WindowPasses(i) PROVE ReportsInv'
  BY <1>1, WindowPassesReports
<1>2. ASSUME NEW r \in Request, NEW h, Goto(r, h), h.pc # "report",
             UNCHANGED <<reports, doubled>>
      PROVE  ReportsInv'
  <2>1. req'[r] = h /\ \A q \in Request \ {r} : req'[q] = req[q]
    BY <1>2 DEF Goto, TypeOK
  <2>2. \A i \in ReportId : Fades(i)
    BY <1>2 DEF Fades, Filed, Pending
  <2>3. QED
    BY <1>2, <2>1, <2>2, FadesKeeps
<1>3. ASSUME NEW r \in Request, BeginUser(r) PROVE ReportsInv'
  <2>1. ASSUME NEW c \in Content, Delete(r, c) PROVE ReportsInv'
    BY <1>2, <2>1 DEF Delete
  <2>2. ASSUME NEW t \in Target, FileAppeal(r, t) PROVE ReportsInv'
    BY <1>2, <2>2 DEF FileAppeal
  <2>3. QED
    BY <1>3, <2>1, <2>2, FileReportReports DEF BeginUser
<1>4. ASSUME NEW r \in Request, BeginAdmin(r) PROVE ReportsInv'
  <2>1. ASSUME NEW t \in Target, NEW action, Resolve(r, t, action) PROVE ReportsInv'
    BY <1>2, <2>1 DEF Resolve
  <2>2. ASSUME NEW a \in AppealId, NEW grant, Review(r, a, grant) PROVE ReportsInv'
    BY <1>2, <2>2 DEF Review
  <2>3. QED
    BY <1>4, <2>1, <2>2 DEF BeginAdmin
<1>5. ASSUME NEW r \in Request, Continue(r) PROVE ReportsInv'
  <2>1. ASSUME TakeHold(r) PROVE ReportsInv'
    BY <1>2, <2>1 DEF TakeHold
  <2>2. ASSUME CommitTakedown(r) PROVE ReportsInv'
    BY <2>2, ClosedReports DEF CommitTakedown
  <2>3. ASSUME CommitReports(r) PROVE ReportsInv'
    BY <2>3, ClosedReports DEF CommitReports
  <2>4. ASSUME StampAuthor(r) PROVE ReportsInv'
    BY <1>2, <2>4 DEF StampAuthor
  <2>5. ASSUME DestroyOwn(r) PROVE ReportsInv'
    BY <1>2, <2>5, HandlerShapes DEF DestroyOwn
  <2>6. ASSUME NEW a \in AppealId, InsertAppeal(r, a) PROVE ReportsInv'
    BY <1>2, <2>6, HandlerShapes DEF InsertAppeal
  <2>7. ASSUME JudgeTarget(r) PROVE ReportsInv'
    BY <1>2, <2>7 DEF JudgeTarget
  <2>8. ASSUME HoldRestored(r) PROVE ReportsInv'
    BY <1>2, <2>8 DEF HoldRestored
  <2>9. ASSUME CommitRestore(r) PROVE ReportsInv'
    BY <1>2, <2>9, HandlerShapes DEF CommitRestore, Decide
  <2>10. ASSUME CommitDecision(r) PROVE ReportsInv'
    BY <1>2, <2>10, HandlerShapes DEF CommitDecision, Decide
  <2>11. ASSUME Abort(r) PROVE ReportsInv'
    BY <1>2, <2>11, HandlerShapes DEF Abort
  <2>12. QED
    BY <1>5, <2>1, <2>2, <2>3, <2>4, <2>5, <2>6, <2>7, <2>8, <2>9, <2>10, <2>11,
       InsertReportReports DEF Continue
<1>6. CASE UNCHANGED vars
  <2>1. UNCHANGED <<reports, req, doubled>>
    BY <1>6 DEF vars
  <2>2. \A i \in ReportId : Fades(i)
    BY <2>1 DEF Fades, Filed, Pending
  <2>3. QED
    BY <2>1, <2>2, FadesKeeps
<1>7. QED
  BY <1>1, <1>3, <1>4, <1>5, <1>6 DEF Next

\* One open appeal of a target and one open report of it by a user, but for those that
\* crossed; the window's limit is passed by no more than were counted together.
THEOREM OneOpenCaseHolds == Spec => []OneOpenCase
<1>1. Init => TypeOK /\ AppealsInv /\ ReportsInv
  BY TypeInit, AppealsInit, ReportsInit
<1>2. TypeOK /\ AppealsInv /\ ReportsInv /\ [Next]_vars => (TypeOK /\ AppealsInv /\ ReportsInv)'
  BY TypeNext, AppealsNext, ReportsNext
<1>3. TypeOK /\ AppealsInv /\ ReportsInv => OneOpenCase
  <2> SUFFICES ASSUME TypeOK, AppealsInv, ReportsInv
               PROVE  OneOpenCase
    OBVIOUS
  <2>1. ASSUME NEW a \in AppealId, NEW b \in AppealId,
               OpenAppeal(a), OpenAppeal(b), TargetOf(a) = TargetOf(b)
        PROVE  a = b \/ TargetOf(a) \in contested
    <3>1. TargetOf(a) \in Target
      BY <2>1, RowFields DEF OpenAppeal, TargetOf
    <3>2. QED
      BY <2>1, <3>1 DEF AppealsInv, OneAppeal, OpenFor
  <2>2. ASSUME NEW i \in ReportId, NEW j \in ReportId, Pending(i), Pending(j),
               reports[i].reporter = reports[j].reporter, reports[i].target = reports[j].target
        PROVE  i = j \/ <<reports[i].reporter, reports[i].target>> \in doubled
    <3>1. reports[i].reporter \in Reporter /\ reports[i].target \in Target
      BY <2>2, RowFields DEF Pending
    <3>2. QED
      BY <2>2, <3>1 DEF ReportsInv, OneReport, PendingOf
  <2>3. ASSUME NEW u \in Reporter
        PROVE  Cardinality(Recent(u)) <= MaxReports + Cardinality(Request) - 1
    <3>1. Cardinality(Recent(u)) + Cardinality(Filing(u)) <= MaxReports + Cardinality(Request) - 1
      BY DEF ReportsInv, WindowBounded
    <3>2. Cardinality(Recent(u)) \in Nat /\ Cardinality(Filing(u)) \in Nat
      BY SetsFinite
    <3>3. Cardinality(Request) \in Nat
      BY ModerationAssumption, FS_CardinalityType
    <3>4. QED
      BY <3>1, <3>2, <3>3, ModerationAssumption
  <2>4. QED
    BY <2>1, <2>2, <2>3 DEF OneOpenCase
<1>4. QED
  BY <1>1, <1>2, <1>3, PTL DEF Spec

================================================================================
