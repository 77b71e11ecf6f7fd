--------------------------- MODULE ModerationProofs ---------------------------
(***************************************************************************)
(* For every set of users and every threshold: types, that the clean-up of  *)
(* pending photos loses no result, and that calls which do not overlap keep *)
(* a post hidden exactly for the reports it has.                            *)
(***************************************************************************)
EXTENDS Moderation, FiniteSetTheorems, TLAPS

LEMMA UsersFinite == IsFiniteSet(Users) /\ Cardinality(Users) \in Nat
  BY ModerationAssumption, FS_CardinalityType

LEMMA Constants ==
  HideAt \in Nat /\ HideAt > 0 /\ MilestoneEvery \in Nat /\ MilestoneEvery > 0
  BY ModerationAssumption

LEMMA CountInRange ==
  ASSUME NEW S \in SUBSET Users
  PROVE  Cardinality(S) \in 0..Cardinality(Users) /\ Cardinality(S) \in Nat
  <1>1. IsFiniteSet(S) /\ Cardinality(S) <= Cardinality(Users)
    BY UsersFinite, FS_Subset
  <1> QED BY <1>1, UsersFinite, FS_CardinalityType

(* One report more never lowers the count, one less never raises it. *)
LEMMA CountMonotone ==
  ASSUME NEW S \in SUBSET Users, NEW u \in Users
  PROVE  /\ Cardinality(S) <= Cardinality(S \cup {u})
         /\ Cardinality(S \ {u}) <= Cardinality(S)
  <1>1. IsFiniteSet(S) /\ IsFiniteSet(S \cup {u})
    BY UsersFinite, FS_Subset
  <1>2. S \subseteq S \cup {u} /\ S \ {u} \subseteq S
    OBVIOUS
  <1> QED BY <1>1, <1>2, FS_Subset

-----------------------------------------------------------------------------
(* Types. *)

CallType == [at : {"idle", "report", "judged", "unreport", "vote"},
             n : 0..Cardinality(Users), vote : {-1, 0, 1},
             why : {"nobody", "reports", "votes"}]

(* A pothole is not run through the detector again. *)
PotholeHasNoRun == kind = "pothole" => detection = "nothing"

Typed == TypeOK /\ PotholeHasNoRun

LEMMA StartTyped ==
  ASSUME Typed, NEW u \in Users, NEW t \in CallType, Start(u, t)
  PROVE  Typed'
  <1>1. call' \in [Users -> CallType]
    BY DEF Typed, TypeOK, Start, CallType
  <1>2. alone' \subseteq Users /\ overlapped' \in BOOLEAN
    BY DEF Typed, TypeOK, Start
  <1> QED BY <1>1, <1>2
       DEF Typed, TypeOK, PotholeHasNoRun, Start, CallType, post, history

LEMMA CallsTyped ==
  ASSUME NEW u \in Users
  PROVE  /\ NoCall \in CallType
         /\ Typed => Call("report", Reporting(u), 0, "nobody") \in CallType
         /\ Typed => Call("unreport", Remaining(u), 0, "nobody") \in CallType
         /\ \A v \in {-1, 1} :
              Call("vote", IF v = 1 THEN Upvotes(u) ELSE 0, v, "nobody") \in CallType
  <1>1. 0 \in 0..Cardinality(Users)
    BY UsersFinite
  <1>2. ASSUME Typed
        PROVE  Reporting(u) \in 0..Cardinality(Users) /\ Remaining(u) \in 0..Cardinality(Users)
    <2>1. (reports \cup {u}) \in SUBSET Users /\ (reports \ {u}) \in SUBSET Users
      BY <1>2 DEF Typed, TypeOK
    <2> QED BY <2>1, CountInRange DEF Reporting, Remaining
  <1>3. Upvotes(u) \in 0..Cardinality(Users)
    BY CountInRange DEF Upvotes, Votes
  <1> QED BY <1>1, <1>2, <1>3 DEF NoCall, Call, CallType

LEMMA NextTyped == Typed /\ [Next]_vars => Typed'
  <1> SUFFICES ASSUME Typed, [Next]_vars PROVE Typed'
    OBVIOUS
  <1>1. ASSUME NEW u \in Users, CountReports(u) PROVE Typed'
    BY <1>1, StartTyped, CallsTyped DEF CountReports
  <1>2. ASSUME NEW u \in Users, JudgeReport(u) PROVE Typed'
    <2>1. call' \in [Users -> CallType]
      BY <1>2 DEF JudgeReport, Call, Typed, TypeOK, CallType
    <2> QED BY <1>2, <2>1 DEF JudgeReport, Typed, TypeOK, PotholeHasNoRun, CallType, post, history
  <1>3. ASSUME NEW u \in Users, EndReport(u) PROVE Typed'
    <2>1. call' \in [Users -> CallType] /\ alone' \subseteq Users
      BY <1>3, CallsTyped DEF EndReport, Commit, Typed, TypeOK, CallType
    <2>2. call[u].why \in {"nobody", "reports", "votes"}
      BY DEF Typed, TypeOK
    <2> QED BY <1>3, <2>1, <2>2 DEF EndReport, Commit, Typed, TypeOK, PotholeHasNoRun, CallType
  <1>4. ASSUME NEW u \in Users, CountRemaining(u) PROVE Typed'
    BY <1>4, StartTyped, CallsTyped DEF CountRemaining
  <1>5. ASSUME NEW u \in Users, EndUnreport(u) PROVE Typed'
    <2>1. call' \in [Users -> CallType] /\ alone' \subseteq Users
      BY <1>5, CallsTyped DEF EndUnreport, Commit, Typed, TypeOK, CallType
    <2> QED BY <1>5, <2>1
         DEF EndUnreport, Commit, Overwrite, Shown, Typed, TypeOK, PotholeHasNoRun, CallType
  <1>6. ASSUME NEW u \in Users, NEW v \in {-1, 1}, CountVotes(u, v) PROVE Typed'
    BY <1>6, StartTyped, CallsTyped DEF CountVotes
  <1>7. ASSUME NEW u \in Users, EndVote(u) PROVE Typed'
    <2>1. call' \in [Users -> CallType] /\ alone' \subseteq Users
      BY <1>7, CallsTyped DEF EndVote, Commit, Typed, TypeOK, CallType
    <2>2. votes' \in [Users -> {-1, 0, 1}] /\ told' \in 0..Cardinality(Users)
      BY <1>7 DEF EndVote, Typed, TypeOK
    <2> QED BY <1>7, <2>1, <2>2 DEF EndVote, Commit, Typed, TypeOK, PotholeHasNoRun, CallType
  <1>8. ASSUME NEW u \in Users, Unvote(u) PROVE Typed'
    <2>1. votes' \in [Users -> {-1, 0, 1}] /\ alone' \subseteq Users /\ overlapped' \in BOOLEAN
      BY <1>8 DEF Unvote, Typed, TypeOK
    <2> QED BY <1>8, <2>1 DEF Unvote, Typed, TypeOK, PotholeHasNoRun, post, history
  <1>9. ASSUME AdminHide \/ AdminShow PROVE Typed'
    BY <1>9 DEF AdminHide, AdminShow, Overwrite, Shown, Typed, TypeOK, PotholeHasNoRun
  <1>10. ASSUME Recaption \/ EditCaption \/ FinishDetection \/ ExpirePending PROVE Typed'
    BY <1>10 DEF Recaption, EditCaption, FinishDetection, ExpirePending, Stale,
                 Overwrite, others, Typed, TypeOK, PotholeHasNoRun
  <1>11. CASE UNCHANGED vars
    BY <1>11 DEF vars, post, history, Typed, TypeOK, PotholeHasNoRun
  <1> QED BY <1>1, <1>2, <1>3, <1>4, <1>5, <1>6, <1>7, <1>8, <1>9, <1>10, <1>11 DEF Next

LEMMA InitTyped == Init => Typed
  <1> SUFFICES ASSUME Init PROVE Typed
    OBVIOUS
  <1>1. told \in 0..Cardinality(Users) /\ reports \subseteq Users /\ alone \subseteq Users
    BY UsersFinite DEF Init
  <1>2. call \in [Users -> CallType]
    BY CallsTyped DEF Init
  <1>3. votes \in [Users -> {-1, 0, 1}]
    BY DEF Init
  <1> QED BY <1>1, <1>2, <1>3 DEF Init, Typed, TypeOK, PotholeHasNoRun, CallType

(* Types hold, for all users, thresholds and overlaps. *)
THEOREM TypeCorrect == Spec => []TypeOK
  <1>1. Typed => TypeOK
    BY DEF Typed
  <1> QED BY <1>1, InitTyped, NextTyped, PTL DEF Spec

(* No clean-up by another upload overwrites the detector's result.          *)
THEOREM ResultSurvives == Spec => []ResultKept
  <1>1. Init => ResultKept
    BY DEF Init, ResultKept
  <1>2. Typed /\ ResultKept /\ [Next]_vars => ResultKept'
    <2> SUFFICES ASSUME Typed, ResultKept, [Next]_vars PROVE ResultKept'
      OBVIOUS
    <2>1. ASSUME NEW u \in Users, EndReport(u) PROVE ResultKept'
      BY <2>1 DEF EndReport, Commit, ResultKept
    <2>2. ASSUME NEW u \in Users, EndUnreport(u) PROVE ResultKept'
      BY <2>2 DEF EndUnreport, Commit, Overwrite, ResultKept
    <2>3. ASSUME AdminHide \/ AdminShow PROVE ResultKept'
      BY <2>3 DEF AdminHide, AdminShow, Overwrite, ResultKept, Typed, PotholeHasNoRun
    <2>4. ASSUME Recaption \/ EditCaption PROVE ResultKept'
      BY <2>4 DEF Recaption, EditCaption, ResultKept, Typed, PotholeHasNoRun
    <2>5. ASSUME FinishDetection PROVE ResultKept'
      BY <2>5 DEF FinishDetection, Overwrite, ResultKept
    <2>6. ASSUME ExpirePending PROVE ResultKept'
      BY <2>6 DEF ExpirePending, Stale, Overwrite, ResultKept
    <2>7. ASSUME UNCHANGED <<mark, detection, last>> PROVE ResultKept'
      BY <2>7 DEF ResultKept
    <2>8. ASSUME NEW u \in Users,
                 \/ CountReports(u) \/ JudgeReport(u) \/ CountRemaining(u)
                 \/ (\E v \in {-1, 1} : CountVotes(u, v)) \/ EndVote(u) \/ Unvote(u)
          PROVE  UNCHANGED <<mark, detection, last>>
      BY <2>8 DEF CountReports, JudgeReport, CountRemaining, CountVotes, EndVote, Unvote,
                  Start, Commit, post, history
    <2> QED BY <2>1, <2>2, <2>3, <2>4, <2>5, <2>6, <2>7, <2>8 DEF Next, vars, post, history
  <1> QED BY <1>1, <1>2, InitTyped, NextTyped, PTL DEF Spec

-----------------------------------------------------------------------------
(* Calls that do not overlap. *)

OneAtATime == \A u, v \in Users : call[u] # NoCall /\ call[v] # NoCall => u = v

(* What a call has counted is still so: nobody has committed since. *)
CountsCurrent == \A u \in Users :
  /\ call[u].at \in {"report", "judged"} => call[u].n = Cardinality(reports \cup {u})
  /\ call[u].at = "unreport" => call[u].n = Cardinality(reports \ {u})

(* A report judges as it has counted, whatever overlaps it. *)
Judged == \A u \in Users :
  call[u].at = "judged" => (call[u].why = "reports" <=> call[u].n >= HideAt)

CauseHides == last \in {"reports", "votes", "admin"} <=> Hidden

SerialInv ==
  /\ Typed /\ Judged /\ CauseHides
  /\ ~overlapped => OneAtATime /\ CountsCurrent
  /\ ReportedIsHidden /\ HiddenIsReported

LEMMA NoCallIsIdle == NoCall.at = "idle"
  BY DEF NoCall, Call

(* A call that starts when none is in flight is alone, and has just counted. *)
LEMMA StartSerial ==
  ASSUME SerialInv, NEW u \in Users, NEW t \in CallType, Start(u, t), Typed',
         t.at \in {"report", "unreport", "vote"},
         t.at = "report" => t.n = Cardinality(reports \cup {u}),
         t.at = "unreport" => t.n = Cardinality(reports \ {u})
  PROVE  SerialInv'
  <1>1. call' = [call EXCEPT ![u] = t] /\ call \in [Users -> CallType]
    BY DEF Start, SerialInv, Typed, TypeOK, CallType
  <1>2. UNCHANGED <<reports, mark, last>>
    BY DEF Start, post, history
  <1>3. Judged'
    BY <1>1 DEF SerialInv, Judged
  <1>4. CauseHides' /\ Hidden' = Hidden
    BY <1>2 DEF SerialInv, CauseHides, Hidden
  <1>5. ~overlapped' => OneAtATime' /\ CountsCurrent'
    <2> SUFFICES ASSUME ~overlapped' PROVE OneAtATime' /\ CountsCurrent'
      OBVIOUS
    <2>1. ~overlapped /\ \A v \in Users : call[v] = NoCall
      BY DEF Start, InFlight
    <2>2. OneAtATime'
      BY <1>1, <2>1 DEF OneAtATime
    <2>3. CountsCurrent'
      BY <1>1, <1>2, <2>1, NoCallIsIdle DEF CountsCurrent
    <2> QED BY <2>2, <2>3
  <1>6. ReportedIsHidden' /\ HiddenIsReported'
    BY <1>2, <1>4 DEF Start, SerialInv, ReportedIsHidden, HiddenIsReported
  <1> QED BY <1>3, <1>4, <1>5, <1>6 DEF SerialInv

(* While calls do not overlap, a call that ends leaves none in flight. *)
LEMMA EndSerial ==
  ASSUME SerialInv, NEW u \in Users, call[u] # NoCall, Commit(u), ~overlapped'
  PROVE  OneAtATime' /\ CountsCurrent'
  <1>1. call \in [Users -> CallType]
    BY DEF SerialInv, Typed, TypeOK, CallType
  <1>2. \A v \in Users : call'[v] = NoCall
    BY <1>1 DEF Commit, SerialInv, OneAtATime
  <1> QED BY <1>2, NoCallIsIdle DEF OneAtATime, CountsCurrent

LEMMA EndJudged ==
  ASSUME SerialInv, NEW u \in Users, Commit(u)
  PROVE  Judged'
  <1>1. call \in [Users -> CallType]
    BY DEF SerialInv, Typed, TypeOK, CallType
  <1> QED BY <1>1, NoCallIsIdle DEF Commit, SerialInv, Judged

LEMMA ReportSerial ==
  ASSUME SerialInv, NEW u \in Users, EndReport(u), Typed'
  PROVE  SerialInv'
  <1>1. call[u] # NoCall /\ Commit(u)
    BY NoCallIsIdle DEF EndReport
  <1>2. call[u].why \in {"nobody", "reports", "votes"} /\ call[u].n \in 0..Cardinality(Users)
    BY DEF SerialInv, Typed, TypeOK
  <1>3. CauseHides'
    BY <1>2 DEF EndReport, SerialInv, CauseHides, Hidden
  <1>4. ~overlapped' => ReportedIsHidden' /\ HiddenIsReported'
    <2> SUFFICES ASSUME ~overlapped' PROVE ReportedIsHidden' /\ HiddenIsReported'
      OBVIOUS
    <2>1. ~overlapped
      BY <1>1 DEF Commit
    <2>2. call[u].n = Cardinality(reports')
      BY <2>1 DEF EndReport, SerialInv, CountsCurrent
    <2>3. call[u].why = "reports" <=> Cardinality(reports') >= HideAt
      BY <2>2 DEF EndReport, SerialInv, Judged
    <2>4. CASE call[u].why = "reports"
      BY <2>3, <2>4 DEF EndReport, ReportedIsHidden, HiddenIsReported, Hidden
    <2>5. CASE call[u].why = "votes"
      BY <2>5 DEF EndReport, ReportedIsHidden, HiddenIsReported, Hidden
    <2>6. CASE call[u].why = "nobody"
      <3>1. reports \in SUBSET Users
        BY DEF SerialInv, Typed, TypeOK
      <3>2. Cardinality(reports) <= Cardinality(reports')
        BY <3>1, CountMonotone DEF EndReport
      <3>3. Cardinality(reports) \in Nat /\ Cardinality(reports') \in Nat
        BY <1>2, <2>2, <3>1, UsersFinite, CountInRange
      <3>4. ~(Cardinality(reports') >= HideAt)
        BY <2>3, <2>6
      <3>5. ~(Cardinality(reports) >= HideAt)
        BY <3>2, <3>3, <3>4, Constants
      <3> QED BY <2>1, <2>6, <3>4, <3>5
           DEF EndReport, SerialInv, ReportedIsHidden, HiddenIsReported
    <2> QED BY <1>2, <2>4, <2>5, <2>6
  <1>5. ReportedIsHidden' /\ HiddenIsReported'
    BY <1>4 DEF ReportedIsHidden, HiddenIsReported
  <1> QED BY <1>1, <1>3, <1>5, EndSerial, EndJudged DEF SerialInv

LEMMA UnreportSerial ==
  ASSUME SerialInv, NEW u \in Users, EndUnreport(u), Typed'
  PROVE  SerialInv'
  <1>1. call[u] # NoCall /\ Commit(u)
    BY NoCallIsIdle DEF EndUnreport
  <1>2. Shown # "hidden"
    BY DEF Shown
  <1>3. CauseHides'
    BY <1>2 DEF EndUnreport, Overwrite, SerialInv, CauseHides, Hidden
  <1>4. ~overlapped' => ReportedIsHidden' /\ HiddenIsReported'
    <2> SUFFICES ASSUME ~overlapped' PROVE ReportedIsHidden' /\ HiddenIsReported'
      OBVIOUS
    <2>1. ~overlapped
      BY <1>1 DEF Commit
    <2>2. call[u].n = Cardinality(reports')
      BY <2>1 DEF EndUnreport, SerialInv, CountsCurrent
    <2>3. reports \in SUBSET Users
      BY DEF SerialInv, Typed, TypeOK
    <2>4. Cardinality(reports') <= Cardinality(reports)
      BY <2>3, CountMonotone DEF EndUnreport
    <2>5. Cardinality(reports) \in Nat /\ Cardinality(reports') \in Nat
      <3>1. reports' \in SUBSET Users
        BY <2>3 DEF EndUnreport
      <3> QED BY <2>3, <3>1, CountInRange
    <2>6. Cardinality(reports') >= HideAt => Cardinality(reports) >= HideAt
      BY <2>4, <2>5, Constants
    <2>7. CASE call[u].n < HideAt /\ Hidden
      BY <2>7 DEF EndUnreport, Overwrite, ReportedIsHidden, HiddenIsReported
    <2>8. CASE ~(call[u].n < HideAt)
      <3>1. Cardinality(reports') >= HideAt
        BY <2>2, <2>5, <2>8, Constants
      <3> QED BY <2>1, <2>6, <2>8, <3>1
           DEF EndUnreport, SerialInv, ReportedIsHidden, HiddenIsReported, Hidden
    <2>9. CASE ~Hidden
      BY <2>1, <2>6, <2>9
         DEF EndUnreport, SerialInv, ReportedIsHidden, HiddenIsReported, CauseHides, Hidden
    <2> QED BY <2>7, <2>8, <2>9
  <1>5. ReportedIsHidden' /\ HiddenIsReported'
    BY <1>4 DEF ReportedIsHidden, HiddenIsReported
  <1> QED BY <1>1, <1>3, <1>5, EndSerial, EndJudged DEF SerialInv

(* The admin, the pipeline, the author and the detector write the column only. *)
LEMMA ColumnSerial ==
  ASSUME SerialInv, Typed', UNCHANGED <<reports, call, overlapped>>,
         \/ mark' = "hidden" /\ last' = "admin"
         \/ mark' # "hidden" /\ last' = IF Hidden THEN "overwriter" ELSE last
         \/ UNCHANGED <<mark, last>>
  PROVE  SerialInv'
  <1>1. Judged' /\ (OneAtATime' <=> OneAtATime) /\ (CountsCurrent' <=> CountsCurrent)
    BY DEF SerialInv, Judged, OneAtATime, CountsCurrent
  <1>2. CauseHides'
    BY DEF SerialInv, CauseHides, Hidden
  <1>3. ReportedIsHidden' /\ HiddenIsReported'
    BY DEF SerialInv, ReportedIsHidden, HiddenIsReported, CauseHides, Hidden
  <1> QED BY <1>1, <1>2, <1>3 DEF SerialInv

LEMMA NextSerial == SerialInv /\ [Next]_vars => SerialInv'
  <1> SUFFICES ASSUME SerialInv, [Next]_vars PROVE SerialInv'
    OBVIOUS
  <1> Typed' BY NextTyped DEF SerialInv
  <1> Typed BY DEF SerialInv
  <1>1. ASSUME NEW u \in Users, CountReports(u) PROVE SerialInv'
    BY <1>1, CallsTyped, StartSerial DEF CountReports, Call, Reporting
  <1>2. ASSUME NEW u \in Users, CountRemaining(u) PROVE SerialInv'
    BY <1>2, CallsTyped, StartSerial DEF CountRemaining, Call, Remaining
  <1>3. ASSUME NEW u \in Users, NEW v \in {-1, 1}, CountVotes(u, v) PROVE SerialInv'
    BY <1>3, CallsTyped, StartSerial DEF CountVotes, Call
  <1>4. ASSUME NEW u \in Users, JudgeReport(u) PROVE SerialInv'
    <2>1. call \in [Users -> CallType] /\ call[u].n \in 0..Cardinality(Users)
      BY DEF Typed, TypeOK, CallType
    <2>2. /\ \A v \in Users \ {u} : call'[v] = call[v]
          /\ call'[u].at = "judged" /\ call'[u].n = call[u].n
          /\ call'[u].why = "reports" <=> call[u].n >= HideAt
      BY <1>4, <2>1 DEF JudgeReport, Call
    <2>3. Judged'
      BY <2>2 DEF SerialInv, Judged
    <2>4. UNCHANGED <<reports, mark, last, overlapped>>
      BY <1>4 DEF JudgeReport, post, history
    <2>5. ~overlapped' => OneAtATime' /\ CountsCurrent'
      <3> SUFFICES ASSUME ~overlapped PROVE OneAtATime' /\ CountsCurrent'
        BY <2>4
      <3>1. call[u] # NoCall /\ call[u].at = "report"
        BY <1>4, NoCallIsIdle DEF JudgeReport
      <3>2. OneAtATime'
        BY <2>2, <3>1 DEF SerialInv, OneAtATime
      <3>3. CountsCurrent'
        BY <2>2, <2>4, <3>1 DEF SerialInv, CountsCurrent
      <3> QED BY <3>2, <3>3
    <2>6. CauseHides' /\ ReportedIsHidden' /\ HiddenIsReported'
      BY <2>4 DEF SerialInv, CauseHides, Hidden, ReportedIsHidden, HiddenIsReported
    <2> QED BY <2>3, <2>5, <2>6 DEF SerialInv
  <1>5. ASSUME NEW u \in Users, EndReport(u) PROVE SerialInv'
    BY <1>5, ReportSerial
  <1>6. ASSUME NEW u \in Users, EndUnreport(u) PROVE SerialInv'
    BY <1>6, UnreportSerial
  <1>7. ASSUME NEW u \in Users, EndVote(u) PROVE SerialInv'
    <2>1. call[u] # NoCall /\ Commit(u) /\ UNCHANGED <<reports, mark, last, overlapped>>
      BY <1>7, NoCallIsIdle DEF EndVote, Commit
    <2>2. CauseHides' /\ ReportedIsHidden' /\ HiddenIsReported'
      BY <2>1 DEF SerialInv, CauseHides, Hidden, ReportedIsHidden, HiddenIsReported
    <2> QED BY <2>1, <2>2, EndSerial, EndJudged DEF SerialInv
  <1>8. ASSUME NEW u \in Users, Unvote(u) PROVE SerialInv'
    <2>1. UNCHANGED <<call, reports, mark, last>> /\ (~overlapped' => ~overlapped)
      BY <1>8 DEF Unvote, post, history
    <2>2. /\ Judged' /\ CauseHides' /\ ReportedIsHidden' /\ HiddenIsReported'
          /\ (OneAtATime' <=> OneAtATime) /\ (CountsCurrent' <=> CountsCurrent)
      BY <2>1 DEF SerialInv, Judged, CauseHides, Hidden, ReportedIsHidden, HiddenIsReported,
                  OneAtATime, CountsCurrent
    <2> QED BY <2>1, <2>2 DEF SerialInv
  <1>9. ASSUME AdminHide \/ AdminShow PROVE SerialInv'
    BY <1>9, ColumnSerial DEF AdminHide, AdminShow, Overwrite, Shown
  <1>10. ASSUME Recaption \/ EditCaption \/ FinishDetection \/ ExpirePending PROVE SerialInv'
    BY <1>10, ColumnSerial
       DEF Recaption, EditCaption, FinishDetection, ExpirePending, Overwrite, others
  <1>11. CASE UNCHANGED vars
    BY <1>11, ColumnSerial DEF vars, post, history
  <1> QED BY <1>1, <1>2, <1>3, <1>4, <1>5, <1>6, <1>7, <1>8, <1>9, <1>10, <1>11 DEF Next

LEMMA InitSerial == Init => SerialInv
  <1> SUFFICES ASSUME Init PROVE SerialInv
    OBVIOUS
  <1>1. Typed
    BY InitTyped
  <1>2. \A u \in Users : call[u] = NoCall
    BY DEF Init
  <1>3. Judged /\ OneAtATime /\ CountsCurrent
    BY <1>2, NoCallIsIdle DEF Judged, OneAtATime, CountsCurrent
  <1>4. Cardinality(reports) = 0 /\ ~(0 >= HideAt)
    BY FS_EmptySet, Constants DEF Init
  <1>5. CauseHides /\ ReportedIsHidden /\ HiddenIsReported
    BY <1>4 DEF Init, CauseHides, Hidden, ReportedIsHidden, HiddenIsReported
  <1> QED BY <1>1, <1>3, <1>5 DEF SerialInv

(* Enough reports hide a post, in the column all readers look at, until     *)
(* another writer of that column shows it; calls one after the other.       *)
THEOREM ReportsHide == Spec => []ReportedIsHidden
  <1>1. SerialInv => ReportedIsHidden
    BY DEF SerialInv
  <1> QED BY <1>1, InitSerial, NextSerial, PTL DEF Spec

(* No post stays hidden for reports that were withdrawn; calls one after    *)
(* the other.                                                               *)
THEOREM WithdrawalsShow == Spec => []HiddenIsReported
  <1>1. SerialInv => HiddenIsReported
    BY DEF SerialInv
  <1> QED BY <1>1, InitSerial, NextSerial, PTL DEF Spec

-----------------------------------------------------------------------------
(* A call that nothing overlaps. *)

(* What u's call knows is so when it ends: who has reported and voted, and  *)
(* for a report, whether the thresholds want the post hidden.               *)
KnowsCurrent(u) ==
  /\ call[u].at \in {"report", "judged"} => call[u].n = Cardinality(reports \cup {u})
  /\ call[u].at = "judged" =>
       (call[u].why = "nobody" <=>
          ~(Cardinality(reports \cup {u}) >= HideAt) /\ ~VotedDown(votes))
  /\ call[u].at = "unreport" => call[u].n = Cardinality(reports \ {u})
  /\ call[u].at = "vote" =>
       /\ call[u].vote \in {-1, 1}
       /\ call[u].n = IF call[u].vote = 1 THEN Upvotes(u) ELSE 0

AloneInv ==
  \A u \in alone :
    /\ call[u] # NoCall /\ \A v \in Users \ {u} : call[v] = NoCall
    /\ KnowsCurrent(u)

(* A call that starts is alone if none is in flight, and has just counted.  *)
LEMMA StartAlone ==
  ASSUME Typed, NEW u \in Users, NEW t \in CallType, Start(u, t),
         t.at \in {"report", "unreport", "vote"},
         t.at = "report" => t.n = Cardinality(reports \cup {u}),
         t.at = "unreport" => t.n = Cardinality(reports \ {u}),
         t.at = "vote" => t.vote \in {-1, 1} /\ t.n = IF t.vote = 1 THEN Upvotes(u) ELSE 0
  PROVE  AloneInv'
  <1>1. call \in [Users -> CallType]
    BY DEF Typed, TypeOK, CallType
  <1>2. call'[u] = t /\ \A v \in Users \ {u} : call'[v] = call[v]
    BY <1>1 DEF Start
  <1>3. UNCHANGED <<reports, votes>>
    BY DEF Start
  <1>4. alone' # {} => alone' = {u} /\ \A v \in Users : call[v] = NoCall
    BY DEF Start, InFlight
  <1>5. KnowsCurrent(u)'
    BY <1>2, <1>3 DEF KnowsCurrent, Upvotes
  <1>6. t # NoCall
    BY NoCallIsIdle
  <1> QED BY <1>2, <1>4, <1>5, <1>6 DEF AloneInv

(* When a call ends, no other is alone. *)
LEMMA CommitAlone ==
  ASSUME AloneInv, NEW u \in Users, call[u] # NoCall, Commit(u)
  PROVE  AloneInv'
  <1>1. alone' = {}
    BY DEF AloneInv, Commit, Typed, TypeOK
  <1> QED BY <1>1 DEF AloneInv

(* Steps that none of this is about. *)
LEMMA OthersAlone ==
  ASSUME AloneInv, UNCHANGED <<call, reports, votes>>, alone' \subseteq alone
  PROVE  AloneInv'
  BY DEF AloneInv, KnowsCurrent, Upvotes

LEMMA NextAlone == Typed /\ AloneInv /\ [Next]_vars => AloneInv'
  <1> SUFFICES ASSUME Typed, AloneInv, [Next]_vars PROVE AloneInv'
    OBVIOUS
  <1>1. ASSUME NEW u \in Users, CountReports(u) PROVE AloneInv'
    BY <1>1, CallsTyped, StartAlone DEF CountReports, Call, Reporting
  <1>2. ASSUME NEW u \in Users, CountRemaining(u) PROVE AloneInv'
    BY <1>2, CallsTyped, StartAlone DEF CountRemaining, Call, Remaining
  <1>3. ASSUME NEW u \in Users, NEW v \in {-1, 1}, CountVotes(u, v) PROVE AloneInv'
    BY <1>3, CallsTyped, StartAlone DEF CountVotes, Call
  <1>4. ASSUME NEW u \in Users, JudgeReport(u) PROVE AloneInv'
    <2>1. call \in [Users -> CallType] /\ call[u].n \in 0..Cardinality(Users)
      BY DEF Typed, TypeOK, CallType
    <2>2. /\ call[u].at = "report" /\ UNCHANGED <<reports, votes, alone>>
          /\ \A v \in Users \ {u} : call'[v] = call[v]
      BY <1>4, <2>1 DEF JudgeReport
    <2>3. /\ call'[u].at = "judged" /\ call'[u].n = call[u].n
          /\ call'[u].why = "nobody" <=> ~(call[u].n >= HideAt) /\ ~VotedDown(votes)
      BY <1>4, <2>1 DEF JudgeReport, Call
    <2>4. ASSUME NEW w \in alone PROVE w = u
      BY <2>2, NoCallIsIdle DEF AloneInv
    <2>5. ASSUME u \in alone PROVE KnowsCurrent(u)'
      BY <2>2, <2>3, <2>5 DEF AloneInv, KnowsCurrent, VotedDown, Votes
    <2>6. call'[u] # NoCall
      BY <2>3, NoCallIsIdle
    <2> QED BY <2>2, <2>4, <2>5, <2>6 DEF AloneInv
  <1>5. ASSUME NEW u \in Users, EndReport(u) \/ EndUnreport(u) \/ EndVote(u) PROVE AloneInv'
    BY <1>5, CommitAlone, NoCallIsIdle DEF EndReport, EndUnreport, EndVote
  <1>6. ASSUME NEW u \in Users, Unvote(u) PROVE AloneInv'
    BY <1>6 DEF Unvote, AloneInv
  <1>7. ASSUME AdminHide \/ AdminShow PROVE AloneInv'
    BY <1>7, OthersAlone DEF AdminHide, AdminShow
  <1>8. ASSUME Recaption \/ EditCaption \/ FinishDetection \/ ExpirePending PROVE AloneInv'
    BY <1>8, OthersAlone DEF Recaption, EditCaption, FinishDetection, ExpirePending, others
  <1>9. CASE UNCHANGED vars
    BY <1>9, OthersAlone DEF vars
  <1> QED BY <1>1, <1>2, <1>3, <1>4, <1>5, <1>6, <1>7, <1>8, <1>9 DEF Next

(* A call that nothing overlaps is ended by a step of its own.              *)
LEMMA EndsItself ==
  ASSUME Typed, AloneInv, [Next]_vars, NEW u \in alone,
         call[u].at # "idle", call'[u].at = "idle"
  PROVE  u \in Users /\ (EndReport(u) \/ EndUnreport(u) \/ EndVote(u))
  <1>1. call \in [Users -> CallType] /\ u \in Users
    BY DEF Typed, TypeOK, CallType
  <1>2. \A v \in Users \ {u} : call[v].at = "idle"
    BY NoCallIsIdle DEF AloneInv
  <1>3. ASSUME NEW v \in Users, NEW t, Start(v, t) PROVE FALSE
    <2>1. v # u
      BY <1>3, NoCallIsIdle DEF Start
    <2> QED BY <1>1, <1>3, <2>1 DEF Start
  <1>4. ASSUME NEW v \in Users, JudgeReport(v) PROVE FALSE
    <2>1. v = u
      BY <1>2, <1>4 DEF JudgeReport
    <2> QED BY <1>1, <1>4, <2>1 DEF JudgeReport, Call
  <1>5. ASSUME NEW v \in Users, EndReport(v) \/ EndUnreport(v) \/ EndVote(v) PROVE v = u
    BY <1>2, <1>5 DEF EndReport, EndUnreport, EndVote
  <1>6. call' # call
    OBVIOUS
  <1>7. ~Unvote(u) /\ \A v \in Users : ~Unvote(v)
    BY <1>6 DEF Unvote
  <1>8. ~(AdminHide \/ AdminShow \/ Recaption \/ EditCaption \/ FinishDetection \/ ExpirePending)
    BY <1>6 DEF AdminHide, AdminShow, Recaption, EditCaption, FinishDetection, ExpirePending, others
  <1>9. ~UNCHANGED vars
    BY <1>6 DEF vars
  <1> QED BY <1>1, <1>3, <1>4, <1>5, <1>7, <1>8, <1>9
       DEF Next, CountReports, CountRemaining, CountVotes

LEMMA InitAlone == Init => AloneInv
  BY DEF Init, AloneInv

(* A report that nothing overlaps hides the post exactly if, with it, there *)
(* are enough reports or too many down-votes, and such a withdrawal shows   *)
(* it exactly if, without it, there are too few reports: what the call has  *)
(* counted and judged is still so when it writes.                           *)
THEOREM SoloCallsSettle == Spec => SoloCallSettles
  <1>1. ASSUME Typed, AloneInv, [Next]_vars, NEW u \in alone,
               call[u].at = "judged", call'[u].at = "idle"
        PROVE  IF Cardinality(reports') >= HideAt \/ VotedDown(votes')
               THEN Hidden' ELSE mark' = mark
    <2>1. EndReport(u)
      BY <1>1, EndsItself DEF EndUnreport, EndVote
    <2>2. reports' = reports \cup {u} /\ votes' = votes
      BY <2>1 DEF EndReport
    <2>3. call[u].why = "nobody" <=>
            ~(Cardinality(reports') >= HideAt) /\ ~VotedDown(votes')
      BY <1>1, <2>2 DEF AloneInv, KnowsCurrent
    <2>4. IF call[u].why = "nobody" THEN mark' = mark ELSE mark' = "hidden"
      BY <2>1 DEF EndReport
    <2> QED BY <2>3, <2>4 DEF Hidden
  <1>2. ASSUME Typed, AloneInv, [Next]_vars, NEW u \in alone,
               call[u].at = "unreport", call'[u].at = "idle"
        PROVE  IF Cardinality(reports') >= HideAt THEN mark' = mark ELSE ~Hidden'
    <2>1. EndUnreport(u) /\ u \in Users
      BY <1>2, EndsItself DEF EndReport, EndVote
    <2>2. call[u].n = Cardinality(reports')
      BY <1>2, <2>1 DEF AloneInv, KnowsCurrent, EndUnreport
    <2>3. call[u].n \in 0..Cardinality(Users)
      BY <1>2, <2>1 DEF Typed, TypeOK
    <2>4. CASE call[u].n >= HideAt
      <3>1. mark' = mark
        BY <2>1, <2>3, <2>4, Constants DEF EndUnreport
      <3> QED BY <2>2, <2>4, <3>1
    <2>5. CASE ~(call[u].n >= HideAt)
      <3>1. ~Hidden'
        BY <2>1, <2>3, <2>5, Constants DEF EndUnreport, Overwrite, Shown, Hidden
      <3> QED BY <2>2, <2>5, <3>1
    <2> QED BY <2>4, <2>5
  <1>3. Typed /\ AloneInv /\ [Next]_vars =>
          [\A u \in alone :
             LET enough == Cardinality(reports') >= HideAt IN
             /\ call[u].at = "judged" /\ call'[u].at = "idle"
                  => IF enough \/ VotedDown(votes') THEN Hidden' ELSE mark' = mark
             /\ call[u].at = "unreport" /\ call'[u].at = "idle"
                  => IF enough THEN mark' = mark ELSE ~Hidden']_vars
    BY <1>1, <1>2
  <1> QED BY <1>3, InitTyped, NextTyped, InitAlone, NextAlone, PTL DEF Spec, SoloCallSettles

(* The up-votes that a vote leaves are what an up-vote has counted; a       *)
(* down-vote leaves no more than there were.                                *)
LEMMA VoteLeaves ==
  ASSUME Typed, AloneInv, NEW u \in alone, u \in Users, EndVote(u)
  PROVE  /\ call[u].vote = 1 => call[u].n = Votes(1, votes')
         /\ call[u].vote # 1 => call[u].n = 0 /\ Votes(1, votes') <= Votes(1, votes)
         /\ Votes(1, votes) \in Nat /\ Votes(1, votes') \in Nat
  <1>1. /\ votes' = [votes EXCEPT ![u] = call[u].vote] /\ votes \in [Users -> {-1, 0, 1}]
        /\ call[u].n = IF call[u].vote = 1 THEN Upvotes(u) ELSE 0
    BY DEF EndVote, AloneInv, KnowsCurrent, Typed, TypeOK
  <1> DEFINE Up == {v \in Users : votes[v] = 1}
  <1> DEFINE UpAfter == {v \in Users : votes'[v] = 1}
  <1>2. call[u].vote # 1 => UpAfter \subseteq Up
    BY <1>1
  <1>3. Up \in SUBSET Users /\ UpAfter \in SUBSET Users
    OBVIOUS
  <1>4. Votes(1, votes) = Cardinality(Up) /\ Votes(1, votes') = Cardinality(UpAfter)
    BY DEF Votes
  <1>5. call[u].vote = 1 => call[u].n = Votes(1, votes')
    BY <1>1 DEF Upvotes
  <1> HIDE DEF Up, UpAfter
  <1>6. Cardinality(Up) \in Nat /\ Cardinality(UpAfter) \in Nat /\ IsFiniteSet(Up)
    BY <1>3, CountInRange, UsersFinite, FS_Subset
  <1>7. call[u].vote # 1 => Cardinality(UpAfter) <= Cardinality(Up)
    BY <1>2, <1>6, FS_Subset
  <1> QED BY <1>1, <1>4, <1>5, <1>6, <1>7

(* The owner hears of every crossing of a milestone, and of no wrong number, *)
(* from votes that nothing overlaps: the count of the call is that of its   *)
(* commit.                                                                  *)
THEOREM CrossingsTold == Spec => CrossingTold
  <1>1. ASSUME Typed, AloneInv, [Next]_vars, NEW u \in alone,
               call[u].at = "vote", call'[u].at = "idle"
        PROVE  /\ Votes(1, votes') > Votes(1, votes) /\ Votes(1, votes') % MilestoneEvery = 0
                    /\ u # Owner => told' = Votes(1, votes')
               /\ told' # told => told' = Votes(1, votes')
    <2>1. EndVote(u) /\ u \in Users
      BY <1>1, EndsItself DEF EndReport, EndUnreport
    <2> DEFINE before == Votes(1, votes)
    <2> DEFINE after == Votes(1, votes')
    <2>2. /\ call[u].vote = 1 => call[u].n = after
          /\ call[u].vote # 1 => call[u].n = 0 /\ after <= before
          /\ before \in Nat /\ after \in Nat
      BY <1>1, <2>1, VoteLeaves
    <2>3. told' = IF call[u].n > 0 /\ call[u].n % MilestoneEvery = 0 /\ u # Owner
                  THEN call[u].n ELSE told
      BY <2>1 DEF EndVote
    <2> HIDE DEF before, after
    <2>4. ASSUME after > before, after % MilestoneEvery = 0, u # Owner PROVE told' = after
      <3>1. call[u].vote = 1 /\ after > 0
        BY <2>2, <2>4
      <3> QED BY <2>2, <2>3, <2>4, <3>1
    <2>5. ASSUME told' # told PROVE told' = after
      BY <2>2, <2>3, <2>5
    <2> QED BY <2>4, <2>5 DEF before, after
  <1>2. Typed /\ AloneInv /\ [Next]_vars =>
          [\A u \in alone :
             call[u].at = "vote" /\ call'[u].at = "idle" =>
               /\ Votes(1, votes') > Votes(1, votes) /\ Votes(1, votes') % MilestoneEvery = 0
                    /\ u # Owner => told' = Votes(1, votes')
               /\ told' # told => told' = Votes(1, votes')]_vars
    BY <1>1
  <1> QED BY <1>2, InitTyped, NextTyped, InitAlone, NextAlone, PTL DEF Spec, CrossingTold
=============================================================================
