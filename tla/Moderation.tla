------------------------------ MODULE Moderation ------------------------------
(***************************************************************************)
(* What shows and hides one post, a pothole or a community photo: reports   *)
(* (report_content, unreport_content), down-votes, the admin, and the       *)
(* writers that share the column in which "hidden" is kept: a pothole's     *)
(* caption, which begins with "[HIDDEN]", or a photo's detection_status.    *)
(* With the votes go the milestones that the owner is told of.              *)
(*                                                                          *)
(* The functions run at READ COMMITTED: a statement sees what was committed *)
(* when it started and the transaction's own writes.  A call is the upsert  *)
(* (or deletion) with the count that follows, whose result is all it keeps; *)
(* for a report the count of votes; and the update of the post, whose row   *)
(* lock lasts to the commit.  A user's calls come one after the other.      *)
(*                                                                          *)
(* Functions that several migrations define are taken from the newest one   *)
(* that the views rely on: report_content from add_vote_hiding_logic.sql,   *)
(* vote_content from add_notifications.sql.                                 *)
(***************************************************************************)
EXTENDS Integers, FiniteSets

CONSTANTS
  Users,           \* users who report and vote
  Owner,           \* the author, who may or may not be one of Users
  HideAt,          \* reports, or down-votes, that hide a post: 3
  MilestoneEvery,  \* up-votes from milestone to milestone: 5
  MaxOverlap       \* bound on calls in flight

ASSUME ModerationAssumption ==
  /\ IsFiniteSet(Users)
  /\ {HideAt, MilestoneEvery, MaxOverlap} \subseteq Nat \ {0}

VARIABLES
  kind,        \* the post: "pothole" or "photo"
  mark,        \* its caption ("null", "text", "hidden") or detection_status
  detection,   \* the photo's detector run: "running", "found", "nothing"
  reports,     \* content_reports: the users whose report is committed
  votes,       \* content_votes: 1, -1, or 0 for no row
  told,        \* the up-votes in the owner's last milestone notification
  call,        \* the transaction of each user
  adminHid,    \* history: the admin's last decision was to hide
  last,        \* history: who last hid or uncovered the post
  alone,       \* history: the user whose call no other has overlapped
  overlapped   \* history: some calls have overlapped

post == <<kind, mark, detection>>
history == <<adminHid, last>>
vars == <<post, reports, votes, told, call, history, alone, overlapped>>

(* A call, what it has counted, its vote, and why it is to hide the post. *)
Call(at, n, v, why) == [at |-> at, n |-> n, vote |-> v, why |-> why]
NoCall == Call("idle", 0, 0, "nobody")

InFlight == {u \in Users : call[u] # NoCall}
Hidden == mark = "hidden"

Votes(v, of) == Cardinality({u \in Users : of[u] = v})

(* downvotes >= 3 and a ratio of at least 0.7. *)
VotedDown(of) ==
  Votes(-1, of) >= HideAt /\ 10 * Votes(-1, of) >= 7 * (Votes(-1, of) + Votes(1, of))

(* v_unified_potholes, v_community_photos and the feeds over them; a null   *)
(* caption is not "NOT LIKE" anything.  Hazard status is another module's.  *)
InFeed ==
  /\ ~Hidden /\ mark # "null"
  /\ Cardinality(reports) < HideAt
  /\ ~VotedDown(votes)

Start(u, t) ==
  /\ call[u] = NoCall
  /\ Cardinality(InFlight) < MaxOverlap
  /\ call' = [call EXCEPT ![u] = t]
  /\ alone' = IF InFlight = {} THEN {u} ELSE {}
  /\ overlapped' = (overlapped \/ InFlight # {})
  /\ UNCHANGED <<post, reports, votes, told, history>>

Commit(u) ==
  /\ call' = [call EXCEPT ![u] = NoCall]
  /\ alone' = alone \ {u}
  /\ UNCHANGED <<kind, detection, adminHid, overlapped>>

(* UPDATE of the column that also says whether the post is hidden. *)
Overwrite(m) == mark' = m /\ last' = IF Hidden THEN "overwriter" ELSE last

-----------------------------------------------------------------------------
(* report_content: the upsert and the count of reports ... *)
(* Mutant of Reporting: the count comes before the upsert. *)
ReportingBefore(u) == Cardinality(reports)

Reporting(u) == Cardinality(reports \cup {u})

CountReports(u) == Start(u, Call("report", Reporting(u), 0, "nobody"))

(* ... the count of votes ... *)
JudgeReport(u) ==
  /\ call[u].at = "report"
  /\ LET why == IF call[u].n >= HideAt THEN "reports"
                ELSE IF VotedDown(votes) THEN "votes" ELSE "nobody"
     IN call' = [call EXCEPT ![u] = Call("judged", @.n, 0, why)]
  /\ UNCHANGED <<post, reports, votes, told, history, alone, overlapped>>

(* ... and the update. *)
EndReport(u) ==
  /\ call[u].at = "judged"
  /\ reports' = reports \cup {u}
  /\ IF call[u].why = "nobody"
       THEN UNCHANGED <<mark, last>>
       ELSE mark' = "hidden" /\ last' = call[u].why
  /\ Commit(u)
  /\ UNCHANGED <<votes, told>>

(* What a caption or a status is set to when the post is shown again. *)
(* Mutant: a value outside the column's. *)
ShownVisible == "visible"

Shown == IF kind = "pothole" THEN "text" ELSE "pending"

(* unreport_content: the deletion, of no row if there is none, with the     *)
(* count, and the update.                                                   *)
(* Mutant of Remaining: the count comes before the deletion. *)
RemainingBefore(u) == Cardinality(reports)

Remaining(u) == Cardinality(reports \ {u})

CountRemaining(u) == Start(u, Call("unreport", Remaining(u), 0, "nobody"))

EndUnreport(u) ==
  /\ call[u].at = "unreport"
  /\ reports' = reports \ {u}
  /\ IF call[u].n < HideAt /\ Hidden
       THEN Overwrite(Shown)
       ELSE UNCHANGED <<mark, last>>
  /\ Commit(u)
  /\ UNCHANGED <<votes, told>>

-----------------------------------------------------------------------------
(* vote_content: the upsert, for an up-vote the count, and notify_owner.    *)
(* Mutant of Upvotes: the count comes before the upsert. *)
UpvotesBefore(u) == Votes(1, votes)

Upvotes(u) == Votes(1, [votes EXCEPT ![u] = 1])

CountVotes(u, v) ==
  Start(u, Call("vote", IF v = 1 THEN Upvotes(u) ELSE 0, v, "nobody"))

EndVote(u) ==
  LET n == call[u].n IN
  /\ call[u].at = "vote"
  /\ votes' = [votes EXCEPT ![u] = call[u].vote]
  /\ told' = IF n > 0 /\ n % MilestoneEvery = 0 /\ u # Owner THEN n ELSE told
  /\ Commit(u)
  /\ UNCHANGED <<mark, reports, last>>

(* unvote_content: one deletion. *)
Unvote(u) ==
  /\ call[u] = NoCall /\ votes[u] # 0
  /\ votes' = [votes EXCEPT ![u] = 0]
  /\ alone' = {}
  /\ overlapped' = (overlapped \/ InFlight # {})
  /\ UNCHANGED <<post, reports, told, call, history>>

-----------------------------------------------------------------------------
(* admin_hide_content; a caption is hidden once, the post's outcome is the  *)
(* same if it was.                                                          *)
AdminHide ==
  /\ mark' = "hidden" /\ last' = "admin" /\ adminHid' = TRUE
  /\ UNCHANGED <<kind, detection, reports, votes, told, call, alone, overlapped>>

AdminShow ==
  /\ IF Hidden \/ kind = "pothole" THEN Overwrite(Shown) ELSE UNCHANGED <<mark, last>>
  /\ adminHid' = FALSE
  /\ UNCHANGED <<kind, detection, reports, votes, told, call, alone, overlapped>>

others == <<kind, reports, votes, told, call, adminHid, alone, overlapped>>

(* _sync_potholes merges a detection into the pothole: a generated caption. *)
Recaption ==
  /\ kind = "pothole"
  /\ Overwrite("text")
  /\ UNCHANGED <<detection, others>>

(* update_pothole_text: the owner's caption; a blank one becomes NULL.  (A   *)
(* caption typed with the prefix is left out.)                              *)
EditCaption ==
  /\ kind = "pothole"
  /\ \E m \in {"text", "null"} : Overwrite(m)
  /\ UNCHANGED <<detection, others>>

(* upload_community_photo: the detector's result, whatever the status is. *)
FinishDetection ==
  /\ detection = "running"
  /\ \E found \in BOOLEAN :
       /\ detection' = IF found THEN "found" ELSE "nothing"
       /\ Overwrite(IF found THEN "processed" ELSE "no_detection")
  /\ UNCHANGED others

(* The clean-up by other uploads: photos pending for an hour.              *)
(* Mutant of Stale: every photo of that age. *)
StaleAny == kind = "photo" /\ ~Hidden

Stale == mark = "pending"

ExpirePending ==
  /\ Stale
  /\ Overwrite("no_detection")
  /\ UNCHANGED <<detection, others>>

-----------------------------------------------------------------------------
Init ==
  /\ \/ kind = "pothole" /\ mark = "text" /\ detection = "nothing"
     \/ kind = "photo" /\ mark = "pending" /\ detection = "running"
  /\ reports = {} /\ votes = [u \in Users |-> 0] /\ told = 0
  /\ call = [u \in Users |-> NoCall]
  /\ adminHid = FALSE /\ last = "nobody"
  /\ alone = {} /\ overlapped = FALSE

Next ==
  \/ \E u \in Users :
       \/ CountReports(u) \/ JudgeReport(u) \/ EndReport(u)
       \/ CountRemaining(u) \/ EndUnreport(u)
       \/ (\E v \in {-1, 1} : CountVotes(u, v)) \/ EndVote(u) \/ Unvote(u)
  \/ AdminHide \/ AdminShow
  \/ Recaption \/ EditCaption \/ FinishDetection \/ ExpirePending

Spec == Init /\ [][Next]_vars

-----------------------------------------------------------------------------
(* Type invariant. *)
TypeOK ==
  /\ kind \in {"pothole", "photo"}
  /\ mark \in (IF kind = "pothole" THEN {"null", "text", "hidden"}
               ELSE {"pending", "processed", "no_detection", "hidden"})
  /\ detection \in {"running", "found", "nothing"}
  /\ reports \subseteq Users
  /\ votes \in [Users -> {-1, 0, 1}]
  /\ told \in 0..Cardinality(Users)
  /\ call \in [Users -> [at : {"idle", "report", "judged", "unreport", "vote"},
                         n : 0..Cardinality(Users), vote : {-1, 0, 1},
                         why : {"nobody", "reports", "votes"}]]
  /\ adminHid \in BOOLEAN /\ overlapped \in BOOLEAN
  /\ last \in {"nobody", "reports", "votes", "admin", "overwriter"}
  /\ alone \subseteq Users

(* A post with enough reports carries the mark that maps and lists look at, *)
(* unless another writer of the column has removed it since; while calls do *)
(* not overlap (of two overlapping reports neither may count enough).       *)
ReportedIsHidden ==
  ~overlapped /\ Cardinality(reports) >= HideAt /\ last # "overwriter" => Hidden

(* "If content was hidden, re-show it when reports drop below threshold":   *)
(* no post stays hidden for reports that were withdrawn.                    *)
HiddenIsReported ==
  ~overlapped /\ last = "reports" => Cardinality(reports) >= HideAt

(* A report that nothing overlaps hides the post exactly if, with it, there *)
(* are enough reports or too many down-votes; a withdrawal that nothing     *)
(* overlaps shows the post exactly if, without it, there are too few        *)
(* reports: also one that is voted down.  Neither undoes what overlapping   *)
(* calls, the admin or the pipeline have left: a report shows no post, and  *)
(* a withdrawal hides none.                                                 *)
SoloCallSettles ==
  [][\A u \in alone :
       LET enough == Cardinality(reports') >= HideAt IN
       /\ call[u].at = "judged" /\ call'[u].at = "idle"
            => IF enough \/ VotedDown(votes') THEN Hidden' ELSE mark' = mark
       /\ call[u].at = "unreport" /\ call'[u].at = "idle"
            => IF enough THEN mark' = mark ELSE ~Hidden']_vars

(* The owner hears of every crossing of a milestone, and of no wrong number, *)
(* from votes that nothing overlaps.                                        *)
CrossingTold ==
  [][\A u \in alone :
       call[u].at = "vote" /\ call'[u].at = "idle" =>
         /\ Votes(1, votes') > Votes(1, votes) /\ Votes(1, votes') % MilestoneEvery = 0
              /\ u # Owner => told' = Votes(1, votes')
         /\ told' # told => told' = Votes(1, votes')]_vars

(* The result of the detector survives the clean-up of pending photos, as   *)
(* long as nobody hides and shows the photo.                                *)
ResultKept == detection = "found" /\ last = "nobody" => mark = "processed"

(* What the admin hides stays out of the feeds until the admin shows it.    *)
(* (Violated: four writers know nothing of the admin.)                      *)
AdminHideStands == adminHid => ~InFeed
=============================================================================
