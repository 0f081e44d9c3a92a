------------------------------ MODULE OwnerFeed ------------------------------
(***************************************************************************)
(* The owner's panel: decisions that come with their signals, are closed   *)
(* by somebody and come back after a while if the cause stays.             *)
(*                                                                         *)
(*   apps/api/app/services/decision_engine.py   GET and PATCH decisions    *)
(*   apps/api/app/models/owner_decision.py      the row                    *)
(*   apps/api/app/services/metrics_service.py   what the rows are counted  *)
(*                                                                         *)
(* Requests overlap. A GET reads each row without a lock and holds the     *)
(* ones it has written until its commit; an UPDATE writes the columns that *)
(* changed against what was read, onto whatever the row is by then.        *)
(***************************************************************************)
EXTENDS OwnerSignals

CONSTANTS
    Decisions,   \* numbers, in the order in which the signals are evaluated
    Lasting,     \* the decisions whose cause does not go away
    Requests

ASSUME DecisionsAreNat == Decisions \subseteq Nat /\ Lasting \subseteq Decisions

VARIABLES
    firing,      \* the signals that fire now
    row,         \* owner_decisions of one branch
    request      \* GET and PATCH /owner/decisions under way

feedVars == <<firing, row, request>>

\* cooling: updated_at is less than COOLDOWN_HOURS ago.
Rows   == [status : {"absent", "pending", "acknowledged", "completed", "dismissed"},
           done : BOOLEAN, cooling : BOOLEAN]
NoRow  == [status |-> "absent", done |-> FALSE, cooling |-> FALSE]
NewRow == [status |-> "pending", done |-> FALSE, cooling |-> TRUE]

\* What a GET has written and not committed, by row.
Changes == {"none", "insert", "reset", "refresh"}
NoDraft == [d \in Decisions |-> "none"]

\* overtaken: the rows others have closed since this request read them.
NoRequest == [stage |-> "idle", todo |-> {}, at |-> None, copy |-> NoRow,
              draft |-> NoDraft, broken |-> FALSE, overtaken |-> {}]

Closed(d) == d.status \in {"completed", "dismissed"}
Active(d) == d.status \in {"pending", "acknowledged"}

\* The row lock, from the statement that writes to the commit.
Locked(r, d) == \E q \in Requests \ {r} : request[q].draft[d] # "none"

\* A mutant: what was closed comes back at once.
NeverSuppressed(d) == FALSE

\* A mutant: what was closed never comes back.
SuppressedForGood(d) == Closed(d)

Suppressed(d) == Closed(d) /\ d.cooling

\* A mutant: completed_at outlives the reset.
ResetStatusOnly(d) == [d EXCEPT !.status = "pending", !.cooling = TRUE]

\* What an upsert changes, by the row it has read: a closed one is reset, and the
\* figures of the signal are new.
Upserted(copy) == IF Closed(copy) THEN "reset" ELSE "refresh"

Reset(d) == [d EXCEPT !.status = "pending", !.done = FALSE, !.cooling = TRUE]

\* A row once the columns that changed are written onto it.
Written(change, d) ==
    CASE change = "none"    -> d
      [] change = "insert"  -> NewRow
      [] change = "reset"   -> Reset(d)
      [] change = "refresh" -> [d EXCEPT !.cooling = TRUE]

-----------------------------------------------------------------------------
(* GET /owner/decisions/ *)

StartGet(r) ==
    /\ request[r].stage = "idle"
    /\ request' = [request EXCEPT ![r] = [NoRequest EXCEPT !.stage = "get", !.todo = firing]]
    /\ UNCHANGED <<firing, row>>

Next1(r) == Min(request[r].todo)

\* After a failed insert the session refuses every statement, one by one.
ReadRow(r) ==
    LET d == Next1(r) IN
    /\ request[r].stage = "get" /\ request[r].todo # {}
    /\ request' = IF request[r].broken \/ Suppressed(row[d])
                  THEN [request EXCEPT ![r].todo = @ \ {d}]
                  ELSE [request EXCEPT ![r].stage = "write", ![r].at = d, ![r].copy = row[d]]
    /\ UNCHANGED <<firing, row>>

\* An insert that meets a row of its key takes the whole transaction with it.
\* An update may find that no column changed.
WriteRow(r) ==
    LET d == request[r].at
        next == [request[r] EXCEPT !.stage = "get", !.todo = @ \ {d}, !.at = None, !.copy = NoRow]
    IN
    /\ request[r].stage = "write"
    /\ \/ /\ ~Locked(r, d)
          /\ request' = [request EXCEPT ![r] =
                CASE request[r].copy # NoRow -> [next EXCEPT !.draft[d] = Upserted(request[r].copy)]
                  [] request[r].copy = NoRow /\ row[d] = NoRow -> [next EXCEPT !.draft[d] = "insert"]
                  [] OTHER -> [next EXCEPT !.draft = NoDraft, !.broken = TRUE]]
       \/ /\ Active(request[r].copy)
          /\ request' = [request EXCEPT ![r] = [next EXCEPT !.overtaken = @ \ {d}]]
    /\ UNCHANGED <<firing, row>>

\* What r closes now, the others will not have seen.
Ended(r, closed) ==
    [q \in Requests |->
        CASE q = r -> NoRequest
          [] q # r /\ request[q].stage = "idle" -> NoRequest
          [] OTHER -> [request[q] EXCEPT !.overtaken = @ \cup (closed \cap {request[q].at})]]

CommitGet(r) ==
    /\ request[r].stage = "get" /\ request[r].todo = {}
    /\ row' = [d \in Decisions |-> Written(request[r].draft[d], row[d])]
    /\ request' = Ended(r, {})
    /\ UNCHANGED firing

-----------------------------------------------------------------------------
(* PATCH /owner/decisions/{id} *)

VALID_TRANSITIONS == [acknowledge |-> {"pending"},
                      complete    |-> {"pending", "acknowledged"},
                      dismiss     |-> {"pending", "acknowledged"}]

Patched(action, d) ==
    CASE action = "acknowledge" -> [d EXCEPT !.status = "acknowledged", !.cooling = TRUE]
      [] action = "complete"    -> [d EXCEPT !.status = "completed", !.done = TRUE, !.cooling = TRUE]
      [] OTHER                  -> [d EXCEPT !.status = "dismissed", !.done = TRUE, !.cooling = TRUE]

\* The status is checked on a row that is not locked.
StartPatch(r) ==
    /\ request[r].stage = "idle"
    /\ \E d \in Decisions, action \in DOMAIN VALID_TRANSITIONS :
          /\ row[d].status \in VALID_TRANSITIONS[action]
          /\ request' = [request EXCEPT ![r] = [NoRequest EXCEPT !.stage = action, !.at = d,
                                                                 !.copy = row[d]]]
    /\ UNCHANGED <<firing, row>>

ApplyDecisionAction(r) ==
    LET d == request[r].at  action == request[r].stage IN
    /\ action \in DOMAIN VALID_TRANSITIONS
    /\ ~Locked(r, d)
    /\ row' = [row EXCEPT ![d] = Patched(action, @)]
    /\ request' = Ended(r, IF action = "acknowledge" THEN {} ELSE {d})
    /\ UNCHANGED firing

-----------------------------------------------------------------------------
SignalTurns ==
    /\ \E d \in Decisions \ Lasting : firing' = IF d \in firing THEN firing \ {d} ELSE firing \cup {d}
    /\ UNCHANGED <<row, request>>

\* COOLDOWN_HOURS after the last write; no request lasts that long.
CooldownEnds(d) ==
    /\ row[d].cooling
    /\ \A r \in Requests : d \notin request[r].overtaken
    /\ row' = [row EXCEPT ![d].cooling = FALSE]
    /\ UNCHANGED <<firing, request>>

FeedInit ==
    /\ firing \in {Lasting \cup S : S \in SUBSET Decisions}
    /\ row = [d \in Decisions |-> NoRow]
    /\ request = [r \in Requests |-> NoRequest]

Step(r) == ReadRow(r) \/ WriteRow(r) \/ CommitGet(r) \/ ApplyDecisionAction(r)

FeedNext ==
    \/ SignalTurns
    \/ \E d \in Decisions : CooldownEnds(d)
    \/ \E r \in Requests : StartGet(r) \/ StartPatch(r) \/ Step(r)

\* The panel asks again on an interval, a row lock goes to whoever waited for
\* it longest, two hours pass.
FeedSpec ==
    /\ FeedInit
    /\ [][FeedNext]_feedVars
    /\ \A d \in Decisions : WF_feedVars(CooldownEnds(d))
    /\ \A r \in Requests : WF_feedVars(StartGet(r)) /\ WF_feedVars(Step(r)) /\ SF_feedVars(WriteRow(r))

-----------------------------------------------------------------------------
RequestRows == [stage : {"idle", "get", "write"} \cup DOMAIN VALID_TRANSITIONS,
                todo : SUBSET Decisions, at : Decisions \cup {None}, copy : Rows,
                draft : [Decisions -> Changes], broken : BOOLEAN, overtaken : SUBSET Decisions]

\* Types.
FeedTypeOK ==
    /\ firing \subseteq Decisions
    /\ row \in [Decisions -> Rows]
    /\ request \in [Requests -> RequestRows]

\* Whatever requests overlap, a closed decision has the time at which it was
\* closed, by which the day's metrics count it, and one that is back to
\* pending has none (_upsert_decision, apply_decision_action).
RowsTellWhen ==
    \A d \in Decisions :
        /\ Closed(row[d]) => row[d].done
        /\ row[d].status = "pending" => ~row[d].done

\* The panel: its rows, the order of its signals and the figures they are of.
PanelIsSound ==
    /\ FeedTypeOK
    /\ RowsTellWhen
    /\ FeedRanksByUrgency
    /\ ContextMatchesSignals
    /\ FiguresTellTheDay
    /\ OutcomesAddUp

\* The report that a panel is computed from never finds the times of the
\* kitchen inconsistent, for "p90 should be >= avg (always true for a
\* right-skewed distribution)" (_run_consistency_checks). Ten orders of a minute
\* and one of ninety are such a distribution, and it does.
PercentileCoversMean ==
    \A r \in Requests : request[r].stage = "get" => \A prep \in Preps : PercentileCovers(prep)

\* What the owner has closed stays off the panel for the cooldown, except
\* where a request that read it before it was closed overwrites it
\* (_upsert_decision: "completed/dismissed decisions suppressed for 2h").
Reopened(d) == Closed(row[d]) /\ row[d].cooling /\ ~Closed(row'[d])

ClosedStaysClosed ==
    [][\A d \in Decisions : Reopened(d) =>
          \E r \in Requests : /\ d \in request[r].overtaken
                              /\ request'[r].stage = "idle"]_feedVars

\* A cause that stays comes back to the panel, however often its decision is
\* completed or dismissed and whatever fails meanwhile.
RecurringIssueReturns ==
    \A d \in Lasting : []<>Active(row[d])

=============================================================================
