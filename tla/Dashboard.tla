----------------------------- MODULE Dashboard -----------------------------
(***************************************************************************)
(* An operator at the dashboard (services/dashboard/src): a page that      *)
(* polls a metric route, and the debug page of a query, whose panel        *)
(* replays it.  Requests go through the gateway: the metric routes keep    *)
(* the promise of FreshAnswers, the replay route reaches the debug service *)
(* of ReplayJob.  A request nobody waits for any more still runs.          *)
(***************************************************************************)
EXTENDS FreshAnswers, ReplayJob, UseQuery

CONSTANTS
    MetricRoutes,  \* what the polling page can be set to
    REFRESH        \* the refresh interval chosen in the filter bar, in ticks

ASSUME DashboardAssumption ==
    /\ Routes = MetricRoutes \cup Queries
    /\ REFRESH \in Nat \ {0}
    /\ MaxAge \in [Routes -> Nat] /\ MaxWait \in [Routes -> Nat]
    /\ Absent \notin Slots /\ Absent \notin Routes
    /\ Absent \notin [of : Routes, read : Nat]

VARIABLES
    page,     \* "overview" or "debug"
    hook,     \* the useQuery() of the page
    due,      \* when its interval timer fires next
    started,  \* when the page was opened, set to something else or retried
    panel     \* the ReplayPanel, where it is mounted

dashVars == <<answersVars, replayVars, page, hook, due, started, panel>>

NoPanel == [mounted |-> FALSE]

FreshPanel ==
    [mounted |-> TRUE, job |-> None, error |-> FALSE, running |-> FALSE, post |-> None]

RoutesOf(p) == IF p = "overview" THEN MetricRoutes ELSE Queries

\* Faulty variant: a panel survives a failure of the page.
PanelKept(p, u) ==
    CASE p = "overview" -> NoPanel
      [] p = "debug" /\ panel.mounted -> panel
      [] p = "debug" /\ ~panel.mounted /\ Screen(u) = "data" -> FreshPanel
      [] OTHER -> NoPanel

\* AsyncSection renders its children only with data to show; the panel is
\* the same component whatever query the data is of.
PanelWith(p, u) ==
    CASE p = "overview" \/ Screen(u) # "data" -> NoPanel
      [] p = "debug" /\ Screen(u) = "data" /\ panel.mounted -> panel
      [] OTHER -> FreshPanel

Show(u) == hook' = u /\ panel' = PanelWith(page, u)

-----------------------------------------------------------------------------
(***************************************************************************)
(* The page and its requests.                                              *)
(***************************************************************************)

\* Another page is opened: its hook mounts, and so does its timer.  (Model
\* bound: within the first tick, and a polling page before any replay.)
Open(h, r) ==
    /\ now = 0
    /\ r \notin RoutesOf(page)
    /\ r \in MetricRoutes => \A j \in Jobs : replays[j] = Idle
    /\ Ask(h, r)
    /\ page' = IF r \in MetricRoutes THEN "overview" ELSE "debug"
    /\ hook' = Mounted(r, h)
    /\ due' = now + REFRESH
    /\ started' = now
    /\ panel' = NoPanel

\* The filters or the query id change.
Select(h, r) ==
    /\ r \in RoutesOf(page) \ {hook.dep}
    /\ Ask(h, r)
    /\ Show(Restarted([hook EXCEPT !.dep = r], h))
    /\ started' = now
    /\ UNCHANGED <<page, due>>

Retry(h) ==
    /\ Screen(hook) = "failure"
    /\ Ask(h, hook.dep)
    /\ Show(Restarted(hook, h))
    /\ started' = now
    /\ UNCHANGED <<page, due>>

\* The debug page does not poll.
TimerDue == page = "overview" /\ now >= due

Timer(h) ==
    /\ TimerDue
    /\ Ask(h, hook.dep)
    /\ Show(Restarted(hook, h))
    /\ due' = now + REFRESH
    /\ UNCHANGED <<page, started>>

\* Faulty variant: an answer is shown whether or not the effect is still active.
ShowAnyAnswer(h) ==
    LET q == requests[h] IN
    /\ Deliver(h)
    /\ Show(IF q.state = "answered"
            THEN Resolved(hook, [of |-> q.route, read |-> q.read])
            ELSE Rejected(hook))
    /\ UNCHANGED <<page, due, started>>

Answered(h) ==
    LET q == requests[h] IN
    /\ Deliver(h)
    /\ Show(CASE h # hook.active -> hook
              [] h = hook.active /\ q.state = "answered" ->
                     Resolved(hook, [of |-> q.route, read |-> q.read])
              [] OTHER -> Rejected(hook))
    /\ UNCHANGED <<page, due, started>>

\* fetch() itself fails; the gateway may be at work all the same.
Unreachable ==
    /\ hook.active # Absent
    /\ Show(Rejected(hook))
    /\ UNCHANGED <<requests, now, page, due, started>>

\* Timers fire when they are due.  (Model bound: time passes on the polling
\* page, the debug page has no timer.)
Wait ==
    /\ page = "overview"
    /\ ~TimerDue
    /\ Pass
    /\ UNCHANGED <<page, hook, due, started, panel>>

Serve(h) ==
    /\ Reply(h) \/ Refuse(h)
    /\ UNCHANGED <<page, hook, due, started, panel>>

Browse ==
    /\ \/ \E h \in Slots : Retry(h) \/ Timer(h) \/ Answered(h) \/ Serve(h)
       \/ \E h \in Slots, r \in Routes : Open(h, r) \/ Select(h, r)
       \/ Unreachable
       \/ Wait
    /\ UNCHANGED replayVars

-----------------------------------------------------------------------------
(***************************************************************************)
(* The replay panel.                                                       *)
(***************************************************************************)

Waiting == panel.mounted /\ panel.running

Click(j) ==
    /\ panel.mounted
    /\ ~panel.running
    /\ Post(j, hook.data.of)
    /\ panel' = [panel EXCEPT !.running = TRUE, !.error = FALSE, !.post = j]

\* The job, or an error: 404, 400, 500, or 502 for a process that ended.
Replied ==
    /\ Waiting
    /\ \/ /\ replays[panel.post].phase = "answered"
          /\ panel' = [panel EXCEPT !.running = FALSE, !.job = replays[panel.post].job]
       \/ /\ replays[panel.post].phase \in {"refused", "lost"}
          /\ panel' = [panel EXCEPT !.running = FALSE, !.error = TRUE]
    /\ UNCHANGED replayVars

\* The gateway waits 30 seconds, as long as the debug service waits for the
\* target alone: the replay goes on behind the 502.
GaveUp ==
    /\ Waiting
    /\ panel' = [panel EXCEPT !.running = FALSE, !.error = TRUE]
    /\ UNCHANGED replayVars

Replaying ==
    /\ \/ (\E j \in Jobs : Click(j)) \/ Replied \/ GaveUp
       \/ /\ \/ \E j \in Jobs : Step(j) \/ CallFails(j)
             \/ \E q \in Queries, t \in Tables : Store(q, t)
             \/ Restart
          /\ UNCHANGED panel
    /\ UNCHANGED <<answersVars, page, hook, due, started>>

-----------------------------------------------------------------------------
\* The page that is open first.
DashInit ==
    /\ ReplayInit
    /\ now = 0
    /\ page \in {"overview", "debug"}
    /\ \E h \in Slots, r \in RoutesOf(page) :
         /\ requests = [s \in Slots |->
                IF s = h THEN [state |-> "pending", route |-> r, asked |-> 0] ELSE NoRequest]
         /\ hook = Mounted(r, h)
    /\ due = REFRESH
    /\ started = 0
    /\ panel = NoPanel

DashNext == Browse \/ Replaying

DashSpec == DashInit /\ [][DashNext]_dashVars

\* Handlers run on, answers arrive.
DashFairness ==
    /\ \A j \in Jobs : WF_dashVars(Step(j) /\ UNCHANGED <<answersVars, page, hook, due, started, panel>>)
    /\ WF_dashVars(Replied /\ UNCHANGED <<answersVars, page, hook, due, started>>)

FairDash == DashSpec /\ DashFairness

-----------------------------------------------------------------------------
(***************************************************************************)
(* Properties.                                                             *)
(***************************************************************************)

DataOK(d) == d = Absent \/ (d.of \in RoutesOf(page) /\ d.read \in 0..now)

\* The hook shows data of its own page and waits for one request at most;
\* the panel is there exactly where the debug page has data to show.
DashTypeOK ==
    /\ ReplayTypeOK
    /\ hook.dep \in RoutesOf(page) /\ DataOK(hook.data)
    /\ hook.active \in Slots \cup {Absent}
    /\ hook.active # Absent => requests[hook.active].route = hook.dep
    /\ panel.mounted <=> (page = "debug" /\ Screen(hook) = "data")
    /\ panel.mounted => panel.post \in Jobs \cup {None}
    /\ started \in 0..now /\ due \in Nat

\* What the hook says of its requests is true: it is loading or refreshing
\* only while one is on its way, and while one is on its way over data that
\* is on display, it says so.  (useQuery)
FlagsTellTheTruth ==
    /\ hook.loading \/ hook.refreshing => hook.active # Absent
    /\ hook.active # Absent /\ hook.data # Absent => hook.refreshing

\* However requests overtake each other, the screen is that of the filters or
\* the query chosen now, or says that it is about to be.  (useQuery: active)
ScreenIsCurrent ==
    /\ FlagsTellTheTruth
    /\ Screen(hook) = "data" /\ ~hook.refreshing => hook.data.of = hook.dep

\* What a polling page shows when it is not refreshing was read no longer ago
\* than its route allows and one refresh interval.  (useQuery, TTL_SECONDS)
ShownIsRecent ==
    page = "overview" /\ Screen(hook) = "data" /\ ~hook.refreshing =>
        now < hook.data.read + MaxAge[hook.dep] + REFRESH

\* The page waits for no request that is older than the refresh interval or
\* than a request of its route can get: the timer, which no other event
\* restarts, puts a new one in its place.  (useQuery)
AwaitedIsNew ==
    page = "overview" /\ hook.active # Absent =>
        LET asked == requests[hook.active].asked
        IN  now =< asked + MaxWait[hook.dep] /\ now =< asked + REFRESH

\* The skeleton of a route that answers within the refresh interval gives way
\* within two requests: the timer can take the place of a request once.
\* (A slower route may have each of its requests replaced.)  (useQuery)
SkeletonIsBrief ==
    page = "overview" /\ hook.loading /\ MaxWait[hook.dep] < REFRESH =>
        now =< started + 2 * MaxWait[hook.dep]

\* The timer keeps a polling page up to date: old data is on the screen only
\* while a request that is no older than an interval is to replace it, and a
\* skeleton no longer than refreshes can account for.  (useQuery)
RefreshKeepsUp == ShownIsRecent /\ AwaitedIsNew /\ SkeletonIsBrief

\* "A refresh never blanks the screen": a page that showed data shows data,
\* or the failure of a request, until another page is opened.
NeverBlank ==
    [][page' = page /\ Screen(hook) \in {"data", "failure"} =>
         Screen(hook') \in {"data", "failure"}]_dashVars

\* The button of the panel is always enabled again, whatever becomes of the
\* replay.  (ReplayPanel, replay_query)
ButtonComesBack == Waiting ~> ~Waiting

\* A replay ends for the job that is stored and for the operator who waits.
\* (ReplayPanel, replay_query)
ReplaysEnd == JobsFinish /\ ButtonComesBack
=============================================================================
