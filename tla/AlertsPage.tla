----------------------------- MODULE AlertsPage -----------------------------
(***************************************************************************)
(* The list of alerts, with its filters, and "Load more".  A load replaces *)
(* the list by its first page; Load more asks by offset for the page that  *)
(* follows what is listed when the button is clicked, and appends it to    *)
(* what is listed when it arrives.  Nothing tells an old answer from a new *)
(* one, and home-api raises and resolves alerts between the questions.     *)
(*                                                                         *)
(* The table of alerts is the log of what was done to it: an alert is the  *)
(* place in the log where it was raised, which is its place in the order   *)
(* of triggered_at and id, and a version of the table is a length of the   *)
(* log.  An answer is about a version between its question and its         *)
(* arrival.  A page holds one alert.                                       *)
(***************************************************************************)
EXTENDS DashboardNames, Naturals, Sequences, FiniteSets, SequencesExt

CONSTANTS Filters,        \* choices of a status and a room; Null: all rooms
          MaxAlertLoads,  \* bound: the loads in flight
          MaxChanges      \* bound: alerts raised and resolved while it is open

ASSUME FiltersAssumption ==
  Filters \subseteq [status : {"ACTIVE", "ALL"}, roomId : Rooms \cup {Null}]

VARIABLES
  changes,         \* the table of alerts of home-api
  filter,          \* statusFilter and roomIdFilter
  alertLoads,      \* the calls of loadAlerts that have not returned
  mores,           \* the calls of loadMore that have not returned
  listed,          \* alerts, each with the filter that has brought it
  hasMore,
  alertsFetched,   \* fetchedAt is not null
  alertsState, alertsError, alertsRefreshing, loadingMore,
  torn,            \* history: an answer was appended to a list that it does
                   \* not continue ("replaced" in mores: a load came between)
  asOf,            \* history: the version that the last answer was about
  raised,          \* history: between two pages of the list, an alert of its
                   \* filter was raised
  resolved         \* history: or one was resolved

pagingVars == <<torn, asOf, raised, resolved>>
listVars == <<listed, hasMore, pagingVars>>
alertsVars == <<changes, filter, alertLoads, mores, listVars, alertsFetched,
                alertsState, alertsError, alertsRefreshing, loadingMore>>

Now == Len(changes)

AlertsInit ==
  /\ changes = <<>>
  /\ filter \in Filters
  /\ alertLoads = <<[filter |-> filter, manual |-> FALSE]>>
  /\ mores = <<>>
  /\ listed = <<>> /\ hasMore = FALSE /\ alertsFetched = FALSE
  /\ alertsState = "loading" /\ alertsError = FALSE
  /\ alertsRefreshing = FALSE /\ loadingMore = FALSE
  /\ torn = FALSE /\ asOf = 0 /\ raised = FALSE /\ resolved = FALSE

(* The same as a step.  The log begins anew: alerts that are there already  *)
(* are as good as raised before the first answer.                           *)
AlertsMount(f) ==
  /\ changes' = <<>>
  /\ filter' = f
  /\ alertLoads' = <<[filter |-> f, manual |-> FALSE]>>
  /\ mores' = <<>>
  /\ listed' = <<>> /\ hasMore' = FALSE /\ alertsFetched' = FALSE
  /\ alertsState' = "loading" /\ alertsError' = FALSE
  /\ alertsRefreshing' = FALSE /\ loadingMore' = FALSE
  /\ torn' = FALSE /\ asOf' = 0 /\ raised' = FALSE /\ resolved' = FALSE

-----------------------------------------------------------------------------
(* home-api.  The evaluator, or a request that moves a sensor, raises an    *)
(* alert of a room, or resolves one.                                        *)

RaisedAt(a) == changes[a].room # Null
ResolvedBy(a, k) == \E c \in 1 .. k : changes[c].resolves = a

Change(change) ==
  /\ Now < MaxChanges
  /\ changes' = Append(changes, change)
  /\ UNCHANGED <<filter, alertLoads, mores, listVars, alertsFetched,
                 alertsState, alertsError, alertsRefreshing, loadingMore>>

RaiseAlert(r) == Change([room |-> r, resolves |-> 0])

ResolveAlert(a) ==
  /\ RaisedAt(a) /\ ~ResolvedBy(a, Now)
  /\ Change([room |-> Null, resolves |-> a])

(* The WHERE of findAlerts, at version k. *)
Matching(f, k) ==
  {a \in 1 .. k : /\ RaisedAt(a)
                  /\ f.roomId \in {Null, changes[a].room}
                  /\ f.status = "ACTIVE" => ~ResolvedBy(a, k)}

NewerThan(f, k, a) == {b \in Matching(f, k) : b > a}

(* Its ORDER BY, LIMIT and OFFSET: the alert with that many newer ones.     *)
AtOffset(f, k, offset) ==
  {a \in Matching(f, k) : Cardinality(NewerThan(f, k, a)) = offset}

Page(f, k, offset) ==
  LET found == AtOffset(f, k, offset)
  IN IF found = {} THEN <<>>
     ELSE <<[filter |-> f, alert |-> CHOOSE a \in found : TRUE]>>

HasMore(f, k, offset) == Cardinality(Matching(f, k)) > offset + 1

-----------------------------------------------------------------------------
(* loadAlerts is called.                                                   *)

StartAlertLoad(f, manual) ==
  /\ Len(alertLoads) < MaxAlertLoads
  /\ alertLoads' = Append(alertLoads, [filter |-> f, manual |-> manual])
  /\ UNCHANGED <<changes, mores, listVars, alertsFetched, loadingMore>>

PollAlerts ==
  /\ StartAlertLoad(filter, FALSE)
  /\ UNCHANGED <<filter, alertsState, alertsError, alertsRefreshing>>

RefreshAlerts ==
  /\ ~alertsRefreshing /\ alertsRefreshing' = TRUE
  /\ alertsFetched \/ alertsState # "loading"
  /\ StartAlertLoad(filter, TRUE)
  /\ UNCHANGED <<filter, alertsState, alertsError>>

RetryAlerts ==
  /\ alertsState = "error" /\ ~alertsFetched
  /\ StartAlertLoad(filter, FALSE)
  /\ alertsState' = "loading" /\ alertsError' = FALSE
  /\ UNCHANGED <<filter, alertsRefreshing>>

(* Another status, or setRoomFilter: loadAlerts changes, so that            *)
(* useAutoRefresh loads anew.                                               *)
SetFilter(f) ==
  /\ f # filter /\ filter' = f
  /\ StartAlertLoad(f, FALSE)
  /\ alertsState' = "loading" /\ alertsError' = FALSE
  /\ UNCHANGED alertsRefreshing

-----------------------------------------------------------------------------
(* loadAlerts returns; any load in flight may be the first to.             *)

ReturnAlertLoad(i) ==
  /\ alertLoads' = RemoveAt(alertLoads, i)
  /\ alertsRefreshing' = (alertsRefreshing /\ ~alertLoads[i].manual)
  /\ UNCHANGED <<changes, filter, loadingMore>>

(* It replaces all that is listed: how old its version may be is no matter, *)
(* and any that there has been is allowed.                                  *)
StoreAlerts(i) ==
  /\ ReturnAlertLoad(i)
  /\ \E k \in 0 .. Now :
       /\ listed' = Page(alertLoads[i].filter, k, 0)
       /\ hasMore' = HasMore(alertLoads[i].filter, k, 0)
       /\ asOf' = k
  /\ alertsFetched' = TRUE
  /\ alertsState' = "ready" /\ alertsError' = FALSE
  /\ torn' = FALSE /\ raised' = FALSE /\ resolved' = FALSE
  /\ mores' = [j \in DOMAIN mores |-> [mores[j] EXCEPT !.replaced = TRUE]]

(* Mutant of AlertsFail: a list that fails to load goes on loading. *)
AlertsFailUnseen(i) ==
  /\ ReturnAlertLoad(i)
  /\ alertsState' = alertsState
  /\ alertsError' = TRUE
  /\ UNCHANGED <<mores, listVars, alertsFetched>>

AlertsFail(i) ==
  /\ ReturnAlertLoad(i)
  /\ alertsState' = IF alertsFetched THEN "ready" ELSE "error"
  /\ alertsError' = TRUE
  /\ UNCHANGED <<mores, listVars, alertsFetched>>

AlertLoadReturns ==
  \E i \in DOMAIN alertLoads : StoreAlerts(i) \/ AlertsFail(i)

-----------------------------------------------------------------------------
(* loadMore.                                                               *)

AskMore ==
  /\ alertsState = "ready" /\ hasMore /\ listed # <<>>
  /\ loadingMore' = TRUE
  /\ mores' = Append(mores, [filter |-> filter, offset |-> Len(listed),
                             since |-> Now, replaced |-> FALSE])
  /\ UNCHANGED <<changes, filter, alertLoads, listVars, alertsFetched,
                 alertsState, alertsError, alertsRefreshing>>

(* Mutant of LoadMore: the button may be clicked twice. *)
LoadMoreTwice == Len(mores) < 2 /\ AskMore

LoadMore == ~loadingMore /\ AskMore

ReturnMore(i) ==
  /\ mores' = RemoveAt(mores, i) /\ loadingMore' = FALSE
  /\ UNCHANGED <<changes, filter, alertLoads, alertsFetched, alertsState,
                 alertsRefreshing>>

(* The history is about the table of the filter in that version and in the  *)
(* one of the answer before.                                                *)
AppendMore(i) ==
  /\ ReturnMore(i)
  /\ \E k \in mores[i].since .. Now :
       LET f == mores[i].filter
       IN /\ listed' = listed \o Page(f, k, mores[i].offset)
          /\ hasMore' = HasMore(f, k, mores[i].offset)
          /\ asOf' = k
          /\ raised' = (raised \/ ~(Matching(f, k) \subseteq Matching(f, asOf)))
          /\ resolved' = (resolved \/ ~(Matching(f, asOf) \subseteq Matching(f, k)))
  /\ torn' = (torn \/ mores[i].replaced
                 \/ \E j \in DOMAIN listed : listed[j].filter # mores[i].filter)
  /\ UNCHANGED alertsError

MoreFails(i) ==
  /\ ReturnMore(i) /\ alertsError' = TRUE
  /\ UNCHANGED listVars

MoreReturns == \E i \in DOMAIN mores : AppendMore(i) \/ MoreFails(i)

AlertsNext ==
  \/ \E r \in Rooms : RaiseAlert(r)
  \/ \E a \in 1 .. Now : ResolveAlert(a)
  \/ PollAlerts \/ RefreshAlerts \/ RetryAlerts
  \/ \E f \in Filters : SetFilter(f)
  \/ AlertLoadReturns
  \/ LoadMore \/ MoreReturns

-----------------------------------------------------------------------------
Lists(a) == \E i \in DOMAIN listed : listed[i].alert = a

(* Newest first, and none twice. *)
NoneRepeated ==
  \A i, j \in DOMAIN listed : i < j => listed[i].alert > listed[j].alert

(* Of the alerts that the filter still asks for, none is passed over: what  *)
(* comes after the first that is listed is listed, or is older than all of  *)
(* them and offered by "Load more".                                         *)
NoneSkipped(f) ==
  \A a \in Matching(f, Now) :
    listed # <<>> /\ a < listed[1].alert
      => \/ Lists(a)
         \/ hasMore /\ \A i \in DOMAIN listed : a < listed[i].alert

AllOf(f) == \A i \in DOMAIN listed : listed[i].filter = f

OneList(f) == AllOf(f) /\ NoneRepeated /\ NoneSkipped(f)

(* A list that is loaded page by page breaks for three causes, and no two   *)
(* of them do the same harm.  An answer that is appended to a list that it  *)
(* does not continue, because a load or a change of filter came between,    *)
(* does any; an alert raised between two pages shifts the offsets, so that  *)
(* some are repeated, but none is skipped; one that was resolved makes some *)
(* skipped, but none repeated (loadMore, findAlerts).                       *)
ListBreaksForCause ==
  torn \/ \E f \in Filters :
           /\ AllOf(f)
           /\ raised \/ NoneRepeated
           /\ resolved \/ NoneSkipped(f)
=============================================================================
