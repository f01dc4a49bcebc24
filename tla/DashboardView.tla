------------------------------ MODULE DashboardView ------------------------------
(***************************************************************************)
(* A page of the dashboard and the server it shows                         *)
(* (src/shared/hooks/use-accounts.ts, use-proxies.ts,                      *)
(* use-proxy-assignments.ts): the page loads a list, loads it again every  *)
(* half a minute and after each of its operations, and waits for the       *)
(* account of a login by counting.                                         *)
(*                                                                         *)
(* Requests are answered in any order and may fail; others change the      *)
(* server too (a login, another page, the pool itself).  A row is an       *)
(* account or a proxy, its value all that the page shows of it.  The hooks *)
(* read what is answered without a look at its status: an error in JSON (a *)
(* session that ended, a failing server) is an answer without a list.      *)
(* Bounds: Call, the requests at once; MaxChanges by anyone; one dialog.   *)
(***************************************************************************)
EXTENDS Integers, FiniteSets

CONSTANTS Row, Value, Call, MaxChanges

ASSUME ViewAssumption == IsFiniteSet(Row) /\ "nobody" \notin Call   \* nobody: not this page

VARIABLES
    hook,          \* which of them
    atServer,      \* the rows there are, with their values
    listed,        \* the rows shown
    refreshing,    \* the page shows that it loads; only that of the accounts does
    calls,         \* what the page waits for
    adding,        \* startAdd: its dialog, its poll and the number it compares with
    addInfo,       \* "accountAdded" is shown
    changes        \* bound

viewVars == <<hook, atServer, listed, refreshing, calls, adding, addInfo, changes>>

Gone == "gone"
Rows == [Row -> Value \cup {Gone}]
NoRows == [r \in Row |-> Gone]
HowMany(rows) == Cardinality({r \in Row : rows[r] # Gone})

NoCall == [at |-> "idle", row |-> Gone, value |-> Gone, rows |-> NoRows, moot |-> TRUE]
\* told: the number to compare with is one the server told.
NoAdding == [at |-> "idle", prevCount |-> 0, seen |-> 0, added |-> FALSE, told |-> TRUE]

Loading == [NoCall EXCEPT !.at = "loading"]
Refreshing == refreshing' = (hook = "accounts")

\* A change of the server.  moot: someone else changed the row of an operation after it.
ChangeTo(r, v, by) ==
    /\ changes < MaxChanges /\ atServer[r] # v
    /\ changes' = changes + 1
    /\ atServer' = [atServer EXCEPT ![r] = v]
    /\ adding' = [adding EXCEPT !.added = @ \/ atServer[r] = Gone]
    /\ calls' = [c \in Call |->
          CASE c = by -> [calls[c] EXCEPT !.at = "answered"]
            [] c # by /\ calls[c].row = r -> [calls[c] EXCEPT !.moot = TRUE]
            [] OTHER -> calls[c]]

Others == \E r \in Row, v \in Value \cup {Gone} :
    ChangeTo(r, v, "nobody") /\ UNCHANGED <<hook, listed, refreshing, addInfo>>

-----------------------------------------------------------------------------
(* Loading the list *)

Load(c) ==
    /\ calls[c].at = "idle"
    /\ calls' = [calls EXCEPT ![c] = Loading] /\ Refreshing
    /\ UNCHANGED <<hook, atServer, listed, adding, addInfo, changes>>

Served(c) ==
    /\ calls[c].at = "loading"
    /\ calls' = [calls EXCEPT ![c].at = "served", ![c].rows = atServer]
    /\ UNCHANGED <<hook, atServer, listed, refreshing, adding, addInfo, changes>>

\* An operation is done only now.
Shown(c) ==
    /\ calls[c].at = "served"
    /\ listed' = calls[c].rows /\ refreshing' = FALSE
    /\ calls' = [calls EXCEPT ![c] = NoCall]
    /\ UNCHANGED <<hook, atServer, adding, addInfo, changes>>

\* An error in JSON lists nothing.  An answer that is none, or not JSON, shows no
\* accounts either; a list of proxies stays.
ListFails(c) ==
    /\ calls[c].at \in {"loading", "served"}
    /\ \/ listed' = NoRows
       \/ hook = "proxies" /\ UNCHANGED listed
    /\ refreshing' = FALSE
    /\ calls' = [calls EXCEPT ![c] = NoCall]
    /\ UNCHANGED <<hook, atServer, adding, addInfo, changes>>

-----------------------------------------------------------------------------
(* Operations *)

\* deleteAccount, batchDelete, batchSetStatus, addByRefreshToken, importAccounts;
\* addProxy, removeProxy, enableProxy, disableProxy, assignProxy and the like.
Operate(c, r, v) ==
    /\ calls[c].at = "idle"
    /\ calls' = [calls EXCEPT ![c] = [NoCall EXCEPT !.at = "asked", !.row = r, !.value = v,
                                                   !.moot = FALSE]]
    /\ UNCHANGED <<hook, atServer, listed, refreshing, adding, addInfo, changes>>

Applied(c) ==
    /\ calls[c].at = "asked"
    /\ ChangeTo(calls[c].row, calls[c].value, c)
    /\ UNCHANGED <<hook, listed, refreshing, addInfo>>

\* Mutant: the list is asked for with the operation, not after it.
OperationAnsweredEarly(c) ==
    /\ calls[c].at = "answered"
    /\ calls' = [calls EXCEPT ![c].at = "served", ![c].rows = listed] /\ Refreshing

OperationAnswered(c) ==
    /\ calls[c].at = "answered"
    /\ calls' = [calls EXCEPT ![c].at = "loading"] /\ Refreshing

Answered(c) ==
    OperationAnswered(c) /\ UNCHANGED <<hook, atServer, listed, adding, addInfo, changes>>

\* updateLabel changes the row of the page alone.
PatchLocal(c) ==
    /\ hook = "accounts" /\ calls[c].at = "answered" /\ calls[c].value # Gone
    /\ listed' = [listed EXCEPT ![calls[c].row] = IF @ = Gone THEN Gone ELSE calls[c].value]
    /\ calls' = [calls EXCEPT ![c] = NoCall]
    /\ UNCHANGED <<hook, atServer, refreshing, adding, addInfo, changes>>

\* An operation that is refused, or whose answer is lost, is an error on the page; most
\* of the proxies' are not looked at, and load.
Refused(c) ==
    /\ calls[c].at \in {"asked", "answered"}
    /\ \/ calls' = [calls EXCEPT ![c] = NoCall] /\ UNCHANGED refreshing
       \/ hook = "proxies" /\ calls' = [calls EXCEPT ![c] = Loading] /\ Refreshing
    /\ UNCHANGED <<hook, atServer, listed, adding, addInfo, changes>>

-----------------------------------------------------------------------------
(* Adding an account by a login *)

\* The login has begun and its window is open; the number of accounts is asked for.
StartAdd ==
    /\ hook = "accounts" /\ adding.at = "idle"
    /\ adding' = [NoAdding EXCEPT !.at = "counting"] /\ addInfo' = FALSE
    /\ UNCHANGED <<hook, atServer, listed, refreshing, calls, changes>>

\* Mutant: the page's own list is counted.
CountedFromList(known) ==
    adding' = [adding EXCEPT !.at = "polling", !.prevCount = HowMany(listed), !.told = known]

\* An error in JSON counts as no accounts.
Counted(known) ==
    adding' = [adding EXCEPT !.at = "polling", !.told = known,
                             !.prevCount = IF known THEN HowMany(atServer) ELSE 0]

PrevCount ==
    /\ adding.at = "counting"
    /\ \E known \in BOOLEAN : Counted(known)
    /\ UNCHANGED <<hook, atServer, listed, refreshing, calls, addInfo, changes>>

\* Without an answer, or with one that is not JSON, there is no poll.
CountFails ==
    /\ adding.at = "counting"
    /\ adding' = NoAdding
    /\ UNCHANGED <<hook, atServer, listed, refreshing, calls, addInfo, changes>>

\* Every two seconds, and when the page gets the focus.  A check that fails finds nobody.
CheckForNewAccount ==
    /\ adding.at = "polling"
    /\ \E seen \in {0, HowMany(atServer)} : adding' = [adding EXCEPT !.at = "checking", !.seen = seen]
    /\ UNCHANGED <<hook, atServer, listed, refreshing, calls, addInfo, changes>>

Checked ==
    /\ adding.at \in {"checking", "last check"} /\ adding.seen <= adding.prevCount
    /\ adding' = IF adding.at = "checking" THEN [adding EXCEPT !.at = "polling"] ELSE NoAdding
    /\ UNCHANGED <<hook, atServer, listed, refreshing, calls, addInfo, changes>>

NewAccountFound(c) ==
    /\ adding.at \in {"checking", "last check"} /\ adding.seen > adding.prevCount
    /\ calls[c].at = "idle"
    /\ adding' = [adding EXCEPT !.at = "idle"] /\ addInfo' = TRUE
    /\ calls' = [calls EXCEPT ![c] = Loading] /\ Refreshing
    /\ UNCHANGED <<hook, atServer, listed, changes>>

\* After five minutes the poll ends; a check under way goes on.
AddTimesOut ==
    /\ adding.at \in {"polling", "checking"}
    /\ adding' = IF adding.at = "polling" THEN NoAdding ELSE [adding EXCEPT !.at = "last check"]
    /\ UNCHANGED <<hook, atServer, listed, refreshing, calls, addInfo, changes>>

ViewInit ==
    /\ hook \in {"accounts", "proxies"}
    /\ atServer \in Rows /\ listed = NoRows /\ refreshing = FALSE
    /\ calls = [c \in Call |-> NoCall]
    /\ adding = NoAdding /\ addInfo = FALSE /\ changes = 0

ViewNext ==
    \/ Others \/ StartAdd \/ PrevCount \/ CountFails \/ CheckForNewAccount \/ Checked \/ AddTimesOut
    \/ \E c \in Call :
          \/ Load(c) \/ Served(c) \/ Shown(c) \/ ListFails(c)
          \/ Applied(c) \/ Answered(c) \/ PatchLocal(c) \/ Refused(c) \/ NewAccountFound(c)
          \/ \E r \in Row, v \in Value \cup {Gone} : Operate(c, r, v)

ViewSpec == ViewInit /\ [][ViewNext]_viewVars

-----------------------------------------------------------------------------
(* Properties *)

\* Rows, requests and the dialog are of their kinds.
ViewTypeOK ==
    /\ {atServer, listed} \subseteq Rows /\ refreshing \in BOOLEAN /\ addInfo \in BOOLEAN
    /\ \A c \in Call : calls[c].at \in {"idle", "asked", "answered", "loading", "served"}
    /\ adding.at # "idle" => hook = "accounts"

\* A list that the page shows after an operation shows what that did, unless someone else
\* has changed its row since: the load is asked for after the answer.  (Where that load
\* fails, the page shows an empty list or the old one, and tells of no error:
\* DoneIsShown does not hold.)
OwnChangeShown ==
    [][\A c \in Call : calls[c].at = "served" /\ ~calls[c].moot /\ Shown(c)
          => listed'[calls[c].row] = calls[c].value]_viewVars

\* The poll tells "accountAdded" only if an account came in after the dialog opened, or
\* if the number it compares with is not the server's but that of an error: none.  (It
\* is told for a callback and for operations too, which know of their account.)
NoticeIsTrue == addInfo => adding.added \/ ~adding.told

\* What a page tells of an operation's outcome and of a new account is so, where the
\* server answered it with a list and a number.
PageTellsTheTruth == []ViewTypeOK /\ OwnChangeShown /\ []NoticeIsTrue

\* "Poll for new account" (use-accounts.ts:64): the poll tells of an account only if one
\* came in.  Where the number before is asked for with an error (a session that ended),
\* it is none, and the next good answer brings a "new" account.
NewAccountIsNew == addInfo => adding.added

\* What an operation did is on the page when it is done.
DoneIsShown ==
    [][\A c \in Call :
          calls[c].at \in {"loading", "served"} /\ ~calls[c].moot /\ calls'[c].at = "idle"
             => listed'[calls[c].row] = calls[c].value]_viewVars

\* A page that shows what the server has does not lose that by an answer to a load.
\* Answers are shown in the order they come: an older one stays until the next poll.
RightStaysRight ==
    [][(\E c \in Call : Shown(c)) /\ listed = atServer => listed' = atServer]_viewVars

\* An empty list says that there are no accounts: or that the list could not be loaded.
EmptyMeansNone ==
    [][listed # NoRows /\ listed' = NoRows => \E c \in Call : Shown(c)]_viewVars

\* The page says that it loads while it does.
RefreshingShown ==
    hook = "accounts" => (refreshing <=> \E c \in Call : calls[c].at \in {"loading", "served"})
=============================================================================
