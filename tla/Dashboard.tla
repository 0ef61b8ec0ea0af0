------------------------------ MODULE Dashboard ------------------------------
(***************************************************************************)
(* The skylb dashboard page: skylb.ViewMgr (viewmgr.js), the skylb.View    *)
(* contract (view.js), the load() of the four registered views and the     *)
(* startup handshake of skylb.main (main.js), composed with XhrMgr.        *)
(*                                                                          *)
(* The page is one event loop: every action is one event handler run to    *)
(* completion (a click, a popstate, one XhrIo event).  Requests in flight  *)
(* complete in any order.  The DOM is abstracted to what the view          *)
(* container shows; the browser to its history stack and location.        *)
(***************************************************************************)
EXTENDS XhrMgr, Sequences, TLC

CONSTANTS
    InitUrls,        \* the URLs the page can be opened at
    MaxHist,         \* bound: length of the browser history stack
    MaxViewDialogs   \* bound: view dialogs opened in one behaviour

VARIABLES
    view_,        \* ViewMgr.view_: the current view, None before the first
    svc,          \* ServiceView's match and data: [match, data]
    svcIntent,    \* history variable: the id the last activation of
                  \* ServiceView was asked for (URL capture or data)
    lastUrl_,     \* ViewMgr.lastUrl_
    hist,         \* the browser history stack (URLs)
    cur,          \* index of the current entry: window.location
    container,    \* what the view container shows
    viewer,       \* ViewMgr.viewer_ has been set
    viewDialog,   \* the open add-instance, toggle-lameduck or edit-user
                  \* dialog, None when there is none
    nViewDialogs, \* view dialogs created so far (ids 1..nViewDialogs)
    meHidden,     \* the top panel's 'me' dropdown has the class 'hidden'
    left          \* the page has navigated to /logout and is gone

dashVars == <<view_, svc, svcIntent, lastUrl_, hist, cur, container, viewer,
              viewDialog, nViewDialogs>>
pageVars == <<meHidden, left>>
vars == <<xhrVars, dashVars, pageVars>>

\* registerViews: HomeView, LogsView, ServiceView, UsersManagementView, in
\* this order, which is the order goog.structs.Map.forEach visits them.
RegisteredViews == <<"", "logs", "service", "users">>

\* registerView(view): views_ is keyed by view.getName().
ViewNames == {RegisteredViews[i] : i \in DOMAIN RegisteredViews}

\* ViewMgr.defaultUrl
DefaultUrl == ""

ServicePath(i) == "/service/" \o ToString(i)

\* Fault: HomeView's regex written /^/, without the $ anchor.
MatchesHomeUnanchored(v, p) ==
    \/ v = ""
    \/ v = "logs" /\ p = "/logs"
    \/ v = "service" /\ \E i \in ServiceIds : p = ServicePath(i)
    \/ v = "users" /\ p = "/users"

\* view.getUrlRegex(): /^$/, /^\/logs$/, /^\/service\/(\d+)$/, /^\/users$/
Matches(v, p) ==
    \/ v = "" /\ p = ""
    \/ v = "logs" /\ p = "/logs"
    \/ v = "service" /\ \E i \in ServiceIds : p = ServicePath(i)
    \/ v = "users" /\ p = "/users"

\* Fault: the whole match m[0] taken for the capture group.
CaptureWhole(p) == p

\* m[1] of a ServiceView match.
Capture(p) == CHOOSE i \in ServiceIds : p = ServicePath(i)

\* view.getUrl() of each view; ServiceView's uses getServiceId_().
GetUrl(v, id) ==
    CASE v = ""        -> "/"
      [] v = "logs"    -> "/logs"
      [] v = "users"   -> "/users"
      [] v = "service" -> ServicePath(id)

\* The View constructor: data = {} and match = [], so getServiceId_()
\* finds no id until the first activation.
ViewInit == [match |-> None, data |-> None]

\* Fault: a reset() that clears data but forgets match.
ResetKeepsMatch(f) == [f EXCEPT !.data = None]

\* View.reset(), View.setData(), View.setMatch() on ServiceView's fields.
Reset(f) == [f EXCEPT !.match = None, !.data = None]
SetData(f, d) == [f EXCEPT !.data = d]
SetMatch(f, m) == [f EXCEPT !.match = m]

\* ServiceView.getServiceId_(): the match group wins over data.service_id.
GetServiceId(f) == IF f.match # None THEN f.match ELSE f.data

\* goog.Uri.parse(url).getPath(): the query is dropped.
PathOf(u) == u.path

\* The container: the view rendered into it, the service it shows and
\* the service whose instances ServiceView's instance viewer (svcViewer_)
\* shows; the add-instance, refresh and lameduck buttons of that viewer
\* act on the service id installInstViewerListeners_ was given.
Empty == [view |-> None, sid |-> None, inst |-> None]
Rendered(v, id) == [view |-> v, sid |-> id, inst |-> IF v = "service" THEN id ELSE None]

ViewDialogs == 1..MaxViewDialogs

\* The first request each view's load() sends: HomeView and LogsView
\* get-all-services, ServiceView get-service-by-id for getServiceId_(),
\* UsersManagementView get-users.
HomeRequest == Request("home", None, None)
LogsRequest == Request("logsSvc", None, None)
ServiceRequest(id) == Request("service", id, None)
UsersRequest == Request("users", None, None)

LoadRequest(v, id) ==
    CASE v = ""        -> HomeRequest
      [] v = "logs"    -> LogsRequest
      [] v = "service" -> ServiceRequest(id)
      [] v = "users"   -> UsersRequest

-----------------------------------------------------------------------------
(* ViewMgr.  x is the pool as the calling handler left it, c the history  *)
(* index of window.location when the handler runs.                         *)

\* The ViewMgr constructor: no viewer, no current view, no URL pushed yet.
ViewMgrInit == view_ = None /\ lastUrl_ = None /\ viewer = FALSE

\* setViewer(user): main hands the signed-in user to the router.
SetViewer == viewer' = TRUE

\* pushState_(url, title): window.history.pushState drops the entries after
\* the current one c and appends url, which becomes the location.
PushState(url, c) ==
    /\ hist' = Append(SubSeq(hist, 1, c), [path |-> url, query |-> ""])
    /\ cur' = c + 1

\* The callback ViewMgr passes to view.load(): push the view's URL unless it
\* equals lastUrl_.
Loaded(v, id, push, c) ==
    LET url == GetUrl(v, id) IN
    IF push /\ url # lastUrl_
      THEN /\ lastUrl_' = url
           /\ PushState(url, c)
      ELSE /\ UNCHANGED <<lastUrl_, hist>>
           /\ cur' = c

\* view.load(callback): clear the container, getXhrIo() and send, then call
\* the callback.  With the pool exhausted getXhrIo() throws and the rest,
\* callback included, never runs.
LoadView(x, v, id, push, c) ==
    /\ container' = Empty
    /\ IF CanGetXhrIo(x)
         THEN /\ xhr' \in GetXhrIo(x, LoadRequest(v, id))
              /\ UNCHANGED thrown
              /\ Loaded(v, id, push, c)
         ELSE /\ xhr' = x
              /\ thrown' = TRUE
              /\ UNCHANGED <<lastUrl_, hist>>
              /\ cur' = c

\* loadViewByName(name, pushState, data): view_ := view, reset(), setData(),
\* load().  d is data.service_id (None for the {} of the menu buttons).
LoadViewByName(x, name, push, d, c) ==
    LET f == IF name = "service" THEN SetData(Reset(svc), d) ELSE svc IN
    /\ view_' = name
    /\ svc' = f
    /\ svcIntent' = IF name = "service" THEN d ELSE svcIntent
    /\ LoadView(x, name, GetServiceId(f), push, c)

\* The forEach of loadViewByUrl over the views vs still to visit, from the
\* page state st: every view whose regex matches path p becomes view_, is
\* reset(), given the match, and loaded.  The `return` in the callback does
\* not stop goog.structs.Map.forEach; a TypeError from getXhrIo() does.
\* Every caller passes pushState false, so the load callback does nothing.
\* The set of possible final states (getXhrIo may lease any free object).
RECURSIVE ForEachView(_, _, _)
ForEachView(st, vs, p) ==
    IF vs = <<>> THEN {st}
    ELSE IF ~Matches(Head(vs), p) THEN ForEachView(st, Tail(vs), p)
    ELSE LET v == Head(vs)
             f == IF v = "service" THEN SetMatch(Reset(st.svc), Capture(p)) ELSE st.svc
             on == [st EXCEPT !.view = v, !.svc = f, !.cleared = TRUE,
                              !.intent = IF v = "service" THEN Capture(p) ELSE st.intent]
         IN IF CanGetXhrIo(st.x)
              THEN UNION {ForEachView([on EXCEPT !.x = y], Tail(vs), p) :
                            y \in GetXhrIo(st.x, LoadRequest(v, GetServiceId(f)))}
              ELSE {[on EXCEPT !.threw = TRUE]}

\* loadViewByUrl(url, false): '' and '/' become defaultUrl, then the forEach
\* over the registered views; with no match nothing happens.
LoadViewByUrl(x, u, c) ==
    LET p == IF PathOf(u) \in {"", "/"} THEN DefaultUrl ELSE PathOf(u)
        st == [x |-> x, threw |-> FALSE, view |-> view_, svc |-> svc,
               intent |-> svcIntent, cleared |-> FALSE]
    IN \E o \in ForEachView(st, RegisteredViews, p) :
          /\ xhr' = o.x
          /\ thrown' = (thrown \/ o.threw)
          /\ view_' = o.view
          /\ svc' = o.svc
          /\ svcIntent' = o.intent
          /\ container' = IF o.cleared THEN Empty ELSE container
          /\ cur' = c
          /\ UNCHANGED <<lastUrl_, hist>>

-----------------------------------------------------------------------------
(* skylb.main has run: views registered, handlers installed, the           *)
(* get-current-user request sent on the pool's first object.               *)
Init ==
    /\ \E s0 \in Slots :
          xhr = [s \in Slots |-> IF s = s0 THEN Request("getUser", None, None) ELSE Free]
    /\ thrown = FALSE
    /\ XhrInit
    /\ ViewMgrInit
    /\ svc = ViewInit
    /\ svcIntent = None
    /\ \E u \in InitUrls : hist = <<u>>
    /\ cur = 1
    /\ container = Empty
    /\ viewDialog = None
    /\ nViewDialogs = 0
    /\ meHidden \in BOOLEAN   \* set by the page markup, not in this repository
    /\ left = FALSE

(* User events.  Every dialog is modal: while one is open the page takes   *)
(* no clicks, but the browser's back and forward buttons still work.       *)

NoModal == openDialogs = {} /\ viewDialog = None

\* Logo, users and logs buttons of the top panel (installEventHandlers).
ClickMenu(name) ==
    /\ NoModal
    /\ Len(hist) < MaxHist
    /\ LoadViewByName(xhr, name, TRUE, None, cur)
    /\ UNCHANGED <<viewer, viewDialog, nViewDialogs, nDialogs, openDialogs, busy>>

\* A service row of the rendered HomeView.
ClickServiceRow(i) ==
    /\ NoModal
    /\ Len(hist) < MaxHist
    /\ container = Rendered("", None)
    /\ LoadViewByName(xhr, "service", TRUE, i, cur)
    /\ UNCHANGED <<viewer, viewDialog, nViewDialogs, nDialogs, openDialogs, busy>>

\* Double click on another service's node of the rendered ServiceView graph.
DoubleClickNode(i) ==
    /\ NoModal
    /\ Len(hist) < MaxHist
    /\ container.view = "service"
    /\ container.sid # i
    /\ LoadViewByName(xhr, "service", TRUE, i, cur)
    /\ UNCHANGED <<viewer, viewDialog, nViewDialogs, nDialogs, openDialogs, busy>>

\* Back or forward: the browser moves the location, then the POPSTATE
\* listener calls loadViewByUrl(window.location, false).
Back ==
    /\ cur > 1
    /\ LoadViewByUrl(xhr, hist[cur - 1], cur - 1)
    /\ UNCHANGED <<viewer, viewDialog, nViewDialogs, nDialogs, openDialogs, busy>>

Forward ==
    /\ cur < Len(hist)
    /\ LoadViewByUrl(xhr, hist[cur + 1], cur + 1)
    /\ UNCHANGED <<viewer, viewDialog, nViewDialogs, nDialogs, openDialogs, busy>>

SubmitLogin(d) == Login(d) /\ UNCHANGED dashVars

(* SUCCESS listeners: each returns its object first.                       *)

\* main: get-current-user; on an error message alert and stop, otherwise
\* setViewer and loadViewByUrl(window.location, false).
OnCurrentUser(s) ==
    /\ InFlight(xhr, s)
    /\ xhr[s].kind = "getUser"
    /\ LET x == ReturnXhr(Complete(xhr, s), s) IN
         \/ /\ xhr' = x
            /\ UNCHANGED <<dashVars, thrown>>
         \/ /\ SetViewer
            /\ LoadViewByUrl(x, hist[cur], cur)
            /\ UNCHANGED <<viewDialog, nViewDialogs>>
    /\ busy' = CursorAfterEnd
    /\ UNCHANGED <<nDialogs, openDialogs>>

\* A SUCCESS listener that returns its object and renders its response
\* into the container, whatever view is current by then.
Render(s, kind, page) ==
    /\ InFlight(xhr, s)
    /\ xhr[s].kind = kind
    /\ xhr' = ReturnXhr(Complete(xhr, s), s)
    /\ container' = page
    /\ busy' = CursorAfterEnd
    /\ UNCHANGED <<view_, svc, svcIntent, lastUrl_, hist, cur, viewer,
                   viewDialog, nViewDialogs, thrown, nDialogs, openDialogs>>

\* HomeView.load: render the service table (rows clickable).
OnHomeLoaded(s) == Render(s, "home", Rendered("", None))

\* ServiceView.load: render the service and its graph.
OnServiceLoaded(s) == Render(s, "service", Rendered("service", xhr[s].sid))

\* UsersManagementView.load: render the user cards.
OnUsersLoaded(s) == Render(s, "users", Rendered("users", None))

\* LogsView.loadLogs_: render the logs.
OnLogsLoaded(s) == Render(s, "logs", Rendered("logs", None))

\* LogsView.load: keep the services, then loadLogs_(null): clear the
\* container, getXhrIo() and send get-logs.
OnLogsServices(s) ==
    /\ InFlight(xhr, s)
    /\ xhr[s].kind = "logsSvc"
    /\ LET x == ReturnXhr(Complete(xhr, s), s) IN
         /\ container' = Empty
         /\ IF CanGetXhrIo(x)
              THEN /\ xhr' \in GetXhrIo(x, Request("logs", None, None))
                   /\ UNCHANGED thrown
              ELSE /\ xhr' = x
                   /\ thrown' = TRUE
    /\ busy' = CursorAfterEnd
    /\ UNCHANGED <<view_, svc, svcIntent, lastUrl_, hist, cur, viewer,
                   viewDialog, nViewDialogs, nDialogs, openDialogs>>

-----------------------------------------------------------------------------
(* ServiceView's instance viewer, the view dialogs, and the logs filter.   *)

\* A handler that sends one request r from a pool x: getXhrIo() and send,
\* or the TypeError of an exhausted pool.
Send(x, r) ==
    IF CanGetXhrIo(x)
      THEN /\ xhr' \in GetXhrIo(x, r)
           /\ UNCHANGED thrown
      ELSE /\ xhr' = x
           /\ thrown' = TRUE

\* ServiceView.refreshInstances_(id): empty svcViewer_ and send
\* get-service-by-id.  svcViewer_ is the instance viewer the last
\* ServiceView SUCCESS rendered; it is in the container exactly while the
\* container shows a ServiceView render, otherwise it is detached.
RefreshInstances(x, id) ==
    /\ container' = IF container.view = "service"
                      THEN [container EXCEPT !.inst = None]
                      ELSE container
    /\ Send(x, Request("refresh", id, None))

\* The refresh button of the instance viewer.
ClickRefresh ==
    /\ NoModal
    /\ container.inst # None
    /\ RefreshInstances(xhr, container.inst)
    /\ UNCHANGED <<view_, svc, svcIntent, lastUrl_, hist, cur, viewer,
                   viewDialog, nViewDialogs, nDialogs, openDialogs, busy>>

\* A dialog the current render offers: the add-instance button or an
\* instance's lameduck icon (launchAddInstDialog_, launchToggleLameduckDialog_,
\* with the service id installInstViewerListeners_ was given), or a user
\* card (createEditUserDialog_).
OpenDialog(kind) ==
    /\ NoModal
    /\ nViewDialogs < MaxViewDialogs
    /\ \/ kind \in {"addInst", "toggle"} /\ container.inst # None
       \/ kind = "upsert" /\ container.view = "users"
    /\ nViewDialogs' = nViewDialogs + 1
    /\ viewDialog' = [kind |-> kind,
                      sid |-> IF kind = "upsert" THEN None ELSE container.inst,
                      id |-> nViewDialogs + 1]
    /\ UNCHANGED <<xhrVars, view_, svc, svcIntent, lastUrl_, hist, cur,
                   container, viewer>>

LaunchAddInstDialog == OpenDialog("addInst")
LaunchToggleLameduckDialog == OpenDialog("toggle")
CreateEditUserDialog == OpenDialog("upsert")

\* The save button of the open dialog of the given kind sends its request;
\* the dialog stays open until the answer.
SaveDialog(kind) ==
    /\ viewDialog # None
    /\ viewDialog.kind = kind
    /\ openDialogs = {}
    /\ Send(xhr, Request(kind, viewDialog.sid, viewDialog.id))
    /\ UNCHANGED <<dashVars, nDialogs, openDialogs, busy>>

\* addInstance_: its early return on an address shorter than 4 characters
\* only writes the error text, so the step that changes state is the send.
AddInstance == SaveDialog("addInst")
ToggleLameduckMode == SaveDialog("toggle")
CreateEditUser == SaveDialog("upsert")

\* The title bar's close button hides (and disposes) the dialog.
CloseDialog ==
    /\ viewDialog # None
    /\ openDialogs = {}
    /\ viewDialog' = None
    /\ UNCHANGED <<xhrVars, view_, svc, svcIntent, lastUrl_, hist, cur,
                   container, viewer, nViewDialogs>>

\* dialog.setVisible(false) of the dialog a request was sent from: the
\* open dialog if it is that one; a dialog already hidden stays hidden.
HideDialog(d) == viewDialog' = IF viewDialog # None /\ viewDialog.id = d
                                 THEN None ELSE viewDialog

\* SUCCESS listener of addInstance_ and toggleLameduckMode_: return the
\* object; an error message is shown in the dialog, otherwise the dialog
\* is hidden and refreshInstances_(serviceId) runs.
OnInstanceChanged(s, kind) ==
    /\ InFlight(xhr, s)
    /\ xhr[s].kind = kind
    /\ LET x == ReturnXhr(Complete(xhr, s), s) IN
         \/ /\ xhr' = x
            /\ UNCHANGED <<container, viewDialog, thrown>>
         \/ /\ HideDialog(xhr[s].dlg)
            /\ RefreshInstances(x, xhr[s].sid)
    /\ busy' = CursorAfterEnd
    /\ UNCHANGED <<view_, svc, svcIntent, lastUrl_, hist, cur, viewer,
                   nViewDialogs, nDialogs, openDialogs>>

OnInstanceAdded(s) == OnInstanceChanged(s, "addInst")
OnLameduckToggled(s) == OnInstanceChanged(s, "toggle")

\* SUCCESS listener of refreshInstances_: return the object and render the
\* instances into svcViewer_, which shows only if it is still attached.
OnInstancesLoaded(s) ==
    /\ InFlight(xhr, s)
    /\ xhr[s].kind = "refresh"
    /\ xhr' = ReturnXhr(Complete(xhr, s), s)
    /\ container' = IF container.view = "service"
                      THEN [container EXCEPT !.inst = xhr[s].sid]
                      ELSE container
    /\ busy' = CursorAfterEnd
    /\ UNCHANGED <<view_, svc, svcIntent, lastUrl_, hist, cur, viewer,
                   viewDialog, nViewDialogs, thrown, nDialogs, openDialogs>>

\* SUCCESS listener of createEditUser_: return the object; an error message
\* is shown in the dialog, otherwise the dialog is hidden and
\* this.load(undefined) clears the container and sends get-users, whatever
\* view is current.
OnUserSaved(s) ==
    /\ InFlight(xhr, s)
    /\ xhr[s].kind = "upsert"
    /\ LET x == ReturnXhr(Complete(xhr, s), s) IN
         \/ /\ xhr' = x
            /\ UNCHANGED <<container, viewDialog, thrown>>
         \/ /\ HideDialog(xhr[s].dlg)
            /\ container' = Empty
            /\ Send(x, UsersRequest)
    /\ busy' = CursorAfterEnd
    /\ UNCHANGED <<view_, svc, svcIntent, lastUrl_, hist, cur, viewer,
                   nViewDialogs, nDialogs, openDialogs>>

\* The filter button of the rendered logs: loadLogs_(req) clears the
\* container and sends get-logs with the chosen operator and service.
ClickFilter ==
    /\ NoModal
    /\ container.view = "logs"
    /\ container' = Empty
    /\ Send(xhr, Request("logs", None, None))
    /\ UNCHANGED <<view_, svc, svcIntent, lastUrl_, hist, cur, viewer,
                   viewDialog, nViewDialogs, nDialogs, openDialogs, busy>>

-----------------------------------------------------------------------------
UserStep ==
    \/ \E name \in {"", "users", "logs"} : ClickMenu(name)
    \/ \E i \in ServiceIds : ClickServiceRow(i) \/ DoubleClickNode(i)
    \/ Back
    \/ Forward
    \/ \E d \in Dialogs : SubmitLogin(d)
    \/ \E d \in Dialogs : DismissLogin(d) /\ UNCHANGED dashVars
    \/ ClickRefresh
    \/ LaunchAddInstDialog \/ LaunchToggleLameduckDialog \/ CreateEditUserDialog
    \/ AddInstance \/ ToggleLameduckMode \/ CreateEditUser
    \/ CloseDialog
    \/ ClickFilter

NetworkStep(s) ==
    \/ OnCurrentUser(s)
    \/ OnHomeLoaded(s)
    \/ OnServiceLoaded(s)
    \/ OnUsersLoaded(s)
    \/ OnLogsLoaded(s)
    \/ OnLogsServices(s)
    \/ OnInstanceAdded(s)
    \/ OnLameduckToggled(s)
    \/ OnInstancesLoaded(s)
    \/ OnUserSaved(s)
    \/ OnLoginSuccess(s) /\ UNCHANGED dashVars
    \/ OnTimeout(s) /\ UNCHANGED dashVars
    \/ OnError(s) /\ UNCHANGED dashVars
    \/ OnSessionExpired(s) /\ UNCHANGED dashVars

\* The 'me' button (loginUser) toggles the dropdown's 'hidden' class.
ToggleMeDropdown ==
    /\ NoModal
    /\ meHidden' = ~meHidden
    /\ UNCHANGED <<xhrVars, dashVars, left>>

\* The dropdown's logout button: hide the dropdown and set window.location
\* to /logout.  The document unloads: no handler of this page runs again
\* and its requests in flight never answer it.  The browser's entry for
\* /logout belongs to another document and is not modelled.
Logout ==
    /\ NoModal
    /\ ~meHidden
    /\ meHidden' = TRUE
    /\ left' = TRUE
    /\ UNCHANGED <<xhrVars, dashVars>>

\* The page's handlers, while the page is loaded.
PageStep ==
    /\ ~left
    /\ \/ UserStep /\ UNCHANGED pageVars
       \/ \E s \in Slots : NetworkStep(s) /\ UNCHANGED pageVars
       \/ ToggleMeDropdown
       \/ Logout

\* Once the page is left nothing of it changes any more.
PageGone == left /\ UNCHANGED vars

Next == PageStep \/ PageGone

\* Every send arms the XhrIo timer (setTimeoutInterval(30000)), so a request
\* in flight ends at the latest with its TIMEOUT event.  The user and the
\* server owe nothing.
\* The timers end with the page.
Fairness == \A s \in Slots :
                WF_vars(~left /\ OnTimeout(s) /\ UNCHANGED <<dashVars, pageVars>>)

Spec == Init /\ [][Next]_vars /\ Fairness

-----------------------------------------------------------------------------
(* Properties.                                                              *)

\* Every variable holds a value the code can produce: in particular the
\* service id getServiceId_() reads is a service id (match[1], not the
\* whole match), and the history is never empty.
TypeOK ==
    /\ xhr \in [Slots -> {Free, Idle} \cup
                  [kind : Kinds, sid : ServiceIds \cup {None},
                   dlg : Dialogs \cup ViewDialogs \cup {None}]]
    /\ thrown \in BOOLEAN
    /\ busy \in BOOLEAN
    /\ nDialogs \in 0..MaxDialogs
    /\ openDialogs \subseteq 1..nDialogs
    /\ view_ \in ViewNames \cup {None}
    /\ svc \in [match : ServiceIds \cup {None}, data : ServiceIds \cup {None}]
    /\ svcIntent \in ServiceIds \cup {None}
    /\ hist \in Seq([path : STRING, query : STRING])
    /\ Len(hist) \in 1..MaxHist
    /\ cur \in 1..Len(hist)
    /\ container \in {Empty} \cup [view : ViewNames, sid : ServiceIds \cup {None},
                                  inst : ServiceIds \cup {None}]
    /\ viewer \in BOOLEAN
    /\ nViewDialogs \in 0..MaxViewDialogs
    /\ meHidden \in BOOLEAN
    /\ left \in BOOLEAN
    /\ viewDialog \in {None} \cup [kind : {"addInst", "toggle", "upsert"},
                                   sid : ServiceIds \cup {None},
                                   id : 1..nViewDialogs]

\* Whatever navigations, back/forward steps and responses came before, the
\* service ServiceView works on while it is the current view is the one its
\* last activation asked for: reset() runs before setData()/setMatch() and
\* getServiceId_() never sees a capture group of an earlier URL.
ServiceIdFollowsNavigation ==
    view_ = "service" => GetServiceId(svc) = svcIntent

\* Spec section 7: infrastructure failures are handled inside the Request
\* Pool Manager and never propagate as exceptions; section 4.2: an acquire
\* on a full pool is queued, never dropped.  (getXhrIo, xhrmgr.js 65-66.)
NoUncaughtException == ~thrown

\* The view and service id loadViewByUrl would pick for a URL.
\* It is the last matching view in registration order: the forEach does
\* not stop at the first.
UrlPage(u) ==
    LET p == IF PathOf(u) \in {"", "/"} THEN DefaultUrl ELSE PathOf(u)
        M == SelectSeq(RegisteredViews, LAMBDA w : Matches(w, p))
    IN IF M = <<>> THEN Empty
       ELSE LET v == M[Len(M)]
            IN Rendered(v, IF v = "service" THEN Capture(p) ELSE None)

ActivePage ==
    Rendered(view_, IF view_ = "service" THEN GetServiceId(svc) ELSE None)

\* Spec section 4.1: the router keeps browser history consistent with the
\* activated view.  Unless a handler threw, window.location names the view
\* (and service) that is current, whenever it names one at all.
LocationShowsActiveView ==
    (~thrown /\ view_ # None /\ UrlPage(hist[cur]) # Empty)
        => UrlPage(hist[cur]) = ActivePage

\* Spec section 6: an entry is pushed only when the view's URL differs from
\* the last one pushed, so no two neighbouring history entries are equal.
NoDuplicateHistoryEntry ==
    \A i \in 1..(Len(hist) - 1) : hist[i] # hist[i + 1]

\* Spec section 4.2: the busy indicator is set when a request is sent and
\* cleared when it completes, so the cursor shows 'progress' whenever a
\* request is in flight.  (getXhrIo sets it on READY, xhrmgr.js 70-72.)
BusyWhileInFlight == (\E s \in Slots : InFlight(xhr, s)) => busy

\* The instance viewer of a rendered ServiceView lists the instances of the
\* service the page shows, so its add-instance and lameduck buttons act on
\* that service.  (refreshInstances_ renders into this.svcViewer_ whenever
\* its answer arrives, serviceview.js 275-296.)
InstancesOfShownService ==
    container.view = "service" /\ container.inst # None
        => container.inst = container.sid

PushOnlyAfterLoad ==
    [][hist' # hist => container' = UrlPage(hist'[cur'])]_vars

-----------------------------------------------------------------------------
(* The pool and its callers implement the request ledger: a request leaves *)
(* the pool only when an event of its own ends it, and a handler sends     *)
(* only the continuation of the work it ends.                              *)

\* The continuation each SUCCESS listener sends: main's loadViewByUrl
\* after get-current-user, LogsView's loadLogs_ after get-all-services,
\* refreshInstances_ after add-instance and toggle-lameduck, and
\* UsersManagementView.load after upsert-user.
FollowUpsOf(r) ==
    CASE r.kind = "getUser" -> {LoadRequest(v, i) : v \in ViewNames, i \in ServiceIds}
      [] r.kind = "logsSvc" -> {Request("logs", None, None)}
      [] r.kind \in {"addInst", "toggle"} -> {Request("refresh", r.sid, None)}
      [] r.kind = "upsert" -> {UsersRequest}
      [] OTHER -> {}

\* The requests user actions send: everything but get-current-user, which
\* only main sends, once.
UserRequests ==
    [kind : Kinds \ {"getUser"}, sid : ServiceIds \cup {None},
     dlg : Dialogs \cup ViewDialogs \cup {None}]

\* The bag of requests the pool's objects are serving.
InFlightBag ==
    [r \in {xhr[s] : s \in {t \in Slots : InFlight(xhr, t)}} |->
        Cardinality({s \in Slots : xhr[s] = r})]

Ledger == INSTANCE RequestLedger
            WITH inflight <- InFlightBag,
                 Initial <- {Request("getUser", None, None)},
                 Issuable <- UserRequests,
                 FollowUps <- FollowUpsOf

\* No request in flight is ever lost or duplicated by the pool or by a
\* handler: XhrIoPool.getObject() hands out only idle objects, and every
\* listener ends only its own request.
LedgerRefinement == Ledger!LedgerSpec

=============================================================================
