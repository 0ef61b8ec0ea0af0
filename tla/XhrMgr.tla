------------------------------- MODULE XhrMgr -------------------------------
(***************************************************************************)
(* skylb.XhrMgr (src/dashboard/scripts/skylb/xhrmgr.js): the pool of       *)
(* goog.net.XhrIo objects every request of the dashboard goes through, the *)
(* TIMEOUT and ERROR listeners getXhrIo() attaches to each lease, the      *)
(* session-expired login dialog opened on a 401 and the login_ call it     *)
(* issues.                                                                  *)
(*                                                                          *)
(* A pool object is a slot: the XhrIoPool is built with maxCount 3, so at  *)
(* most three objects exist at once, and a released object that is still  *)
(* active is disposed rather than queued again (every release in this code *)
(* happens inside a listener, while the object is active), so an object's  *)
(* identity never outlives its lease.  xhr[s] is Free when no object is    *)
(* leased in slot s, the request record being served while one is in      *)
(* flight, and Idle when the request has finished but the object has not   *)
(* been returned to the pool.                                              *)
(***************************************************************************)
EXTENDS Naturals, FiniteSets

CONSTANTS
    Slots,        \* the XhrIo objects the pool may hold at once (maxCount)
    ServiceIds,   \* service ids a request may carry
    MaxDialogs,   \* bound: login dialogs opened in one behaviour
    None          \* model value: an absent field

VARIABLES
    xhr,          \* slot -> Free | Idle | request in flight
    thrown,       \* an exception escaped an event handler
    nDialogs,     \* login dialogs created so far (ids 1..nDialogs)
    openDialogs,  \* ids of the login dialogs currently visible
    busy          \* the 'outer-container' cursor is 'progress'

xhrVars == <<xhr, thrown, nDialogs, openDialogs, busy>>

Kinds == {"getUser", "home", "logsSvc", "logs", "service", "users", "login",
          "refresh", "addInst", "toggle", "upsert"}

Dialogs == 1..MaxDialogs

\* A request: what the SUCCESS listener attached to it will do.
Request(kind, sid, dlg) == [kind |-> kind, sid |-> sid, dlg |-> dlg]

Free == Request("free", None, None)
Idle == Request("idle", None, None)

Requests == [kind : Kinds, sid : ServiceIds \cup {None}, dlg : Dialogs \cup {None}]

\* The object in slot s carries a request that has not ended yet.
InFlight(x, s) == x[s] \notin {Free, Idle}

\* pool_.getObject() can hand out an object: fewer than maxCount are in use.
CanGetXhrIo(x) == \E s \in Slots : x[s] = Free

\* Fault: a pool that may hand out an object still serving a request.
GetXhrIoInUse(x, r) == {[x EXCEPT ![s] = r] : s \in Slots}

\* getXhrIo() followed by xhr.send(): the pool values after leasing a free
\* object and sending request r on it.
GetXhrIo(x, r) == {[x EXCEPT ![s] = r] : s \in {t \in Slots : x[t] = Free}}

\* The request on slot s has finished: the XhrIo is no longer in flight.
Complete(x, s) == [x EXCEPT ![s] = Idle]

\* returnXhr(xhr) / pool_.releaseObject(xhr): the object leaves the pool.
ReturnXhr(x, s) == [x EXCEPT ![s] = Free]

XhrInit == /\ nDialogs = 0
           /\ openDialogs = {}
           /\ busy = FALSE

\* The cursor after an XhrIo event ends a request.  XhrIo dispatches
\* COMPLETE (cursor 'auto') before SUCCESS or ERROR, and READY (cursor
\* 'progress') only from cleanUpXhr_ after them, when the object has not
\* been disposed; every listener here has released, hence disposed, the
\* active object by then, so READY never follows.  On TIMEOUT the listener
\* disposes the object before abort() could dispatch COMPLETE; the cursor
\* keeps its value, which no event has ever set to 'progress'.
CursorAfterEnd == FALSE

-----------------------------------------------------------------------------
(* The listeners getXhrIo() attaches to every object it hands out.          *)

\* TIMEOUT listener: log and release the object; the XhrIo then aborts the
\* request, and as the object is disposed no late answer is delivered.
OnTimeout(s) ==
    /\ InFlight(xhr, s)
    /\ xhr' = ReturnXhr(Complete(xhr, s), s)
    /\ busy' = CursorAfterEnd
    /\ UNCHANGED <<thrown, nDialogs, openDialogs>>

\* ERROR listener for a status other than 401: log and release the object.
OnError(s) ==
    /\ InFlight(xhr, s)
    /\ xhr' = ReturnXhr(Complete(xhr, s), s)
    /\ busy' = CursorAfterEnd
    /\ UNCHANGED <<thrown, nDialogs, openDialogs>>

\* ERROR listener, status 401: release, then build and show a new modal
\* login dialog.
OnSessionExpired(s) ==
    /\ InFlight(xhr, s)
    /\ nDialogs < MaxDialogs
    /\ xhr' = ReturnXhr(Complete(xhr, s), s)
    /\ nDialogs' = nDialogs + 1
    /\ openDialogs' = openDialogs \cup {nDialogs + 1}
    /\ busy' = CursorAfterEnd
    /\ UNCHANGED thrown

\* The login button or Enter in dialog d calls login_(d): getXhrIo() and
\* send the login request; with the pool exhausted getXhrIo() throws.
Login(d) ==
    /\ d \in openDialogs
    /\ IF CanGetXhrIo(xhr)
         THEN /\ xhr' \in GetXhrIo(xhr, Request("login", None, d))
              /\ UNCHANGED thrown
         ELSE /\ thrown' = TRUE
              /\ UNCHANGED xhr
    /\ UNCHANGED <<nDialogs, openDialogs, busy>>

\* The login dialog is built with setButtonSet(null) only: goog.ui.Dialog
\* keeps its title-bar close button and Escape key, and either hides
\* (and, with setDisposeOnHide, disposes) dialog d with no request.
DismissLogin(d) ==
    /\ d \in openDialogs
    /\ openDialogs' = openDialogs \ {d}
    /\ UNCHANGED <<xhr, thrown, nDialogs, busy>>

\* SUCCESS listener of login_: return the object; an error message is shown
\* in the dialog, otherwise the dialog is hidden.  The call that met the 401
\* is not issued again.
OnLoginSuccess(s) ==
    /\ InFlight(xhr, s)
    /\ xhr[s].kind = "login"
    /\ xhr' = ReturnXhr(Complete(xhr, s), s)
    /\ \/ UNCHANGED openDialogs                       \* resp.getErrorMsg()
       \/ openDialogs' = openDialogs \ {xhr[s].dlg}   \* setVisible(false)
    /\ busy' = CursorAfterEnd
    /\ UNCHANGED <<thrown, nDialogs>>

=============================================================================
