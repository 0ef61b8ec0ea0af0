----------------------------- MODULE MCDashboard -----------------------------
(***************************************************************************)
(* Dashboard instantiated for TLC: three pool objects (the XhrIoPool's     *)
(* maxCount), two services, one login dialog per behaviour.                *)
(***************************************************************************)
EXTENDS Dashboard

\* One of the services, to open the page at its URL.
MCService == CHOOSE i \in ServiceIds : TRUE

\* The page opened at its root or at a service's URL (a capture group).
MCInitUrlsSmall ==
    { [path |-> "/", query |-> ""],
      [path |-> ServicePath(MCService), query |-> ""] }

\* The page opened at its root, at a view's URL with a query, at a service,
\* and at a URL no view matches.
MCInitUrls ==
    { [path |-> "/", query |-> ""],
      [path |-> "/logs", query |-> "x=1"],
      [path |-> ServicePath(MCService), query |-> ""],
      [path |-> "/nope", query |-> ""] }

\* The page opened at a view's own URL, as the history pushes it.
MCInitUrlsPlain ==
    { [path |-> "/", query |-> ""],
      [path |-> "/logs", query |-> ""] }

MCSymmetry == Permutations(Slots)

=============================================================================
