--------------------------- MODULE LinksHistory ---------------------------
(***************************************************************************)
(* Links with a history variable, for what the code says about links that  *)
(* should no longer work.                                                  *)
(***************************************************************************)
EXTENDS LinksProperties

VARIABLE resubmitted  \* the tokens whose video a submission has requeued since

HInit == Init /\ resubmitted = {}

HNext ==
  /\ Next
  /\ resubmitted' = resubmitted \union UNION {Of(i, links) : i \in {j \in Ids : Resubmit(j)}}

HSpec == HInit /\ [][HNext]_<<vars, resubmitted>>

\* http.go, handleRetryJob: "a fresh download invalidates previously issued
\* links".
FreshDownloadInvalidates ==
  [][\A q \in Requests : Accepted(q) => arg[q].token \notin resubmitted]_vars
=============================================================================
