---------------------------- MODULE FetchPromise ----------------------------
(***************************************************************************)
(* What the default Fetcher of package discovery promises, in one step: a  *)
(* request ends with the page its chain of redirects leads to, whole, or   *)
(* with an error; and with an error only if that page cannot be had, or    *)
(* the time is up.                                                         *)
(***************************************************************************)
EXTENDS HTTPServers

VARIABLES start, site, stopped, result

vars == <<start, site, stopped, result>>

Page ==
  LET end == ChainEnd(site, start)
  IN  [status |-> "response", url |-> end, size |-> AnswerAt(site, end).size]

Error == [status |-> "error"]

Init ==
  /\ start \in Starts
  /\ site \in Sites
  /\ stopped = FALSE
  /\ result = [status |-> "running"]

Stop ==
  /\ result.status = "running"
  /\ ~stopped
  /\ stopped' = TRUE
  /\ UNCHANGED <<start, site, result>>

Conclude ==
  /\ result.status = "running"
  /\ \/ Obtainable(site, start) /\ result' = Page
     \/ (stopped \/ ~Obtainable(site, start)) /\ result' = Error
  /\ UNCHANGED <<start, site, stopped>>

Next == Stop \/ Conclude

Safety == Init /\ [][Next]_vars

Spec == Safety /\ WF_vars(Conclude)
=============================================================================
