--------------------------- MODULE FlowOwnership ---------------------------
(***************************************************************************)
(* What Prism promises about a client connection, whatever the handoff    *)
(* machinery does underneath (spec.md, "connection handoff"): at every    *)
(* moment at most one server holds the connection; the connection leaves *)
(* a server only while a request is pending, travels, and is taken up by *)
(* one server, which answers that request; once the client has closed it  *)
(* and its holder has released it, no server takes it up again.  The      *)
(* client sees one server: requests are answered only by the holder.     *)
(*                                                                         *)
(* holders[p] is the set of servers holding p's connection; the steps     *)
(* below keep it a set of at most one, so that a detailed specification   *)
(* whose mapped state ever has two holders does not implement this one.  *)
(***************************************************************************)
CONSTANTS Servers, Peers, Frontend

VARIABLES
  holders,  \* holders[p]: the servers holding p's connection
  cstate,   \* cstate[p]: "idle", "open" or "fin" (the client's side)
  req       \* req[p]: "none" or "pending", the client's open request

vars == <<holders, cstate, req>>

Init ==
  /\ holders = [p \in Peers |-> {}]
  /\ cstate = [p \in Peers |-> "idle"]
  /\ req = [p \in Peers |-> "none"]

\* The client connects; the frontend accepts.
Open(p) ==
  /\ cstate[p] = "idle"
  /\ cstate' = [cstate EXCEPT ![p] = "open"]
  /\ holders' = [holders EXCEPT ![p] = {Frontend}]
  /\ UNCHANGED req

Send(p) ==
  /\ cstate[p] = "open" /\ req[p] = "none"
  /\ req' = [req EXCEPT ![p] = "pending"]
  /\ UNCHANGED <<holders, cstate>>

\* The holder answers the pending request.
Answer(p) ==
  /\ req[p] = "pending" /\ holders[p] # {}
  /\ req' = [req EXCEPT ![p] = "none"]
  /\ UNCHANGED <<holders, cstate>>

\* The holder gives the connection up to move it, with the request open.
Detach(p) ==
  /\ cstate[p] = "open" /\ req[p] = "pending" /\ holders[p] # {}
  /\ holders' = [holders EXCEPT ![p] = {}]
  /\ UNCHANGED <<cstate, req>>

\* A server takes up a connection in transit.
Attach(p, t) ==
  /\ cstate[p] = "open" /\ req[p] = "pending" /\ holders[p] = {}
  /\ holders' = [holders EXCEPT ![p] = {t}]
  /\ UNCHANGED <<cstate, req>>

Close(p) ==
  /\ cstate[p] = "open" /\ req[p] = "none"
  /\ cstate' = [cstate EXCEPT ![p] = "fin"]
  /\ UNCHANGED <<holders, req>>

\* The holder sees the close and releases the connection.
Release(p) ==
  /\ cstate[p] = "fin" /\ holders[p] # {}
  /\ holders' = [holders EXCEPT ![p] = {}]
  /\ UNCHANGED <<cstate, req>>

Next ==
  \E p \in Peers :
    \/ Open(p) \/ Send(p) \/ Answer(p) \/ Detach(p) \/ Close(p) \/ Release(p)
    \/ \E t \in Servers : Attach(p, t)

(* A pending request is answered, a connection in transit is taken up,   *)
(* and a closed connection is released: weak fairness on each.            *)
Fairness ==
  \A p \in Peers :
    /\ WF_vars(Answer(p))
    /\ WF_vars(\E t \in Servers : Attach(p, t))
    /\ WF_vars(Release(p))

Spec == Init /\ [][Next]_vars /\ Fairness

=============================================================================
