------------------------------ MODULE RpcCalls ------------------------------
(***************************************************************************)
(* What Client::call promises its caller (src/src/endpoint.rs), without    *)
(* saying how: a call comes to one end and stays there.  It is answered if *)
(* the peer's response came in over a live connection, it times out if it  *)
(* was given a timeout, it is lost only with the connection, and sending   *)
(* it fails only on one that is down.  Endpoint implements this.           *)
(***************************************************************************)
CONSTANTS
  Calls,  \* the calls
  Timed   \* those that are given a timeout

VARIABLES
  status,  \* where each call is
  link     \* "up" until the peer's messages end or the endpoint does

vars == <<status, link>>

Open == {"pending", "replied", "doomed"}
Ended == {"answered", "timeout", "lost", "failed", "dropped"}

TypeOK ==
  /\ status \in [Calls -> {"idle"} \cup Open \cup Ended]
  /\ link \in {"up", "down"}

Init ==
  /\ status = [c \in Calls |-> "idle"]
  /\ link = "up"

Becomes(c, s) ==
  /\ status' = [status EXCEPT ![c] = s]
  /\ UNCHANGED link

Issue(c) == status[c] = "idle" /\ Becomes(c, "pending")

Reply(c) == status[c] = "pending" /\ link = "up" /\ Becomes(c, "replied")

Answer(c) == status[c] = "replied" /\ Becomes(c, "answered")

Lose(c) == status[c] = "doomed" /\ Becomes(c, "lost")

Expire(c) == c \in Timed /\ status[c] \in Open /\ Becomes(c, "timeout")

Fail(c) == status[c] \in Open \ {"replied"} /\ link = "down" /\ Becomes(c, "failed")

Drop(c) == status[c] \in Open /\ Becomes(c, "dropped")

\* The connection goes down under all calls at once: those of its own handlers
\* go with it, the others that have no response yet will find out.
Down ==
  /\ link' = "down"
  /\ \E mine \in SUBSET {c \in Calls : status[c] \in Open} :
       status' = [c \in Calls |-> IF c \in mine THEN "dropped"
                                  ELSE IF status[c] = "pending" THEN "doomed"
                                  ELSE status[c]]

Next ==
  \/ \E c \in Calls : \/ Issue(c) \/ Reply(c) \/ Answer(c) \/ Lose(c)
                      \/ Expire(c) \/ Fail(c) \/ Drop(c)
  \/ Down

Spec == Init /\ [][Next]_vars
=============================================================================
