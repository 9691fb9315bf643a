------------------------------ MODULE Transport ------------------------------
(***************************************************************************)
(* pymod.transport.base.Transport, what every transport promises its       *)
(* callers: a request is put on the wire at most once and only while its   *)
(* call runs, a call that returns a response returns the response to its   *)
(* own request, and no call starts after close().                          *)
(***************************************************************************)
EXTENDS Integers

CONSTANTS Calls, NoTask

VARIABLES closed,   \* close() has been called
          status,   \* idle, active or done
          sent,     \* requests put on the wire
          answer    \* the request whose response a call returned, if any

tvars == <<closed, status, sent, answer>>

TInit == /\ closed = FALSE
         /\ status = [c \in Calls |-> "idle"]
         /\ sent = {}
         /\ answer = [c \in Calls |-> NoTask]

\* The call starts; it may transmit, or fail, before it first suspends.
TBegin(c) == /\ status[c] = "idle" /\ ~closed
             /\ \E s \in {"active", "done"} : status' = [status EXCEPT ![c] = s]
             /\ sent' \in {sent, sent \cup {c}}
             /\ UNCHANGED <<closed, answer>>

TRefuse(c) == /\ status[c] = "idle" /\ closed
              /\ status' = [status EXCEPT ![c] = "done"]
              /\ UNCHANGED <<closed, sent, answer>>

TTransmit(c) == /\ status[c] = "active" /\ c \notin sent
                /\ sent' = sent \cup {c}
                /\ UNCHANGED <<closed, status, answer>>

TRespond(c) == /\ status[c] = "active" /\ c \in sent
               /\ status' = [status EXCEPT ![c] = "done"]
               /\ answer' = [answer EXCEPT ![c] = c]
               /\ UNCHANGED <<closed, sent>>

TFail(c) == /\ status[c] = "active"
            /\ status' = [status EXCEPT ![c] = "done"]
            /\ UNCHANGED <<closed, sent, answer>>

TClose == /\ closed' = TRUE
          /\ UNCHANGED <<status, sent, answer>>

TNext == \/ TClose
         \/ \E c \in Calls : TBegin(c) \/ TRefuse(c) \/ TTransmit(c)
                             \/ TRespond(c) \/ TFail(c)

TSpec == TInit /\ [][TNext]_tvars
=============================================================================
