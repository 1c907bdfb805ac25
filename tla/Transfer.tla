------------------------------- MODULE Transfer -------------------------------
(***************************************************************************)
(* What an HTTP client may rely on: it gets the rows of the result in      *)
(* order, and a response that ends properly has all of them. Whatever goes *)
(* wrong before that shows, as an error or as a broken connection. And     *)
(* however slowly it reads, the server keeps no more than Capacity rows    *)
(* for it.                                                                 *)
(***************************************************************************)
EXTENDS Naturals, Sequences

CONSTANTS Requests, MaxRows, Capacity

VARIABLES rows,    \* the number of rows of the result
          sent,    \* what has been sent of them
          status,  \* "none", "ended", "error" or "destroyed"
          kept     \* how many rows the server keeps in memory

vars == <<rows, sent, status, kept>>

Kept == [Requests -> 0..Capacity]

Init ==
  /\ rows = [r \in Requests |-> 0]
  /\ sent = [r \in Requests |-> <<>>]
  /\ status = [r \in Requests |-> "none"]
  /\ kept \in Kept

\* A request may only follow one that is over.
Begin(r) ==
  /\ sent[r] # <<>> => status[r] # "none"
  /\ \E n \in 0..MaxRows : rows' = [rows EXCEPT ![r] = n]
  /\ sent' = [sent EXCEPT ![r] = <<>>]
  /\ status' = [status EXCEPT ![r] = "none"]

Send(r) ==
  /\ status[r] = "none"
  /\ \E n \in Len(sent[r]) + 1..rows[r] : sent' = [sent EXCEPT ![r] = [i \in 1..n |-> i]]
  /\ UNCHANGED <<rows, status>>

End(r) ==
  /\ status[r] = "none" /\ Len(sent[r]) = rows[r]
  /\ status' = [status EXCEPT ![r] = "ended"]
  /\ UNCHANGED <<rows, sent>>

\* An error response has nothing but the error.
Fail(r) ==
  /\ status[r] = "none" /\ sent[r] = <<>>
  /\ status' = [status EXCEPT ![r] = "error"]
  /\ UNCHANGED <<rows, sent>>

\* Also after the end, when the client leaves without the rest.
Break(r) ==
  /\ status[r] \in {"none", "ended"}
  /\ status' = [status EXCEPT ![r] = "destroyed"]
  /\ UNCHANGED <<rows, sent>>

Keep == UNCHANGED <<rows, sent, status>>

Next ==
  /\ Keep \/ \E r \in Requests : Begin(r) \/ Send(r) \/ End(r) \/ Fail(r) \/ Break(r)
  /\ kept' \in Kept

Spec == Init /\ [][Next]_vars
==============================================================================
