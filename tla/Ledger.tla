------------------------------- MODULE Ledger -------------------------------
(***************************************************************************)
(* What the store promises its clients (README.md: a repeated request_id   *)
(* replays the first result, a stale revision appends nothing, a sealed    *)
(* batch is read-only), without handlers, transactions, locks or           *)
(* processes: commands are applied one at a time, each at once or not at   *)
(* all.  CommandStore and HttpApi implement it.                            *)
(***************************************************************************)
EXTENDS Naturals

CONSTANTS Batches, Requests, Commands, None

VARIABLES
  applied,   (* the command a request id was used for, and its response       *)
  revision,  (* of a batch, 0 before it is created                            *)
  sealed,    (* the batches that are closed for good                          *)
  heard      (* commands and the responses their clients got                  *)

vars == <<applied, revision, sealed, heard>>

Init ==
  /\ applied = [r \in Requests |-> None]
  /\ revision = [b \in Batches |-> 0]
  /\ sealed = {} /\ heard = {}

\* A command takes effect: its request id is new, and its batch is open and at the
\* revision it was prepared for.
TakeEffect(c) ==
  /\ revision[c.batch] = c.expected /\ c.batch \notin sealed
  /\ applied[c.request] = None
  /\ c.kind = "create" <=> c.expected = 0
  /\ revision' = [revision EXCEPT ![c.batch] = c.expected + 1]
  /\ applied' = [applied EXCEPT ![c.request] = [command |-> c, response |-> c.expected + 1]]
  /\ sealed' = IF c.kind \in {"approve", "reject"} THEN sealed \cup {c.batch} ELSE sealed
  /\ UNCHANGED heard

\* The client of an applied command gets the response, for the first time or again.
Tell(r) ==
  /\ applied[r] # None
  /\ heard' = heard \cup {<<applied[r].command, applied[r].response>>}
  /\ UNCHANGED <<applied, revision, sealed>>

Next == (\E c \in Commands : TakeEffect(c)) \/ (\E r \in Requests : Tell(r))

Spec == Init /\ [][Next]_vars
=============================================================================
