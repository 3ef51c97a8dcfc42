----------------------------- MODULE JobBoard -----------------------------
(***************************************************************************)
(* What clients of the evaluation endpoints are promised, with no workers,  *)
(* no queue object and no shutdown: a board of jobs, numbered as accepted.  *)
(* Jobs are begun in the order they were accepted, at most Capacity of them *)
(* wait, a begun job ends at most once, and "latest" is the summary of the  *)
(* success published last.                                                  *)
(*                                                                         *)
(* POST /eval/run is Accept; GET /eval/jobs/{id} and GET /eval/latest read  *)
(* board and latest.                                                       *)
(***************************************************************************)
EXTENDS Naturals

CONSTANTS
  Jobs,      \* natural numbers
  Capacity,  \* of the queue
  None       \* no job

VARIABLES board, latest

boardVars == <<board, latest>>

BoardInit ==
  /\ board = [j \in Jobs |-> "absent"]
  /\ latest = None

(* The waiting jobs are consecutive, so fewer than Capacity wait before j   *)
(* exactly when the job Capacity places before it does not wait.            *)
Accept(j) ==
  /\ board[j] = "absent"
  /\ \A k \in Jobs : k < j => board[k] # "absent"
  /\ \A k \in Jobs : k + Capacity <= j => board[k] # "queued"
  /\ board' = [board EXCEPT ![j] = "queued"]
  /\ UNCHANGED latest

Begin(j) ==
  /\ board[j] = "queued"
  /\ \A k \in Jobs : k < j => board[k] # "queued"
  /\ board' = [board EXCEPT ![j] = "running"]
  /\ UNCHANGED latest

Publish(j) ==
  /\ board[j] = "running"
  /\ board' = [board EXCEPT ![j] = "succeeded"]
  /\ latest' = j

GiveUp(j) ==
  /\ board[j] = "running"
  /\ board' = [board EXCEPT ![j] = "failed"]
  /\ UNCHANGED latest

BoardNext == \E j \in Jobs : Accept(j) \/ Begin(j) \/ Publish(j) \/ GiveUp(j)

BoardSpec == BoardInit /\ [][BoardNext]_boardVars

=============================================================================
