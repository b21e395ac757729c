------------------------------ MODULE RunBoard ------------------------------
(***************************************************************************)
(* What the pipeline page promises: a board of steps for each day and one  *)
(* verdict over it.  A step is put on the board when it starts; when it    *)
(* finishes the verdict is settled by the board alone.  Executions, log    *)
(* rows, attempts, retries, crashes and lost hooks are not visible here.   *)
(***************************************************************************)
EXTENDS Naturals

CONSTANTS Steps, Critical, Last, Days

VARIABLES today, shown, verdict

boardVars == <<today, shown, verdict>>

Ended == {"success", "failed"}

\* The verdict v that a board calls for.
Justified(board, v) ==
    LET broken == \E s \in Critical : board[s] = "failed"
        hurt   == \E s \in Steps : board[s] = "failed"
        open   == \E s \in Steps : board[s] = "running"
        over   == board[Last] \in Ended
    IN  \/ v = "failed"  /\ broken
        \/ v = "partial" /\ ~broken /\ hurt /\ over
        \/ v = "success" /\ ~hurt /\ ~open /\ over
        \/ v = "running" /\ ~broken /\ (over => open /\ ~hurt)

Init ==
    /\ today = 1
    /\ shown = [d \in Days |-> [s \in Steps |-> "none"]]
    /\ verdict = [d \in Days |-> "none"]

Start(s) ==
    /\ shown' = [shown EXCEPT ![today][s] = "running"]
    /\ verdict' = [verdict EXCEPT ![today] = "running"]
    /\ UNCHANGED today

Finish(s, o) ==
    /\ shown' = [shown EXCEPT ![today][s] = o]
    /\ \E v \in {"running", "failed", "partial", "success"} :
          /\ Justified(shown'[today], v)
          /\ verdict' = [verdict EXCEPT ![today] = v]
    /\ UNCHANGED today

NewDay ==
    /\ today' = today + 1 /\ today' \in Days
    /\ UNCHANGED <<shown, verdict>>

Next == NewDay \/ \E s \in Steps : Start(s) \/ \E o \in Ended : Finish(s, o)

Spec == Init /\ [][Next]_boardVars
=============================================================================
