--------------------------- MODULE CommandService ---------------------------
(***************************************************************************)
(* What a database worker promises to its client, with the thread, the     *)
(* queue and the handles left out: commands are accepted while the service *)
(* is open, in the order of their numbers; they run one at a time and in   *)
(* that order; every accepted command is reported exactly once; and a      *)
(* command may be reported without having run only after the service has   *)
(* closed for good.  DatabaseWorker is shown to implement this.            *)
(***************************************************************************)
EXTENDS Naturals

CONSTANT MaxCommands      \* bound on the commands one service accepts

VARIABLES status,         \* status[i]: how far command i has come
          open            \* does the service still accept commands?

svars == <<status, open>>

Command == 1..MaxCommands
Status  == {"absent", "queued", "running", "reported"}

Init == /\ status = [i \in Command |-> "absent"]
        /\ open = TRUE

\* All commands before i have been reported: it is i's turn.
Turn(i) == \A j \in Command : j < i => status[j] = "reported"

Accept(i) == /\ open
             /\ status[i] = "absent"
             /\ \A j \in Command : j < i => status[j] # "absent"
             /\ status' = [status EXCEPT ![i] = "queued"]
             /\ UNCHANGED open

Start(i) == /\ status[i] = "queued"
            /\ Turn(i)
            /\ status' = [status EXCEPT ![i] = "running"]
            /\ UNCHANGED open

\* The command has ended, well or badly.
Report(i) == /\ status[i] = "running"
             /\ status' = [status EXCEPT ![i] = "reported"]
             /\ UNCHANGED open

\* A command that will never run is reported as failed.
Abandon(i) == /\ ~open
              /\ status[i] = "queued"
              /\ Turn(i)
              /\ status' = [status EXCEPT ![i] = "reported"]
              /\ UNCHANGED open

Close == /\ open
         /\ open' = FALSE
         /\ UNCHANGED status

Next == \/ Close
        \/ \E i \in Command : Accept(i) \/ Start(i) \/ Report(i) \/ Abandon(i)

Spec == /\ Init
        /\ [][Next]_svars
        /\ \A i \in Command : WF_svars(Start(i) \/ Report(i) \/ Abandon(i))
=============================================================================
