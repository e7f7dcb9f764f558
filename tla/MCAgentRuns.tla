---------------------------- MODULE MCAgentRuns -----------------------------
(* Two attempts at one record, in this order, and the run of another one   *)
(* that waits for the first of them at once.                               *)
EXTENDS AgentRuns

CONSTANTS r1, r2, r3, t1, t2

MCTrigger == [r \in Run |-> IF r = r3 THEN t2 ELSE t1]

Called == {o \in Op : op[o].phase = "new" /\ op'[o].phase # "new"}

(* What it does is over but for the formalities. *)
Doomed ==
    {r \in Run : /\ ~Leased(r) /\ keeper # r /\ process[r].pc \notin {"new", "gone"}
                 /\ \A o \in Active(r) : op[o].phase \notin {"ready", "sent", "read"}}

Steps(r) == /\ process'[r] # process[r] \/ queue'[r] # queue[r] \/ op' # op
            /\ faults' = faults /\ \A s \in Run \ {r} : process'[s] = process[s] /\ queue'[s] = queue[s]

(* A bound on choices nobody owes: the second attempt and the rival take   *)
(* one cell each, the rival only if the first attempt lost its run; faults *)
(* are the first attempt's, and so is losing the run while an operation is *)
(* under way.  A process whose run was taken from it calls nothing new,    *)
(* and its steps that nobody else can see are taken at once.               *)
Instance ==
    /\ row'[r2] # "waiting" => row[r1] = "failed"
    /\ row[r3] = "waiting" => (row'[r3] = "running" <=> Busy(keeper))
    /\ process'[r2].cells < 2 /\ process'[r3].cells < 2
    /\ \A o \in Called : Leased(op'[o].run)
    /\ process'[r3].pc = "cell" => row[r1] = "ended"
    /\ \A r \in {r2, r3} : Active(r) # {} => row'[r] = row[r]
    /\ faults' # faults => process'[r1] # process[r1] \/ queue'[r1] # queue[r1]
    /\ Doomed # {} => Steps(CHOOSE r \in Doomed : TRUE)
=============================================================================
