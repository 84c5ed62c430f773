---------------------------- MODULE MCSubagents ----------------------------
(***************************************************************************)
(* Instances of Subagents for TLC.  Retention needs two agents and room    *)
(* for one; a cycle of parents needs three and room for two; interrupts    *)
(* need two turns of an agent, two attempts, a second process and failing  *)
(* writes; and one scenario has a little of everything.                    *)
(***************************************************************************)
EXTENDS Subagents

CONSTANTS a1, a2, a3

Quiet == [room |-> 1, kinds |-> {"threadStarted", "agentMessage", "collabItem", "interrupted"},
          turns |-> [x \in Agents |-> IF x = a3 THEN 0 ELSE 1], spawners |-> {}, processes |-> 1,
          attempts |-> [x \in Agents |-> 0], stale |-> FALSE, fails |-> FALSE]
Retention == [Quiet EXCEPT !.turns[a1] = 2]
Nesting == [Quiet EXCEPT !.spawners = {a1}]
Descent == [Quiet EXCEPT !.room = 2, !.kinds = {}, !.turns[a3] = 1, !.spawners = {a1, a2}]
Interrupts == [Quiet EXCEPT !.turns[a1] = 2, !.turns[a2] = 0, !.processes = 2,
                            !.attempts[a1] = 2, !.stale = TRUE, !.fails = TRUE]
Mixed == [Quiet EXCEPT !.attempts[a1] = 1]

MCScenarios == {Retention, Nesting, Descent, Interrupts, Mixed}
=============================================================================
