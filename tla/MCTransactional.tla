-------------------------- MODULE MCTransactional --------------------------
(* An order service that writes through the audit service it holds, and a  *)
(* stock service that shares nothing with them.                            *)
EXTENDS Transactional, TLC
CONSTANTS t1, t2, orders, audit, stock, auditRepo, stockRepo

MCRepoOf == [s \in Services |-> IF s = audit THEN {auditRepo}
                                ELSE IF s = stock THEN {stockRepo} ELSE {}]
MCHolds  == [s \in Services |-> IF s = orders THEN {audit} ELSE {}]
(* What a state is told apart by: nothing reads the service of a session   *)
(* that has been ended, and neither an action nor a property looks at what *)
(* became of one that is exposed.                                          *)
Followed ==
  <<stackVars, bound, opened, exposed,
    [s \in Sessions |-> IF status[s] \in {"opening", "begun"} THEN <<status[s], home[s]>>
                        ELSE IF s \in exposed THEN "ended" ELSE status[s]],
    [x \in Scopes |-> pending[x] \ exposed], durable \ exposed, dropped \ exposed>>
TasksAlike == Permutations(Tasks)
=============================================================================
