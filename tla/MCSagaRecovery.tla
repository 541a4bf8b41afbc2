--------------------------- MODULE MCSagaRecovery ---------------------------
(* Two runs.  OneEach gives each an id of its own; OneForAll is what a       *)
(* SagaCompositor does, which passes its own id to every saga it runs.       *)
EXTENDS SagaRecovery

CONSTANTS r1, r2, i1, i2, w1, w2

OneEach   == [r \in Runs |-> IF r = r1 THEN i1 ELSE i2]
OneForAll == [r \in Runs |-> i1]

\* Two sweepers after one run, in a store that survives a restart, ...
Contended == Setting({r1}, {w1, w2}, TRUE)
\* ... one sweeper after two runs in such a store, and in the in-memory one.
Lasting   == Setting({r1, r2}, {w1}, TRUE)
InMemory  == Setting({r1, r2}, {w1}, FALSE)
MCSettings == {Contended, Lasting, InMemory}
=============================================================================
