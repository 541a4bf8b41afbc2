------------------------------- MODULE MCCqrs -------------------------------
EXTENDS Cqrs
CONSTANTS order, forever, c1, c2

MCSlots  == (0..2) \X Keys
MCEvents == <<"changed", "audited">>

\* The second pattern of "changed" carries the prefix that the bus adds.
MCRules  == [e \in {"changed", "audited"} |-> IF e = "changed" THEN <<0, 1>> ELSE <<>>]

App(kinds, cached, how, n) == [kinds |-> kinds, managed |-> cached, strategy |-> how, calls |-> n]
MCApps == {App({"query", "command"}, TRUE, "LOG", 3), App({"command"}, FALSE, "RAISE", 2),
           App({"query", "evictAll"}, FALSE, "LOG", 3),
           App({"cacheable", "put", "evict"}, TRUE, "LOG", 3),
           App({"cacheable", "put", "evict"}, FALSE, "LOG", 3),
           App({"query", "uncached", "evictAll", "clear", "clearAll"}, TRUE, "LOG", 3)}
=============================================================================
