--------------------------- MODULE MCApplication ---------------------------
EXTENDS Application
CONSTANTS group, p1, p2, nightly, beat, sync, chime, chimeTwice

Group1 == [h \in {"Orders", "Audit", "Mailer", "Broken"} |-> IF h = "Mailer" THEN NoGroup ELSE group]

\* The scheduled methods, and one of a @bean result that is registered twice.
MCOwner == [m \in Cron \cup Rate \cup Delay |->
  [class |-> IF m \in {chime, chimeTwice} THEN "Clock" ELSE "Jobs", copy |-> IF m = chimeTwice THEN 2 ELSE 1]]

\* The classes programs are made of.
Provide(type, class, needs) == <<Method(type, class, needs)>>
Classes == [
  Auto   |-> Class("auto", <<>>, <<Cond("on_missing_bean", "Port")>>, Provide("Port", "Memory", <<>>), {}),
  Mine   |-> Class("user", <<>>, <<>>,
                   <<Method("Inbox", "Inbox", <<Need("Port", "required")>>), Method("Port", "Memory", <<>>)>>, {}),
  Wrong  |-> Class("user", <<>>, <<>>, Provide("Inbox", "Inbox", <<Need("Port", "required")>>), {}),
  Memory |-> Class("bean", <<>>, <<>>, <<>>, {"adapter"}),
  Inbox  |-> Class("bean", <<>>, <<>>, <<>>, {"adapter"}),
  Poller |-> Class("bean", <<Need("Inbox", "default")>>, <<>>, <<>>, {"adapter", "runner"}),
  Orders |-> Class("bean", <<>>, <<>>, <<>>, {"listener", "events"}),
  Audit  |-> Class("bean", <<Need("Port", "required")>>, <<>>, <<>>, {"listener"}),
  Mailer |-> [Class("bean", <<>>, <<>>, <<>>, {"listener"}) EXCEPT !.order = -1],
  Tools  |-> Class("auto", <<>>, <<>>, Provide("Inbox", "Inbox", <<>>), {}),
  Jobs   |-> Class("bean", <<>>, <<>>, <<>>, {"runner"}),
  Clocks |-> Class("auto", <<>>, <<>>, Provide("Port", "Clock", <<>>), {}),
  Clock  |-> Class("bean", <<>>, <<>>, <<>>, {}),
  Broken |-> Class("bean", <<Need("Nowhere", "required")>>, <<>>, <<>>, {"listener"})]

Types == DOMAIN Classes \cup {"Port", "Nowhere"}
Program(scan) == [class |-> Classes, scan |-> scan, primary |-> {}, ports |-> {"Port"},
                  supers |-> [k \in Types |-> IF k = "Memory" THEN {"Port"} ELSE {}]]

\* The user's broker; the built-in one; a configuration that comes too early
\* for it, and a start() that fails.
UsersBroker   == Program(<<"Mine", "Poller", "Orders", "Auto">>)
BuiltInBroker == Program(<<"Mailer", "Audit", "Broken", "Orders", "Auto">>)
ScheduledJobs == Program(<<"Jobs", "Tools">>)
NoBroker      == Program(<<"Wrong", "Orders", "Auto">>)

MCPrograms == [scheduled |-> ScheduledJobs, users |-> UsersBroker, builtIn |-> BuiltInBroker, wrong |-> NoBroker]
MCBuiltIn  == [builtIn |-> BuiltInBroker]
MCRefuted  == [scheduled |-> ScheduledJobs, users |-> UsersBroker, builtIn |-> BuiltInBroker,
               twice |-> Program(<<"Clocks">>)]

\* What the sequential part promises, for all programs of up to three of
\* the classes.
Scans == {s \in SeqOf({"Auto", "Mine", "Wrong", "Poller", "Orders", "Audit", "Broken"}, 3) : IsInjective(s)}
ASSUME \A s \in Scans : UserWins(Program(s), "Port") /\ AllThere(Program(s))
ASSUME \A s \in Scans : ProducersFirst(Classes["Mine"].methods)
=============================================================================
