---------------------------- MODULE MCContainer ----------------------------
EXTENDS Container
CONSTANTS service, repo, conn, plugin, ping, pong, form, port, missing, t1, t2, none

Needs(type, how) == [of |-> type, mode |-> how]

MCScope == [c \in {service, repo, conn, plugin, ping, pong, form} |->
              IF c = conn THEN "TRANSIENT" ELSE IF c = form THEN "REQUEST" ELSE "SINGLETON"]

\* port has a @primary implementation; missing has none.
MCBindings == [x \in {service, repo, conn, plugin, ping, pong, form, port, missing} |->
                 IF x = port THEN <<plugin, repo>> ELSE <<>>]

\* ping and pong need each other, which Optional does not excuse.
MCParams == [c \in DOMAIN MCScope |->
              CASE c = service -> <<Needs(port, "required"), Needs(missing, "default")>>
                [] c = repo    -> <<Needs(conn, "required")>>
                [] c = ping    -> <<Needs(pong, "optional")>>
                [] c = pong    -> <<Needs(ping, "required")>>
                [] c = form    -> <<Needs(plugin, "each"), Needs(repo, "each")>>
                [] OTHER       -> <<>>]

\* plugin is constructed before it fails on its missing field.
MCFields == [c \in DOMAIN MCScope |-> IF c = plugin THEN <<Needs(conn, "optional")>> 
                                      ELSE IF c = pong THEN <<Needs(missing, "required")>> ELSE <<>>]
=============================================================================
