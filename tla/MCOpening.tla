------------------------------- MODULE MCOpening -------------------------------
(* Settings of the client for TLC. *)
EXTENDS Opening

CONSTANTS h1, h2, h3

Scenario(hosts, isList, tenant, down, target, faults) ==
  [hosts |-> hosts, isList |-> isList, tenant |-> tenant, down |-> down, target |-> target,
   faults |-> faults]

\* Three hosts of which one, or none, is up, or answers as it should; a tenant database behind the
\* first host or at it, or behind the second when the first is down; a redirect during the login; both.
Usual ==
  {Scenario(<<h1, h2, h3>>, TRUE, {}, {h1, h2}, None, {"login", "options", "break", "tasks"}),
   Scenario(<<h1, h2>>, TRUE, {}, {h1, h2}, None, {"badinit", "token"}),
   Scenario(<<h1>>, FALSE, {h1, h2}, {h2}, None, {"lookup", "login", "break"}),
   Scenario(<<h1, h2>>, TRUE, {h3}, {h1}, None, {"options"}),
   Scenario(<<h1>>, FALSE, {}, {h1, h2}, h2, {"login", "break"}),
   Scenario(<<h1>>, FALSE, {h1, h2}, {}, h3, {"lookup", "login", "break"})}

\* The server of the first host does not find the database.
LookupFails == {Scenario(<<h1, h2>>, TRUE, {h1, h2}, {}, None, {"lookup"})}

\* A redirect when the option hosts is given.
RedirectWithHosts == {Scenario(<<h1, h2>>, TRUE, {}, {}, h3, {})}

\* A server that answers the initialization with fewer than eight bytes.
ShortReply == {Scenario(<<h1>>, FALSE, {}, {h1}, None, {"badinit"})}

\* A task that is enqueued before a redirect.
TaskBeforeRedirect == {Scenario(<<h1>>, FALSE, {}, {}, h2, {"tasks"})}

\* A token and a redirect.
TokenBeforeRedirect == {Scenario(<<h1>>, FALSE, {}, {}, h2, {"token"})}

\* Nothing fails.
Plain == {Scenario(<<h1>>, FALSE, {}, {}, None, {})}
ToTenant == {Scenario(<<h1>>, FALSE, {h2}, {}, None, {})}
===============================================================================
