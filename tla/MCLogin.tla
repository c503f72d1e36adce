------------------------------- MODULE MCLogin -------------------------------
(* Small instances of Login *)
EXTENDS Login

Value(n, len) == [count |-> n, data |-> [i \in 1..len |-> 1]]
Part(kind, n, len) == [kind |-> kind, count |-> n, data |-> [i \in 1..len |-> 1]]
Request(parts) == [type |-> EXECUTE, parts |-> parts]
Reply(sets, values) == [kind |-> REPLY, resultSets |-> sets, values |-> values]

\* Without data, with data that needs a padding or none, parts that repeat, more counts and rows
\* than an Int16 counts, two result sets with and without metadata.
MCReplies == {
  Reply(<<>>, [k \in {ROWS_AFFECTED} |-> <<Value(1, 1)>>]),
  Reply(<<>>, [k \in {ROWS_AFFECTED} |-> <<Value(1, 1), Value(1, 2), Value(1, 1)>>]),
  Reply(<<>>, [k \in {ROWS_AFFECTED, STATEMENT_CONTEXT} |-> <<IF k = ROWS_AFFECTED THEN Value(3, 3) ELSE Value(2, 2)>>]),
  Reply(<<[id |-> Value(1, 1), data |-> Value(1, 1)], [id |-> Value(1, 2), data |-> Value(1, 1)]>>, NoValues),
  Reply(<<[metadata |-> Value(1, 1), id |-> Value(1, 2), data |-> Value(3, 9)],
          [metadata |-> Value(1, 3), id |-> Value(1, 2), data |-> Value(0, 0)]>>, NoValues),
  Reply(<<[id |-> Value(1, 1), data |-> Value(2, 2)]>>, [k \in {ROWS_AFFECTED} |-> <<Value(1, 1)>>])}
Small == Request(<<Part(COMMAND, 1, 3)>>)
Rows == Request(<<Part(COMMAND, 1, 2), Part(PARAMETERS, 2, 9)>>)
Huge == Request(<<Part(PARAMETERS, 2, 20)>>)
ManyRows == Request(<<Part(PARAMETERS, 3, 3)>>)

Direct ==
  [proxy |-> "none", tls |-> FALSE, method |-> 0, address |-> 1, smallest |-> 2, faults |-> {},
   secrets |-> {"password"}, compress |-> "default", enabled |-> FALSE, methods |-> 1,
   requests |-> <<>>, replies |-> MCReplies]

Through(proxy, method, address, tls, faults) ==
  [Direct EXCEPT !.proxy = proxy, !.method = method, !.address = address, !.tls = tls, !.faults = faults,
                 !.secrets = {"token"}]
Compressing(compress, enabled) ==
  [Direct EXCEPT !.compress = compress, !.enabled = enabled, !.requests = <<Rows, Huge, Small>>, !.secrets = {"token"}]
With(secrets, methods, faults) ==
  [Direct EXCEPT !.secrets = secrets, !.methods = methods, !.faults = faults]

Tunnels ==
  {Through("http", 0, 1, tls, {"denied", "refused", "closed"}) : tls \in BOOLEAN}
    \cup {Through("socks", m, a, FALSE, {"denied", "refused", "closed", "notsocks", "silent"}) :
            m \in {0, 2, 128, 255}, a \in {1, 3, 4, 9}}
    \cup {Through("socks", 2, 3, TRUE, {f}) : f \in {"longhost", "longsecret"}}
    \cup {Through("none", 0, 1, FALSE, {"refused", "silent"})}
Logins ==
  {With(s, n, f) : s \in {{"assertion"}, {"token"}, {"password"}, {"x509"}, {"password", "x509", "token"}},
                   n \in {0, 1}, f \in {{}, {"login"}, {"challenge"}}}
    \cup {With({"password", "x509"}, 2, {}), With({"x509"}, 1, {"certificate"}), With({"x509", "token"}, 1, {"certificate"})}
Exchanges ==
  {Compressing(c, e) : c \in {"default", "yes", "no"}, e \in BOOLEAN}
    \cup {[Compressing("yes", FALSE) EXCEPT !.faults = {"sql"}, !.requests = <<Small, Rows>>]}

\* What the configurations that are run by hand show: a socket to the proxy that breaks, a reply in chunks
\* of a byte, a server that cannot prove itself, more rows than an Int16 counts, two methods that are
\* refused, a client that connects three times, two statement contexts, a server that does not know the option.
ResetScenarios == {Through("socks", 0, 1, FALSE, {"reset"})}
TrickleScenarios == {[Through("socks", 0, 1, FALSE, {}) EXCEPT !.smallest = 1]}
ProofScenarios == {With({"password"}, 1, {"proof"})}
ManyRowsScenarios == {[Direct EXCEPT !.requests = <<ManyRows>>]}
TwoChallengesScenarios == {With({"password", "x509"}, 2, {"challenge"})}
CookieScenarios == {With({"assertion"}, 1, {})}
RepeatedScenarios ==
  {[Direct EXCEPT !.requests = <<Small>>,
                  !.replies = {Reply(<<>>, [k \in {STATEMENT_CONTEXT} |-> <<Value(2, 2), Value(0, 0)>>])}]}
OldServerScenarios == {[Compressing("yes", TRUE) EXCEPT !.faults = {"oldserver"}]}

MCScenarios == Tunnels \cup Logins \cup Exchanges
===============================================================================
