----------------------------- MODULE MCMetrics ------------------------------
(* Small instances of Metrics for TLC. *)
EXTENDS Metrics, TLC

TwoBuckets == <<1, 3>>
Observe(status, provider, ms) ==
  [kind |-> "observe", status |-> status, provider |-> provider, hist |-> "duration", ms |-> ms]

\* A tenant without balance, a slow 403 and its trigger, a stage, the fetch of a
\* source, a log line, two exits.
Mixed == {Observe(402, NoProvider, 1), Observe(403, "p", 5),
          [kind |-> "note", name |-> "breaker", label |-> 403],
          [kind |-> "stage", hist |-> "connect", ms |-> 3],
          [kind |-> "fetch", source |-> "s", hist |-> "fetch", ms |-> 3],
          [kind |-> "log", status |-> 200],
          [kind |-> "exit", ip |-> "a"], [kind |-> "exit", ip |-> "b"]}

Interchangeable == Permutations(Threads) \cup Permutations(Conns)
=============================================================================
