------------------------- MODULE MCPipelineQueries -------------------------
(***************************************************************************)
(* Bounds of the model checking of PipelineQueries: see WatcherLive.cfg.   *)
(* Everything is included but tests, the application in spite of them; the *)
(* second commit changes only tests, the others each something else.       *)
(***************************************************************************)
EXTENDS PipelineQueries

Paths == {"app", "test", "doc"}

MCRules ==
    <<[exclude |-> FALSE, matches |-> Paths],
      [exclude |-> TRUE, matches |-> {"test"}],
      [exclude |-> FALSE, matches |-> {"app"}]>>

MCFiles == <<{"app"}, {"test"}, {"app", "test"}, {"doc"}>>

MCExcluded == ExcludedBy(MCRules)

\* PathMatcher is what its users expect of it, for all short lists of rules.
ASSUME RulesAsExpected ==
    \A n \in 0..3 : \A filters \in [1..n -> Filter({"a", "b"})], paths \in SUBSET {"a", "b"} :
        PathMatcher(filters, paths) = LastMatchDecides(filters, paths)

=============================================================================
