-------------------------- MODULE MCPipelineQueues --------------------------
(* Small data sets for the thread protocol: what the chunks contain does not *)
(* matter here, how many there are in a file does.                           *)
EXTENDS PipelineQueues

MCContents == {"a"}

\* An empty file, and one with more chunks than fit a queue.
MCFiles == {<<>>, <<"a", "a", "a">>}

\* For the hang, which a single short file shows.
MCShortFiles == {<<>>, <<"a">>, <<"a", "a">>}
=============================================================================
