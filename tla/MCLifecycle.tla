------------------------------ MODULE MCLifecycle ------------------------------
\* The three updaters, with their defaults; a file and options that switch each
\* of them on, off and to watching, contradict each other, and have a period
\* that is negative, a value that cannot be read and a key that is unknown.
EXTENDS Lifecycle, TLC

MCPeriod == <<"instance", "docker", "kubernetes">>
MCDefaults == ("instance" :> 3600) @@ ("docker" :> 0) @@ ("kubernetes" :> 0)
              @@ ("use_watch" :> FALSE)
MCFiles == {<<>>,
            << <<"docker", 1>>, <<"kubernetes", 1>> >>,
            << <<"instance", 0>>, <<"docker", -1>>, <<"use_watch", TRUE>> >>}
MCCommandLines == {<<>>,
                   << <<"docker", 1>>, <<"dockre", 0>>, <<"docker", Unreadable>> >>,
                   << <<"docker", 0>>, <<"use_watch", TRUE>> >>}
================================================================================
