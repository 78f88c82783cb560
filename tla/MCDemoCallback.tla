--------------------------- MODULE MCDemoCallback ----------------------------
(* An instance of DemoCallback for TLC: those of MCClientJobs, and two      *)
(* pipelined messages for the sample.                                       *)
EXTENDS MCClientJobs, DemoCallback

Message ==
    CHOOSE r \in Pipelined : r.method = "POST"

MCDemoStreams == {Encode(Message) \o Encode(Message)}

\* strtol of no number or a negative one, of short ones, and of the largest one
\* and beyond.
MCSleepArguments == {-1, 2, 8, 20}

=============================================================================
