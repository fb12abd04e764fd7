--------------------------- MODULE MCIronclawHook ---------------------------
(***************************************************************************)
(* Instances of IronclawHook.                                              *)
(***************************************************************************)
EXTENDS IronclawHook

CONSTANTS a1, a2, p1, p2, j1, h1

MCLowercase == [tool \in {"exec", "Process", "http", ""} |->
                  IF tool = "Process" THEN "process" ELSE tool]

Tool(name, object) == [tool |-> name, object |-> object]

MCEvents == {Tool("Process", TRUE), Tool("http", TRUE), Tool("", TRUE), Tool("exec", FALSE)}

Client(mode, failMode, pin) ==
  [new EXCEPT !.mode = mode, !.failMode = failMode, !.pin = pin]

\* Every acceptable combination of modes and pins of a client that is rebuilt.
MCCalling ==
  {Client("Enforce", f, p1) : f \in {"Open", "Closed"}}
    \cup {Client("Warn", f, p) : f \in {"Open", "Closed"}, p \in {None, p1}}

\* The hook is built from every client there is; tool calls depend on the modes
\* and pins alone.
MCOffered == Settings
MCCalls == (\E c \in Calls : pc[c] # "idle") => settings \in MCCalling

MCTwoCalls == {a1, a2}
=============================================================================
