--------------------------- MODULE MCResponsePolicy ---------------------------
(***************************************************************************)
(* Days of eight seconds around the turns of months, years, leap days and  *)
(* centuries, with windows of three days.  Policies of both formats: every *)
(* text of a window, every way to fill the tool lists with two names and   *)
(* the empty one, and good policies with a single thing wrong.             *)
(***************************************************************************)
EXTENDS ResponsePolicy, TLC

\* Around the end of February, of a year and of the four-digit years.
MCTurns == {a \in KnownDays : a.date.year \in {2000, 2023, 2100, 9999}}

MCDays ==
  {<<y, m, d>> \in {2000, 2100} \X {2, 3} \X {1, 28, 29, 30} : m = 2 <=> d > 2}
  \cup {<<1969, 12, 31>>, <<2023, 12, 31>>, <<2023, 12, 32>>, <<2023, 13, 1>>,
        <<2024, 0, 1>>, <<2024, 1, 0>>, <<2024, 1, 1>>, <<2024, 1, 2>>, <<9999, 12, 31>>}

MCTimes == {<<0, 0, 0>>, <<1, 0, 1>>, <<1, 1, 1>>, <<2, 0, 0>>, <<0, 2, 0>>}

MCUntils ==
  {[year |-> d[1], month |-> d[2], day |-> d[3],
    hour |-> t[1], minute |-> t[2], second |-> t[3]] : d \in MCDays, t \in MCTimes}
  \cup {None}

MCGood1 ==
  [format |-> 1, header |-> TRUE, version |-> "2.2", lifetime |-> 2, covered_tools |-> <<1, 2>>,
   web_fetch_tools |-> <<1>>, http_tools |-> <<2>>,
   block_classes |-> <<"pii", "secret">>, deny_strings |-> <<2, 3>>,
   redact_classes |-> None, scanner |-> None, observe |-> None]

MCGood2 ==
  [MCGood1 EXCEPT !.format = 2, !.version = "2.3", !.web_fetch_tools = None,
     !.http_tools = <<1, 2>>, !.block_classes = None, !.deny_strings = None,
     !.redact_classes = <<"pii">>,
     !.scanner = [profile |-> TRUE, classes |-> <<"pii", "secret">>, confidence |-> TRUE]]

MCLists == {<<>>, <<0>>, <<1>>, <<2>>, <<1, 2>>}

MCDrafts ==
  {[MCGood2 EXCEPT !.observe = [classes |-> <<"secret">>, until |-> u]] : u \in MCUntils}
  \cup {[MCGood1 EXCEPT !.covered_tools = c, !.web_fetch_tools = w, !.http_tools = h] :
          c \in {<<0>>, <<1>>, <<1, 2>>, <<2, 1>>}, w \in MCLists \cup {None}, h \in MCLists \cup {None}}
  \cup {[MCGood1 EXCEPT !.version = "2.3"],
        [MCGood1 EXCEPT !.lifetime = 0],
        [MCGood1 EXCEPT !.lifetime = 3],
        [MCGood1 EXCEPT !.block_classes = <<"secret", "pii">>],
        [MCGood2 EXCEPT !.header = FALSE],
        [MCGood2 EXCEPT !.redact_classes = <<>>],
        [MCGood2 EXCEPT !.scanner.confidence = FALSE]}
=============================================================================
