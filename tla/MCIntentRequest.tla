--------------------------- MODULE MCIntentRequest ---------------------------
(***************************************************************************)
(* Instances of IntentRequest.  Chain identifiers are scaled to a safe     *)
(* integer domain of 0..1, and 2 is the first one outside it.              *)
(***************************************************************************)
EXTENDS IntentRequest, TLC

CONSTANTS c1, c2, own, p1, bot, job

Intent(action, operands, method, chain, metadata, task) ==
  [action |-> action, arguments |-> None, operands |-> operands, method |-> method,
   chain_id |-> chain, metadata |-> metadata, agent_id |-> None, task_id |-> task]

MCIntents ==
  {Intent("http", "x", "POST", None, None, None),
   Intent("http", "x", "GET", None, None, None),
   Intent("bash", "x", "POST", None, None, None),
   Intent("bash", "x", None, None, "object", None),
   Intent("bash", "y", None, 1, None, job),
   [Intent("bash", "y", None, 0, None, job) EXCEPT !.arguments = "object", !.agent_id = bot],
   Intent("bash", "y", None, 2, None, None),
   Intent("bash", "y", None, None, "other", None),
   [Intent("bash", "y", None, None, None, None) EXCEPT !.arguments = "other"],
   Intent("", "x", None, None, None, None)}

MCClients == {[agent_id |-> bot, task_id |-> None], [agent_id |-> None, task_id |-> None],
              [agent_id |-> bot, task_id |-> job]}

MCTwoCalls == {c1, c2}
MCSymmetry == Permutations(MCTwoCalls)
=============================================================================
