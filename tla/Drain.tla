------------------------------- MODULE Drain -------------------------------
(* What a tick's answer means to its caller (services/tick_summary.py) and *)
(* to the loop of POST /tick/drain (services/tick_drain.py), without state.*)
(*                                                                         *)
(* run_tick answers with one of three outcomes or raises.  The branches of *)
(* both files for any other outcome, WAIT and the sleep among them, are    *)
(* left out: nothing reaches them.                                         *)
EXTENDS WalkForward

Iterated(iteration, stat, verdict) ==
    [outcome |-> "iterated", iteration |-> iteration, stat |-> stat, verdict |-> verdict]
EmptyQueue == [outcome |-> "empty_queue"]
Exhausted == [outcome |-> "sweep_exhausted"]

(* An error is a gap in the configuration, or of the infrastructure.       *)
Raised(config, retryable) ==
    [outcome |-> "raised", config |-> config, retryable |-> retryable]

NextAction(t) ==
    CASE t.outcome = "empty_queue" -> "EMPTY_QUEUE"
      [] t.outcome = "sweep_exhausted" -> "PIVOT"
      [] t.outcome = "raised" -> IF t.config THEN "CONFIG_FAIL" ELSE "INFRA_FAIL"
      [] OTHER -> IF t.verdict = "PASS" THEN "GRADUATE"
                  ELSE IF t.verdict = "DISCARD" THEN "PIVOT" ELSE "CONTINUE"

StatsCounted == {"SIGNIFICANT_EDGE", "INSUFFICIENT_EVIDENCE", "NO_EDGE"}

NewTally == [stats |-> [s \in StatsCounted |-> 0], discards |-> 0, iters |-> 0,
             last |-> None, retryable |-> None]

(* Mutant: the tally names what the latest tick logged, if anything.       *)
AccountLatest(tally, t) ==
    CASE t.outcome = "iterated" ->
            [tally EXCEPT !.stats[t.stat] = @ + 1, !.iters = @ + 1, !.last = t.iteration,
                          !.discards = @ + (IF t.verdict = "DISCARD" THEN 1 ELSE 0)]
      [] t.outcome = "raised" -> [tally EXCEPT !.retryable = t.retryable, !.last = None]
      [] OTHER -> tally

(* Only a tick that iterated counts; an error does not disturb the rest.   *)
Account(tally, t) ==
    CASE t.outcome = "iterated" ->
            [tally EXCEPT !.stats[t.stat] = @ + 1, !.iters = @ + 1, !.last = t.iteration,
                          !.discards = @ + (IF t.verdict = "DISCARD" THEN 1 ELSE 0)]
      [] t.outcome = "raised" -> [tally EXCEPT !.retryable = t.retryable]
      [] OTHER -> tally

(* What the digest tells the agent to do.                                  *)
NextCall(terminal) ==
    CASE terminal = "GRADUATE" -> "POST /reviews/auto-run-checklist"
      [] terminal = "EMPTY_QUEUE" -> "POST /queue"
      [] terminal \in {"MAX_ITERS_REACHED", "MAX_WALL_CLOCK_REACHED"} -> "POST /tick/drain"
      [] terminal = "PIVOT" -> "researcher.pivot_archetype"
      [] terminal = "INFRA_FAIL" -> "contact_human"
      [] OTHER -> None

Digest(ticks, tally, terminal) ==
    [ticks |-> ticks, tally |-> tally, terminal |-> terminal, next |-> NextCall(terminal)]
=============================================================================
