---------------------------- MODULE Interaction ----------------------------
(***************************************************************************)
(* A batch of interactions with a page (interaction.rs, interact of        *)
(* commands.rs).  The executor evaluates one script per action, or several *)
(* for a wait, and waits for its callback until a timeout; the page runs   *)
(* the scripts it has been given in their order, late ones too.  After the *)
(* batch the window is observed, and the result is cut to what a frame     *)
(* holds.                                                                  *)
(*                                                                         *)
(* The page is external: its element comes and goes, a script may be lost. *)
(* The clock is the moment a batch's deadline passes.                      *)
(***************************************************************************)
EXTENDS Naturals, Sequences, FiniteSets, SequencesExt

CONSTANTS
  Batches,      \* requests under way at once, all on one window
  Actions,      \* bound: the sequences of "click", "check" and "wait" each of them may ask for
  MaxChanges,   \* bound: how often the element comes or goes
  MaxPolls,     \* bound: scripts of one wait
  Observations, \* bound: what the window may show after each of them, see Result
  Budget,       \* RESULT_BUDGET
  Absent        \* a model value: a part of a result that is not there

\* A result: base stands for its steps and errors, which are always there; entries is the console,
\* errors and visits are the status: numbers of entries, or Absent.
Result ==
  [base : Nat, entries : Nat \union {Absent}, errors : Nat, visits : Nat \union {Absent},
   truncated : BOOLEAN]

\* What a batch returns.
BatchResult == [raw : Result, bounded : Result, completed : BOOLEAN]

Codes == {"ok", "not_found", "script_error", "timeout"}

ASSUME InteractionAssumption ==
  /\ \A b \in Batches : Actions[b] \subseteq Seq({"click", "check", "wait"}) /\ <<>> \notin Actions[b]
  /\ \A b \in Batches : Observations[b] \subseteq {raw \in Result : ~raw.truncated}
  /\ MaxChanges \in Nat /\ MaxPolls \in Nat \ {0} /\ Budget \in Nat
  /\ Absent \notin Nat \union Codes \union BatchResult

VARIABLES
  present,   \* the page: whether the element is there
  changes,   \* how often it has come or gone
  scripts,   \* the page: the scripts it has still to run
  runs,      \* history: the scripts it has run, and whether they found the element
  batch,     \* what each batch asks for
  work,      \* the executor: [at, tries, expired] of each batch
  steps,     \* the codes of the steps each batch reports
  channel,   \* the answer on the channel of each batch's evaluation, Absent without one
  result     \* [raw, bounded, completed] of each batch whose actions are over

pageVars == <<present, changes, scripts, runs>>
interactionVars == <<pageVars, batch, work, steps, channel, result>>

InteractionInit ==
  /\ present \in BOOLEAN /\ changes = 0 /\ scripts = <<>> /\ runs = <<>>
  /\ batch \in {f \in [Batches -> UNION {Actions[b] : b \in Batches}] : \A b \in Batches : f[b] \in Actions[b]}
  /\ work = [b \in Batches |-> [at |-> "next", tries |-> 0, expired |-> FALSE]]
  /\ steps = [b \in Batches |-> <<>>]
  /\ channel = [b \in Batches |-> Absent]
  /\ result = [b \in Batches |-> Absent]

\* The step under way.
Current(b) == Len(steps[b]) + 1
Script(b) == [b |-> b, i |-> Current(b), try |-> work[b].tries]

-----------------------------------------------------------------------------
(* The page *)

PageChanges ==
  /\ changes < MaxChanges
  /\ present' = ~present /\ changes' = changes + 1
  /\ UNCHANGED <<scripts, runs, batch, work, steps, channel, result>>

\* The callback answers the evaluation that gave the script; nobody listens to a late one.
Deliver(script, code) ==
  channel' = [channel EXCEPT ![script.b] =
    IF work[script.b].at = "evaluating" /\ script = Script(script.b) THEN code ELSE @]

\* A click may take its page away, and the answer with it.
RunScript ==
  /\ scripts # <<>>
  /\ LET script == Head(scripts) IN
     /\ \/ Deliver(script, IF present THEN "ok" ELSE "not_found")
        \/ UNCHANGED channel
     /\ runs' = Append(runs, [b |-> script.b, i |-> script.i, try |-> script.try, found |-> present])
  /\ scripts' = Tail(scripts)
  /\ UNCHANGED <<present, changes, batch, work, steps, result>>

\* The page is replaced or gone: the callback is dropped, called with an error, or never called.
LoseScript ==
  /\ scripts # <<>>
  /\ Deliver(Head(scripts), "script_error") \/ UNCHANGED channel
  /\ scripts' = Tail(scripts)
  /\ UNCHANGED <<present, changes, runs, batch, work, steps, result>>

-----------------------------------------------------------------------------
(* The executor *)

At(b, at) == work[b].at = at

\* execute: a step that fails is the last.
Conclude(b, code) ==
  /\ steps' = [steps EXCEPT ![b] = Append(@, code)]
  /\ work' = [work EXCEPT ![b].at = IF code # "ok" \/ Current(b) = Len(batch[b]) THEN "observe" ELSE "next",
                          ![b].tries = 0]
  /\ channel' = [channel EXCEPT ![b] = Absent]

Expire(b) ==
  /\ ~work[b].expired /\ ~At(b, "returned")
  /\ work' = [work EXCEPT ![b].expired = TRUE]
  /\ UNCHANGED <<pageVars, batch, steps, channel, result>>

\* execute_action, evaluate: nothing is evaluated once the deadline has passed.
Evaluate(b) ==
  /\ At(b, "next") /\ ~work[b].expired
  /\ work' = [work EXCEPT ![b].at = "evaluating"]
  /\ scripts' = Append(scripts, Script(b))
  /\ channel' = [channel EXCEPT ![b] = Absent]
  /\ UNCHANGED <<present, changes, runs, batch, steps, result>>

\* The window has no page to evaluate in, or the deadline has passed.
EvaluateFails(b) ==
  /\ At(b, "next")
  /\ Conclude(b, IF work[b].expired THEN "timeout" ELSE "script_error")
  /\ UNCHANGED <<pageVars, batch, result>>

Unmet(b) == batch[b][Current(b)] = "wait" /\ channel[b] = "not_found"

Answered(b) ==
  /\ At(b, "evaluating") /\ channel[b] # Absent /\ ~Unmet(b)
  /\ Conclude(b, channel[b])
  /\ UNCHANGED <<pageVars, batch, result>>

\* execute_wait: the condition does not hold yet.
PollAgain(b) ==
  /\ At(b, "evaluating") /\ Unmet(b)
  /\ \/ work[b].expired /\ Conclude(b, "timeout")
     \/ /\ ~work[b].expired /\ work[b].tries < MaxPolls - 1
        /\ work' = [work EXCEPT ![b].at = "next", ![b].tries = @ + 1]
        /\ UNCHANGED <<steps, channel>>
  /\ UNCHANGED <<pageVars, batch, result>>

\* Fault: a script that does not answer is given again.
NoAnswerRetries(b) ==
  /\ At(b, "evaluating") /\ channel[b] = Absent
  /\ IF ~work[b].expired /\ work[b].tries < MaxPolls - 1
       THEN work' = [work EXCEPT ![b].at = "next", ![b].tries = @ + 1] /\ UNCHANGED <<steps, channel>>
       ELSE Conclude(b, "timeout")
  /\ UNCHANGED <<pageVars, batch, result>>

\* recv_timeout: CALLBACK_TIMEOUT_CAP, or what is left of the batch's time.
NoAnswer(b) ==
  /\ At(b, "evaluating") /\ channel[b] = Absent
  /\ Conclude(b, "timeout")
  /\ UNCHANGED <<pageVars, batch, result>>

-----------------------------------------------------------------------------
(* The result *)

Size(r) ==
  r.base + (IF r.entries = Absent THEN 0 ELSE 1 + r.entries)
         + (IF r.visits = Absent THEN 0 ELSE 1 + r.errors + r.visits)

\* Fault: the history goes before the errors.
ShrinkHistoryFirst(r) ==
  CASE r.entries \notin {Absent, 0} -> [r EXCEPT !.entries = @ - 1]
    [] r.entries \in {Absent, 0} /\ r.visits # Absent /\ r.visits > 1 -> [r EXCEPT !.visits = @ - 1]
    [] r.entries \in {Absent, 0} /\ r.visits # Absent /\ r.visits <= 1 /\ r.errors > 0 -> [r EXCEPT !.errors = @ - 1]
    [] r.entries = 0 /\ (r.visits = Absent \/ (r.errors = 0 /\ r.visits <= 1)) -> [r EXCEPT !.entries = Absent]
    [] r.entries = Absent /\ r.visits # Absent /\ r.errors = 0 /\ r.visits <= 1 -> [r EXCEPT !.visits = Absent]
    [] OTHER -> r

\* One round of bound_result_for_frame.
Shrink(r) ==
  LET status == r.visits # Absent IN
  CASE r.entries \notin {Absent, 0} -> [r EXCEPT !.entries = @ - 1]
    [] r.entries \in {Absent, 0} /\ status /\ r.errors > 0 -> [r EXCEPT !.errors = @ - 1]
    [] r.entries \in {Absent, 0} /\ status /\ r.errors = 0 /\ r.visits > 1 -> [r EXCEPT !.visits = @ - 1]
    [] r.entries = 0 /\ (status => r.errors = 0 /\ r.visits <= 1) -> [r EXCEPT !.entries = Absent]
    [] r.entries = Absent /\ status /\ r.errors = 0 /\ r.visits <= 1 -> [r EXCEPT !.visits = Absent]
    [] OTHER -> r

\* observed_status, console and a screenshot; each may fail, and the result says so.
ObserveAfter(b) ==
  /\ At(b, "observe")
  /\ \E raw \in Observations[b], failed \in BOOLEAN :
       result' = [result EXCEPT ![b] =
         [raw |-> raw, bounded |-> raw,
          completed |-> /\ Len(steps[b]) = Len(batch[b]) /\ \A i \in 1..Len(steps[b]) : steps[b][i] = "ok"
                        /\ ~failed]]
  /\ work' = [work EXCEPT ![b].at = "cutting"]
  /\ UNCHANGED <<pageVars, batch, steps, channel>>

\* bound_result_for_frame: round after round, until it fits or nothing changes.
Bounded(r) == Size(r) <= Budget \/ Shrink(r) = r

Cut(b) ==
  /\ At(b, "cutting") /\ ~Bounded(result[b].bounded)
  /\ result' = [result EXCEPT ![b].bounded = [Shrink(@) EXCEPT !.truncated = TRUE]]
  /\ UNCHANGED <<pageVars, batch, work, steps, channel>>

Return(b) ==
  /\ At(b, "cutting") /\ Bounded(result[b].bounded)
  /\ work' = [work EXCEPT ![b].at = "returned"]
  /\ UNCHANGED <<pageVars, batch, steps, channel, result>>

Works(b) ==
  \/ Evaluate(b) \/ EvaluateFails(b) \/ Answered(b) \/ PollAgain(b) \/ NoAnswer(b)
  \/ ObserveAfter(b) \/ Cut(b) \/ Return(b)

InteractionNext ==
  \/ PageChanges \/ RunScript \/ LoseScript
  \/ \E b \in Batches : Expire(b) \/ Works(b)

InteractionSpec == InteractionInit /\ [][InteractionNext]_interactionVars

Begun(b) == steps[b] # <<>> \/ ~At(b, "next") \/ work[b].tries > 0

\* Once a batch has begun the executor runs on and time passes; the page may be stuck.
Proceeds(b) == Begun(b) /\ Works(b)
Ages(b) == Begun(b) /\ Expire(b)
InteractionFairness ==
  \A b \in Batches :
    /\ WF_interactionVars(Proceeds(b))
    /\ WF_interactionVars(Ages(b))

-----------------------------------------------------------------------------
(* Properties *)

\* The types of the page, the executor and the results.
InteractionTypeOK ==
  /\ \A script \in ToSet(scripts) : script.i \in 1..Len(batch[script.b])
  /\ \A b \in Batches :
       /\ work[b].at \in {"next", "evaluating", "observe", "cutting", "returned"} /\ work[b].tries < MaxPolls
       /\ steps[b] \in Seq(Codes) /\ Len(steps[b]) <= Len(batch[b])
       /\ channel[b] \in (Codes \ {"timeout"}) \union {Absent}
       /\ result[b] = Absent <=> work[b].at \notin {"cutting", "returned"}

\* The page sees the steps of a batch in their order, and none after the one that failed, also
\* when a script runs after its step was given up.
StepsInOrder ==
  \A b \in Batches, j, k \in 1..Len(runs) :
    runs[j].b = b /\ runs[k].b = b =>
      /\ j < k => runs[j].i <= runs[k].i /\ (runs[j].i = runs[k].i => runs[j].try < runs[k].try)
      /\ \A i \in 1..runs[k].i - 1 : steps[b][i] = "ok"

Runs(b, i) == {k \in 1..Len(runs) : runs[k].b = b /\ runs[k].i = i}
FoundOnce(b, i) == Cardinality({k \in Runs(b, i) : runs[k].found}) = 1

\* A batch that is reported as completed has clicked everything it was asked to, once each
\* (interact), and in its order, since its steps are.
CompletedIsDone ==
  \A b \in Batches : result[b] # Absent /\ result[b].completed =>
    \A i \in 1..Len(batch[b]) : FoundOnce(b, i)

\* What a step reports is what became of its script, also when scripts of earlier evaluations and
\* other batches answer late: a step that is ok found its element, once; one that found nothing
\* has done nothing and never will.  Only a timeout or a lost script leaves it open.  Steps are
\* seen in their order, and a completed batch has clicked what it was asked to.
StepsAreTrue ==
  /\ StepsInOrder /\ CompletedIsDone
  /\ \A b \in Batches : \A i \in 1..Len(steps[b]) :
       /\ steps[b][i] = "ok" => FoundOnce(b, i)
       /\ steps[b][i] = "not_found" => \A k \in Runs(b, i) : ~runs[k].found

\* The result that is returned fits its frame, or there is nothing left to cut; it is cut no
\* further than needed, the console before the status and its errors before its history, and says
\* so (bound_result_for_frame).
ResultIsBounded ==
  \A b \in Batches : result[b] # Absent =>
    LET raw == result[b].raw  cut == result[b].bounded IN
    /\ At(b, "returned") => Size(cut) <= Budget \/ (cut.entries = Absent /\ cut.visits = Absent)
    /\ cut.truncated <=> [cut EXCEPT !.truncated = FALSE] # raw
    /\ cut.errors < raw.errors => cut.entries \in {0, Absent}
    /\ cut.visits # raw.visits => cut.errors = 0
    /\ cut # raw /\ (cut.visits # Absent \/ raw.visits = Absent) => Size(cut) >= Budget
    /\ cut.base = raw.base

\* Every batch that has begun returns, although the page answers nothing (CALLBACK_TIMEOUT_CAP).
BatchesReturn == []<>(\A b \in Batches : Begun(b) => At(b, "returned"))
=============================================================================
