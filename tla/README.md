# Bendcoder: specifications, model checking and proofs

Bendcoder is a coding agent: one sequential loop, written in Bend2 over C
primitives, that asks a classifier what to do next, does it, and folds what it
learned into the state the next question is asked from. This directory holds
TLA+ modules for that loop, TLC configurations that check small instances of it,
and proofs checked by the TLA+ proof system for every instance.

## 1. Inventory

| component | source | state it keeps | operations |
|---|---|---|---|
| loop | `bendcoder_agent.bend` | fuel, `Progress` (report and book, `Stalled`, `Finished`) | `agent_step`, `run_route`, the six handlers, `apply_edit`'s stages |
| selector | `selector.bend`, `action.bend` | none: pure | `action_options`, `route`, `anchor_route`, the floors |
| reads book | `reads.bend` | `Book`: misses, cursors, want, met, read_once, low, skips | `book_*`, `rd_*` |
| worklist | `plan.bend` | list of items in the state | `parse`, `mark`, `next_open` |
| state and primitives | `agent_primitives.bend` | `State`: verdict, changed paths, plan, steps run, observations | `state_*`, `bound`, `Classify`, `Generate`, `Exec`, `Read`, `Grep` |
| file tools | `tools_c.h`, `tool_read.bend` | the working tree | read, write, edit, grep |
| reply parsing | `parse.bend`, `guard.bend`, `json_parse_c.c` | none | sentinel block, path guard, answer and generation extraction |
| clients | `typesafe_c.c`, `openrouter_c.c`, `sys_c.c` | retry count, one static exit status | HTTP with retries, subprocesses |
| start-up | `terms.bend`, `base_api.bend` | none | goal terms, signature digest |
| delegation | `delegate.sh`, `delegate-batch.sh`, `delegate-devin.sh` | worktrees, branches, logs | one issue, several in parallel |
| suite | `run_tests.sh`, `test_*` | none | a verdict and a coverage manifest |

How they interact. `agent_step` folds the last handler's report into the state
(`apply_report`), builds the questions (`action_options`), calls `Classify`,
tallies the answer in the book, and hands it to the selector's table together
with what only the loop knows: whether anything was read, whether searches are
stuck, whether the confidence floor is spent, whether the picker is exhausted,
whether the last verdict failed, whether a refused edit's read has landed, and
whether the worklist owes an item. The table's route is run by `run_route`,
which in the last two steps overrides it with an answer. A handler returns a
report and the book it moved; nothing is shared and nothing runs concurrently.

What is hard here is not concurrency but *order*: facts are read before and
after the fold, two pieces of code decide the same thing (`agent_step` and
`route.gate` about the floor), exemptions from one rule open paths around
another, several gates write one verdict, and the loop's promises hold only
over sequences of many legal steps. `PROJECT.json` lists each hazard at its
line, with the properties that watch it.

What makes each part correct:

- selector and book: the tally and the table agree; a floor that is spent has
  bought reads; the flail halt concerns weak completions only; a refused edit
  gets the read it asked for.
- edits: nothing that exists is written unread; every write that finished gets a verdict
  before the next decision; a failing draft is never accepted.
- worklist: a checked item stays checked; a completion owes nothing.
- loop: every run ends, and one that burns its fuel has answered.
- edit tool: one unambiguous place is changed, and what was pasted with line
  numbers never lands; the agent's window and the tool agree.
- clients: a busy service is retried, within a bounded time, as it asks; only the
  response of the attempt that succeeded is taken for an answer; no request stays on disk.
- extraction: a question is given its own answer, a cut response never claims more
  than the whole one, and only a whole block is applied.
- commands: an edit is judged by the processes it started.
- search: every hit up to the cap with its context, a cap that is told, and "no matches"
  and its hint only when true; reading: a file read in full was seen to its end.

## 2. Modules

| module | what it is |
|---|---|
| `Selector` | pure: options, floors, route table, anchor gate |
| `Book` | pure: the book's record, queries and operations |
| `Worklist` | pure: items, the open test, check-off |
| `BendcoderAgent` | the loop: variables, one action per handler or edit stage, properties, the refinement mapping |
| `GuardedRun` | the abstract specification: what a run promises its caller |
| `MCBendcoderAgent` | instance definitions for TLC |
| `BendcoderAgentProofs` | the inductive invariant and the theorems about the loop, and that it implements `GuardedRun` |
| `Text` | pure: occurrences, replacement, lines, prefixes and indents of a text; the agent's window |
| `EditTool` | a series of edits, writes and anchored edits of one path |
| `MCEditTool` | small texts and arguments for TLC |
| `RecursionLemmas` | what the proofs about texts keep needing: least and greatest elements, steps up and down a recursive function, joins of sequences |
| `TextProofs` | lemmas about the operators of `Text`: places, counts, replacements, lines, windows, numbered pastes |
| `EditToolProofs` | the inductive invariant and the theorems about a series of edits |
| `TypesafeRetry` | one classifier call with its retries |
| `TypesafeRetryProofs` | the inductive invariant and the theorems about a call |
| `Extract` | pure: a question's answer, a completion's text, a drafted edit, the path guard |
| `OpenRouterCall` | one generation call |
| `CommandRun` | one shell command and its exit status |
| `EditStep` | a decision and its edit from the network to the verdict: the composition of the four above |
| `MCEditStep` | questions, answers and drafts for TLC |
| `EditStepProofs` | the inductive invariant and the theorems about a step |
| `Grep` | pure: the lines a search shows of a file, the pieces of a missed pattern |
| `Lookup` | searches of a tree, reads page by page, and changes between them |
| `MCLookup` | small trees and files for TLC |
| `LookupProofs` | the inductive invariants and the theorems about reading, searching and what a listing shows |
| `PageProofs` | the theorems about a page that is quoted back to the edit tool |

`BendcoderAgent` EXTENDS the three pure modules; it instantiates `GuardedRun`
with a mapping; the proof modules extend it. The others open what the loop takes as
given. `EditTool` EXTENDS `Text` and opens the one step `ApplyBlock`: what the loop
takes as "refused" or "written" is worked out there. `EditStep` composes
`TypesafeRetry`, `Extract`, `OpenRouterCall` and `CommandRun`, and opens where an
answer, a draft and a verdict come from (`Decide`, `DraftEdit`, `CheckEdit`,
`VerifyEdit`). `Lookup` EXTENDS `Grep`, which EXTENDS `Text`, and opens `SearchCode` and
the reads.

State. `pc` is where the process stands: `"decide"` is the entry of `agent_step`
with a `Running` progress, `"read"`, `"search"`, `"build"`, `"edit"`,
`"answer"`, `"plan"` are the handlers of `dispatch_action`, `"draft"`,
`"apply"`, `"check"`, `"verify"` the stages of an edit, and `"finished"`,
`"stalled"`, `"halted"` the three ends. `fuel`, `st`, `book` and `rep` are
`agent_step`'s arguments. `disk` is the working tree and `target` the path of
the edit in flight. Only an edit has several stages, because a tool or a command
that changes or judges the tree runs between them; every other handler is one
action with everything it does.

| action | code |
|---|---|
| `Decide` | `agent_step`, `step_decide`, `run_answers`, `run_route`, `finish_guarded` |
| `OutOfFuel` | `agent_step`, the `0n` case |
| `ReadFirst`, `ReadWanted`, `ReadPicked` | the three branches of `act_read_code` |
| `SearchCode` | `act_search_code` with its duplicate check |
| `RunBuild`, `GenerateAnswer`, `DraftPlan` | `act_run_build`, `act_generate_answer`, `act_plan` |
| `RepairEdit`, `AnchorEdit` | `apply_entry` into `repair_apply_edit` or `anchor_apply_edit` |
| `DraftEdit` | `draft_apply_edit`, `act_apply_edit`, `apply_guarded` |
| `ApplyBlock` | `apply_block`, `applied`, with the three ways the tool ends |
| `CheckEdit`, `VerifyEdit` | `run_check`, `check_outcome`; `run_verify`, `after_verify`, `keep_verdict` |

Abstractions of data. A confidence is one of three bands, a noul or score the
Boolean of its one comparison, and the risk score with `needs_code_change` the one
Boolean their row reads. A cursor counts pages. A file holds text, or
nothing that can be paged to an end ("blank": an empty file, a directory), or
does not exist, together with the set of gates its content fails: the check
command, the verify command, `run_build`. An item is the set of paths its text
names. The tool refuses and leaves the disk alone, leaves one of `Drafts`, or stops short: then it
reports an error over a file that holds one of `Torn`, and the loop takes the error for a refusal.
A state's `searched` is the set of patterns whose label is in the
observations; the duplicate test reads the unbounded text (`state_text`), so no
label is ever forgotten. `answered` is `state_did(_, "generate_answer")`.

`EditTool`: a call is posed by the agent (`AskEdit`, `apply_block`,
`anchor_line`) and handled by the tool (`tool_edit`, `tool_write`), two steps that
alternate because the loop waits for the worker. A text is a sequence of
characters; `Refusal` lists the error returns in their order, `Spelling` the exact,
stripped and dedented readings, and `write_bytes` what the disk may do: keep the
text, refuse to open, write a part and say so, or lose a part unnoticed at
`fclose`. The hint a missed edit gets is wording and is left out. Removing the file
and out-of-memory returns are left out. `occurs`, `Window` and `unique_window` are
the agent's own count and window over the same text. `String.lines` of the Bend
base is taken to split at newlines, and texts have no carriage returns.

`TypesafeRetry`: `FindKey`, `WritePayload` and `MakeTemps` are the worker's
set-up with its early returns, `Post` one run of curl, `Wait` the pause, `Collect`
the end. curl is the environment: any status of the set, any headers, a body that
is written, empty, or not touched when the connection breaks behind the headers.
Of the possible jitters the model has the two ends and the middle.

`Extract`: a JSON text is a sequence of tokens. The C functions search its bytes for
quoted names, so the model finds a string token wherever it stands, key or value; a
value of another kind is passed over, as the code does; a string the end cut off is
still taken. Blanks between tokens and escapes inside strings are left out. A draft is a sequence of
sentinels and texts; trimming, and the newline that belongs to a sentinel, are left
out. `in_repo` knows one text for each way out of the repository.

| action of `EditStep` | code |
|---|---|
| `Classify`, `HandOver` | `typesafe_call_worker`, then `typesafe_post_pack`; `wrote` remembers with which status the body in the file came |
| `Speak`, `Arrive` | the service, and what of its response arrives |
| `Route` | `ParseAnswer` for each question; on to an edit, or elsewhere |
| `Generate` | `openrouter_call_worker`: key, request file, one post |
| `ParseDraft` | `extract.generation`, `parse_edit`, `act_apply_edit`'s match |
| `Apply` | `apply_block`, then the check or the suite is started |
| `Run`, `Suite` | `command_run_worker` and `command_run_pack`; the suite behind a check that passed |

What the services send is drawn from the shapes the repository's own test
(`test_answer.bend`) and extractors show: a response with an object for each
question, both services' errors, a completion with a text or `null`. Each arrives
whole or cut after any token or inside one. What the model *said* and *set out to
write* are kept as variables, so that the properties can compare them with what the
agent took.

| action of `Lookup` | code |
|---|---|
| `tool_grep` | the call with its two early errors, and the start of the first pass |
| `Visit` | one entry of `grep_tree` or `frag_tree`: the tracked test, then `grep_scan` or `frag_count` of the file; the first one loads the tracked list |
| `PassEnds` | the end of a pass: the hits, the second pass in any case, the hint, or the miss |
| `serve_read_page` | `serve_read_page` and `.fin` with `tool_read_io` and `render` |
| `Change` | an edit that landed, or another process |

The directory's order is any order. A file is its lines and whether a newline ends
the last one, or is too large, binary, unreadable, a directory or absent. `Grep` keeps the
ring of context lines as a count, since what is in it are always the lines just passed.
`render` in `tool_read.bend` and `tool_read` in `tools_c.h`, its mirror, are one
operator, `ReadOf`. `git ls-files` is asked by the first search; when its process cannot be started the
code reads behind the end of an empty string, and the model lets each lookup then go
either way. The pieces a miss tells are clipped to `FRAG_CLIP` characters, as `grep_fragment_hint` clips them
before it compares them. Clipping of shown lines and of the list of names, carriage returns
in a line a search reads, and running out of memory are left out.

Environment of the loop. `Classify` may give any answer over the offered labels, plus the
labels in `Stray`: the checked instances put the unusable answer there, and the
theorems hold for any subset of the labels, except where a property itself
quantifies over the offered answers (`TallyMatchesTable`, `FlailIsWeakDone`), and except
`PlansKeepProgress`, which excludes `plan` from them. Drafts,
verdicts of the tools, picks, plans and search results are arbitrary.

## 3. Properties and runs

`agent_safety` (six steps of fuel, the default of `fuel_of`):

- `TypeOK`: the types; no decision without fuel.
- `EditAfterRead`: no stage of an edit before something was read. The blind-edit
  row is not what guarantees it alone: a weak edit under a spent floor, after a
  failed verdict or after a landed read is decided by rows above it.
- `FloorBuysReads`: at a decision the low run is at most `floor_reads`, and
  once it is spent a read has run; without the flail halt a weak completion in
  the reroutes could push it further.
- `WantThenMet`: the two records of a refused edit are consistent with the cursors.
- `FinishOwesNothing`: a completion with more than the forced window left owes no item.
- `AnswerBeforeHalt`: a run that burns its fuel has answered.
- `ReadServesWant`, `NoBlindWrite`, `PlanKeepsProgress`: what a step may not do.

- `TallyMatchesTable`: for every answer in every state about to decide, `agent_step`'s
  tally and the table agree, and the dead-read row is never needed for an offered answer.
- `FlailIsWeakDone`: the flail halt only meets weak completions.

`agent_refines` (four steps, weak fairness): `Terminates`, and `GuardedSpec`,
that the loop implements `GuardedRun`: a budgeted worker that writes only files
it knows or that do not exist, owes each write that finished a verdict before it decides
again, keeps the path of every such write on record, and is never accepted while the last
verdict over something it wrote is a failure. A write that stops short is a step of its own
there (`Tear`): it, too, only touches a file that is known or new, but it is neither judged
nor recorded; `spoiled_done` shows what follows. The mapping reads the verdict and
the touched paths through the report that is not folded yet, because the code
learns them one decision late.

`edit_tool`, on one path through any series of calls:

- `OneEditOnePlace`: an edit without `replace_all` replaces one occurrence of one
  reading of its arguments, the exact one when the file holds it, and never when
  a second occurrence stands clear of the first.
- `PasteNeverLands`: no edit, with `replace_all` or without, puts a numbered line into the
  file, also when the number only shows after dedenting.
- `CountIsReplacements`: the count replied for `replace_all` is what happened.
- `WindowIsAccepted`, `AnchorCoversLine`: the tool takes the agent's window and
  changes the line it was cut around, when the window has no overlapping copy.

`edit_step`, from the classifier call to the verdict:

- of the classifier call: `WaitIsBounded` (three caps at most for the whole call),
  `WaitServesHint` (each pause is what the answer before it asked for, less at most a
  quarter), `BusyIsRetried` (no early giving up), `NoFileLeft` (however the call ends, its request file is
  gone, and so are the others unless one of them could not be made, the one way that leaves a file), and `Returns`.
- `AnswerIsFresh`: the body file is read whatever the last attempt did, and a broken
  connection leaves an earlier body in it; still no answer is usable, and nothing is
  drafted, unless the last attempt succeeded and the body is its own. No line of the
  code says so: it follows from which statuses are retried and what their bodies hold.
- `AnswerIsOwn`: each question is given exactly what the service said to it, whichever
  fields its neighbours have or lack, with ids that contain the names of fields.
- `CutIsWeaker`: of a response that was cut an answer may be lost or weaker, never of another
  kind or more confident, and a label that has any confidence is the label that was said.
- `BlockIsWhole`: what is applied is the first group the model set out to write, path,
  old and new text whole, and its path is inside; no part of a group that was cut, nothing of an error
  object, and no mixture of two groups is applied. That the first of two closed groups is
  taken at all is the subject of `second_group`.
- `VerdictIsOwn`: an edit is kept or broken by the status the code computed for a process of this
  edit, the check's where it failed and the suite's behind a check that passed.
- `NoRequestLeft`: a finished generation call has removed its request file.
- `StepEnds`, `StepTypeOK`.

`lookup`, over a small tree:

- `ContextIsWindow`: what is shown of a file stands in one place and is each hit and
  the lines within the context of one, once, in order, with a gap mark between blocks that do not touch;
  the reference is stated over sets of line numbers, without ring or counters.
- `CapIsTold`: a listing that does not say it was stopped is complete over all
  files, and one that says so has `MAX_MATCHES` hits and misses some.
- `MissMeansAbsent`: a miss is only told of a pattern that stands in no file the search covers.
- `PiecesAreLongest`: the pieces a miss reports are the longest in any covered
  file, counted over exactly the files that hold them, and each length with what is shown of the
  piece is told once.
- `FullMeansSeen`: a path reported as read in full was served to its last line, unless it
  changed on the way.
- `QuotedPageIsFound`: a page quoted back with its line numbers is found in the file
  once the edit tool took them off, also when lines start with tabs or digits, and whatever
  number stands in front. Pages with a row that ends in a carriage return are excepted
  (see below); without the exception TLC finds the property violated.
- `TypeOK`: among others, sinks and names stay within their caps.

Seven runs show where the code and its comments part:

- `green_over_broken`: `run_build` always runs `./run_tests.sh`, so its pass can
  clear the failure of a draft that `BENDCODER_CHECK_CMD` refused.
- `miss_run`: a kept edit does not break the run of missed searches when the anchor fell back to
  the sentinel draft. An anchored edit and a repair do break it, in `book_exhaust`.
- `forced_done`: in the forced window a risky completion, which would need a
  confirmation, ends the run over an open item.
- `overlap_window`: among repeated lines a window can overlap a copy of itself;
  `occurs` counts such copies once, so the window passes as unique, and the tool,
  which replaces the first match, may change the lines above the picked one.
- `killed_command`: the exit status is taken with `WEXITSTATUS` from any wait status, so a
  suite that a signal ended reads as 0, and its edit is kept as verified.
- `spoiled_done`: a write that comes short has emptied the file before it reports its error. The
  loop takes the error for a refused edit: no verdict, no failed path. The pass of an earlier build
  stands, and the run is accepted over a tree that suite and build refuse.
- `second_group`: `bendcoder_agent.bend:511-513` says that a reply of more than one group is refused;
  `edit_well_formed` looks for a second path only before the first `<<<END>>>`, so
  of two closed groups the first is applied and the second dropped.

More disagreements have no run of their own:

- `plan` is still offered at the decision after a plan, since the options are built from `state`,
  not `state2` (l.1168), against `selector.bend:47-49`. No checked-off item
  can be lost that way, which `PlanKeepsProgress` confirms, but the list is replaced;
- the refusal of numbered pastes is said to cover creations (`tools_c.h:510-512`), but
  the agent creates files through `WriteFile`, which has no such check;
- a prefix and a suffix of a missed pattern that have one length and agree in their first 90
  characters are told as one, also when they differ behind (`tools_c.h:1054-1063`), and the files that hold the
  other stay untold. `PiecesAreLongest` says as much: what is told is the length and what is shown;
- a deletion with `replace_all` takes the newline along where one follows, and then
  leaves the occurrences without one in place while the reply counts them; nothing
  in the loop sets `replace_all`;
- `search_missed` (l.253) looks for `error:` and for `case-insensitive` in the whole reply, so a
  hit on a line with the one word counts as a miss, and a miss of a pattern with
  the other as a hit, against "a miss grows the Book's consecutive-miss run; a hit
  ends it" (l.262-263);
- an empty verify command is a pass, since `command_run` runs nothing and reports success;
- a cursor stays where it was when an edit changes the file under it, which is why
  `FullMeansSeen` leaves changed files out; and an error served as a page moves it;
- `render` drops the carriage return of a CRLF line, so several such lines quoted back are not found,
  which is the exception of `QuotedPageIsFound`.

The README's "rolls back on failure" (l.6-7) and `delegate.sh:8-9` describe the
behaviour before the repair path existed: today a failing draft stays on disk,
as the comment above `keep_verdict` says, and the model follows the code.

Every property has a mutant in `PROJECT.json`: a plausible bug in a definition
that models code, with which TLC finds the property violated.

## 4. Bounds

Two tracked files, one of one page and one of two, and one path no listing
names: enough for a wanted file and another picked one, for paging to the end,
for the anchor's window question, and for a draft that names a path outside the
listing. Two patterns, one of them sniffed at start-up. Three kinds of draft: good,
refused by the check only, refused by the suite only; and one torn content, which suite and build refuse. Two starting trees: a clean
one, and one whose suite already fails, with a listed file missing and an unlisted
blank one. Two plans: empty, and one item for each file. Fuel is the only bound
on depth; six is the code's own default, and every threshold (2, 2, 2, 3) and the
forced window (the last two steps) are reached within it: the mutants of the counters and
of the window are caught within the same bounds. `agent_refines` takes four steps, which is
enough for an edit that fails, its repair and a completion or the forced answer.
The fuel bound also bounds the counters, so no state constraint is used.
`CHECK_DEADLOCK FALSE` is set because a run really ends in one of three states.

`edit_tool`: the file starts as nothing, a directory, or a text of up to four
characters over a letter and the newline, up to three with a blank, or a numbered
line; the arguments have up to three characters of the same kind, and one of each
shape the fallbacks are for (number and tab, number and colon, leftover tabs, an
even and an uneven indent); the replacements include the empty text, a trailing
newline, and a numbered line in the open and under an indent. That is enough for two
occurrences clear of each other, for overlapping ones, for a window that has to grow,
and for every branch of `Refusal`. No call is made on a file longer than `MaxLen`,
which is why such a state has no successor and deadlock is not checked.

`edit_step`: the attempts are bounded by the code; one status of each kind it
distinguishes; headers absent, zero and above the cap. Three questions, one of each
kind, `confidence_score` among them because its name contains a field's; each answered,
left out, or answered in a form nobody knows. Drafts of no group, of one group with each
of its parts empty, of one that leaves the repository, and of two groups, closed or not.
Each response, completion and draft is cut in every place. Exit codes 0 and 1. A step
ends, so deadlock is not checked.

`lookup`: the code's numbers (a context of 3 lines, 200 hits, pieces of at least 4, shown up to 90 characters, and 6
names, pages of 200 lines) are constants, here 2, 3, 2, 2, 1 and 2. Files of seven lines with
every set of hit lines, which has blocks that touch, overlap, stand one line apart,
and reach either end, beside a second file of three lines, so the cap is met inside the first file, inside the second, and exactly at
a file's end. Three files that hold different prefixes and suffixes of patterns of two to five
characters, so counts restart and names overflow, and a pattern whose prefix and suffix differ only behind what is shown of them. One file of each kind that is left out, with every index. Pages over
files of none to five rows that change between pages, over a file with a carriage return, and over one
of eleven rows, whose fifth page is numbered 9 and 10: numbers of one digit and of two on one page.
A file is read while its cursor is at most `MaxNext` = 9. A run may stop when its calls are made, so
deadlock is not checked.

## 5. Fairness

`FairSpec` has weak fairness of `Next` and no more: the loop is one sequential
process, and what it assumes is that a call into a tool, a command or a client
returns. The code does not bound that itself: curl is called without a time limit
and a command may run for ever, either of which stops the real loop as well (the
hazard is listed). No fairness is assumed of what `Classify` or `Generate` answer.
`TypesafeRetry` and `EditStep` have the same fairness and the same reason: one worker,
whose next step is taken unless curl or a command never comes back. `StepEnds` and
`Returns` assume nothing about what comes back. `EditTool` and `Lookup` state no liveness.

## 6. Proofs

Every assumption is a named `ASSUME` of the module that declares the constant. The provers
see a recursive operator only through its defining equation, and the library's induction theorems
take an operator as a parameter, so inductions are over *sets*: the least (or greatest)
place where a claim fails is looked at, and the place before it contradicts it
(`LeastExists`, `GreatestExists`, `Upwards` and `Downwards` of `RecursionLemmas`, from the
well-foundedness of the naturals). What `Text` and `Grep` compute by recursive functions
is proved that way. Where a module's `SequencesExt` is local, the recursion behind
`FlattenSeq` is shown to have a solution first (`FlattenExists`).

**The loop.** The assumptions of `Book` and `BendcoderAgent` are that the listing
is a non-empty set of paths, files have at least one page, drafts and torn files are contents, the fuel is
positive. Nothing bounds the files, the plan, the patterns or the fuel.

`IInv` is the conjunction of

- `TypeOK`;
- `BookInv`: want and met are consistent with the cursors, and a pick is only
  declined after the first read (else the picker could be exhausted before
  phase 0 and a want could wait for ever);
- `EditAfterRead`;
- `LowRun`: the low run stays within the floor at every stage, and a low run without
  a read is one decision long and belongs to a forced answer, or is about to be
  followed by the first read. This is what makes `EditAfterRead` inductive: a spent
  floor lets a weak edit pass the blind-edit row, so a spent floor must imply a read;
- `TargetInv`: an edit about to be applied names a file that is new or marked;
- `LastWord`: with no fuel left, an answer was given or is the stage being run.
  `AnswerBeforeHalt` follows.

TLC checks `IInv` on the instance of `agent_safety` as well. `BendcoderAgentProofs`
proves that each action keeps it, and from it the safety and action properties
of the runs. `PlansKeepProgress` assumes besides that the service never answers a `plan` it was
not offered, and rests on `PlanInv`: the planner runs, and its report waits, only over a
plan of which nothing is checked off, so the plan it replaces loses no progress. `TallyMatches` and `FlailsAreWeakDones`
compare the two copies of the floor rules condition by condition.

`Refinement` needs two facts more, `ReportWaits` (a report waits only at a
decision or after the run was halted) and `LastOfChanged` (if anything changed,
the last changed path is known, so a failing verdict over a write names a broken
path); it is `Spec => Guarded!Spec`.

**The classifier call.** `TypesafeRetryProofs` assumes that statuses are three-digit numbers and headers
integers. `CallInv` is the checked invariants together with what each stage knows:
no status before curl runs, an attempt left while waiting, none left when a busy
answer is collected, and which temporary files there are before curl runs (`FilesKnown`). That the
files are gone (`FilesAreRemoved`) is then seen at the one step that ends the call, each way out of it. Each step keeps it; `WaitsServeHints` then looks at the one
step that changes the attempt.

**A step.** `EditStepProofs` assumes besides that there is a question, that no question has the name of a
field that errors are made of, and that a text of a draft is no sentinel: texts are
the pieces *between* the sentinels, as the format has no escape for one. `StepKnows` adds to `CallInv`:

- `BodyKnows`: a body an earlier attempt left came with a status that is retried, since
  any other ends the loop; so a body that came with 200 is of the attempt that ended it.
  This is what `AnswersAreFresh` needs: a usable answer comes from a
  response with status 200, because error objects hold no question's name
  (`ErrorAnswersNothing`, over every question that is not one of the words of an error);
- `CommandKnows`: between worker and pack the static variable is the status of this
  command's process;
- `RequestKnows`: the request file exists only while it is being posted.

`StepHolds` is `StepTypeOK` with `EditKnows`: an edit is parsed once, of what the model set out to write,
and `BlocksAreWhole`. The argument is about where a cut can fall. What arrives is a first part of
the draft, with at most one piece cut short behind it (`CutIsPart`). A draft starts with
its first group and either the `<<<END>>>` of it or the `<<<PATH>>>` of the next (`DraftStarts`).
`edit_well_formed` asks for an `<<<END>>>`, and a text cut inside the first group has
none, so a text that is parsed has the whole group (`EndIsBehind`); behind it the
`<<<PATH>>>` of an unclosed group is refused, and behind an `<<<END>>>` nothing is looked at
(`OpenIsMalformed`, `ClosedIsParsed`).

**Answers.** `AnswersAreOwn` and `CutsAreWeaker` are about the extractor's search for quoted names in
a response of any number of questions. They assume what `IsSaid` says: the ids are none of
the words a response or an error is made of; a label is an action, a number or a tracked path, never
another question's id; and where a confidence is left out, the label is not `confidence` (the service spells
the label again as the key of its probability, which the extractor would then take for the confidence). The
invariant is `SaidKnows`: what arrived is of what was said, whole or cut, or is an error. The rest is about texts of
tokens:

- an answer's object is followed token by token: where each key of it stands (`ChoiceKeys`, `ScoreKeys`,
  `NoulKeys`) and what is behind it. The answers are joined to the response, part by part, and `IsResponse`
  says where each part ends up. A part with another question's answer does not hold this id (`Lacks`);
- so the first place of an id is its own object, and the first `{` of a next object behind a `}` and a comma
  is where the extractor stops looking (`Placed`, `SpanFits`): no neighbour's field is in reach;
- a cut response is a first part of the whole one whose last token is a piece of the one that stood there
  (`IsCut`): a string without its end, a number with fewer digits, so a smaller one. A key the cut removed is not found;
  one it left has its own value or the piece of it. A label cut short is followed by nothing, so
  it comes without confidence (`Weaker`).

**Edits.** `EditToolProofs` assumes that texts are sequences of characters, and nothing of
their length or number. `EditInv` is `TypeOK` with `RecordsKnow` (each record has the shape of
its kind, and the call being handled is one of the two kinds the agent poses) and
`AnchorKnows`: an anchored call holds the window of the file *as it stands*, since the loop
waits for the tool and nothing else writes. From it:

- `EditsChangeOnePlace`: each branch of `Refusal` that lets an edit through leaves one
  reading with one counted occurrence, and `replace` of a text counted once splices it at its
  first place (`ReplaceOne`, over all texts); a second place clear of
  the first would have been counted (`HitsCount`);
- `PastesNeverLand`: the dedented reading is tested again after the blanks are gone;
- `CountsAreReplacements`: replacing adds the same length at each hit, and `count_matches` takes
  the same hits, both scanning from the left (`ReplaceAllLength`);
- `WindowsAreAccepted` and `AnchorsCoverTheirLine`: the window is lines of the file joined, so
  it is found; `occurs` counts as `count_matches` does, so it is not ambiguous; and the
  window's place covers the line, as the window spans it.

**Reading.** `LookupProofs` assumes that pages have at least one line, that the changes of a run
are files, and that names and patterns are paths and texts. `ReadInv`
says that of a path that did not change the lines served are exactly those before
its cursor, and that a path reported in full has its cursor behind its last row.
A page served extends both by the same lines, whatever its length; errors, empty files and warnings
serve none, and there is none to miss.

**Quoting a page.** `PageProofs`, `PagesAreOfFiles`: the rows of a page are rows of the file as it stands, from
the page's offset on, as `Change` withdraws the page. `QuotedPagesAreFound` is then about texts. It assumes of
files what splitting at newlines gives (`Split`: no newline in a line, and a last line that is ended or not
empty). A joined text is described by where its rows are cut (`CutInto`, `RowsAt`), and its lines are
exactly the stretches between the cuts (`LinesFrom`). Of a row behind a number and a tab, `PrefixWidth` is the
width of these two, whatever the row starts with, as a number is digits only (`ShowIs`, over all numbers)
and a tab is no digit (`WidthsAre`). Trimming drops those places and keeps all others in order; followed
row by row along the cuts it leaves the rows joined by newlines, as they were before
the numbers (`RowStripped`, `NumbersOff`). And consecutive rows of a file, joined again,
stand in it (`RowsStandIn`), so a place is found. TLC checks the invariant `PageIsOfFile` of `PagesAreOfFiles` on the
instance of `lookup` as well.

**Searching.** `SearchInv` ties a search under way to the files it has visited so far (those
it covers and no longer has to do): the hits shown are exactly theirs, or the sink is full, has
`MAX_MATCHES` of them and one more exists (`CapsAreTold`); each piece is
the longest prefix or suffix in any of them, its count the number of those that
hold it, its names the first few. A later pass also knows that the passes before it found nothing, which
is what a miss rests on (`MissesAreAbsent`). An answer remembers this as
of the moment it was given, and holds because the tree does not change under an
answer: `Change` withdraws it. The list of tracked files is loaded by
the first visit that needs it, so the set of covered files is only fixed from then
on; before it nothing below a filtered root has been visited. Three facts about
the code's algorithms carry the steps: `ScanIsHits` (whatever the ring of context lines does,
`grep_scan` adds exactly the hits up to the cap), `LongestIs` (`frag_longest`'s binary search finds
the longest piece, because a text that holds a piece holds every shorter one,
`OccursShorter`), and `CountKeeps` (`frag_count` restarts on a longer piece and loses none).
`HintOnce` adds that no two entries of a hint have one length and show the same, for any number
of characters shown.
TLC checks `SearchInv` on the instance of `lookup` as well.

**Listings.** `ContextsAreWindows` rests on `WindowInv`: each file a sink names is
one the walk is done with, and stands in one stretch of the sink that is its reference listing,
or a first part of it if the cap was reached. `SearchInv` says nothing of this, as it counts hits and forgets where
they stand among their context. Inside one file, `ScanShows` is the invariant of the scan: the listing so
far is the reference up to the last line shown, and `Owes` relates the code's three counters to it. The ring has the lines
behind the last one shown, `CONTEXT` of them at most; none of the lines it dropped was
near a hit; and as long as lines are owed after a hit none is held back. A hit then shows exactly what is missing
(`HitCatchesUp`: the gap mark if the ring dropped a line, the ring, the hit), every other line is shown when it is owed and held back
when it is not (`LineShows`), and behind the last line nothing is missing (`ScanEnds`). The
reference is a recursive join over all lines of the file; `ListingsExist` gives
its joins line by line, so the proof goes along the scan and needs no induction over data. When the next
file is shown, earlier stretches stay where they are (`StretchStays`). TLC checks `WindowInv`
on the instance of `lookup` too.

Only model-checked: `Returns`, `StepEnds`, `Terminates` and the fairness part of
`GuardedSpec`, because liveness is out of the prover's reach. Every invariant and action property of a
passing run is proved.

**Bounded runs.** What of liveness needs neither fairness nor `ENABLED` is proved: each step of the
loop, of a call and of a step from the network to the verdict makes a number smaller that never falls
below zero (`RunsAreBounded`, `CallsAreBounded`, `StepsAreBounded`). A run has at most
`6 * MaxSteps + 1` steps, since a decision and its edit, with check and suite, are six steps at most; a call has eleven; a decision with its edit
25. No service, command or model can make one longer in steps, only in the time a step takes. That a stage
before the end always has a next step is left to TLC.

## 7. Not modelled, and what is left

Left out:

- printing and wording, the observation budget (`bound`, `clip`), JSON rendering of the
  state: they bound and word what the model reads, and the loop's decisions read
  none of it except the search labels, which are kept;
- `extract.usage`, which feeds a printed count; which models a generation request names;
- escapes inside strings: `answer_str` and `parse_chat_content` know `\n`, `\r` and `\t`
  and take `\u003c` for `u003c`, so a service that escapes `<` that way would spoil every sentinel;
- the start-up digests (`terms.bend`, `base_api.bend`): pure text extraction, whose result is
  the constant `Sniffed`;
- `suite_cover` over the coverage manifest, which words the label of a kept edit;
- in the worklist: stripping bullets, the 16-item cap, and the substring test by which
  an item names a path;
- the delegation scripts, runners and call scripts: shell around the loop;
- the laws, which the Bend checker proves, and the interface.

What a next step would take up, in this order: the substring test of the worklist, with
the prefix paths that check off another's item; `bound` and `clip` against
a reference definition; and parallel jobs of `delegate-batch.sh` over one repository's
worktrees and branches.
