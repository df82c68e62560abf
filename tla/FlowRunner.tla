----------------------------- MODULE FlowRunner -----------------------------
(***************************************************************************)
(* What the runner of user interface flows records of the running flow     *)
(* (FlowExecution, shared.UI/src/flows/flowRunner.ts): the status of every *)
(* step, the substeps in flight and the pointer to the current step.  A    *)
(* substep is a promise: it begins in a callback of a surface and ends     *)
(* when what it awaits has settled, so substeps of one step overlap and    *)
(* end in any order.                                                       *)
(***************************************************************************)
EXTENDS Naturals

CONSTANTS
  Step,    \* ids of the steps and substeps of every flow
  None

Status == {"pending", "running", "waiting", "completed", "failed"}
Over == {"completed", "failed"}

Execution ==
  [current : Step \cup {None},
   status : [Step -> Status],
   active : SUBSET Step,                  \* activeChildren, inFlight
   previous : [Step -> Step \cup {None}], \* what runSubstep remembers
   overtaken : SUBSET Step]               \* history: ended while not current

NewExecution ==
  [current |-> None,
   status |-> [s \in Step |-> "pending"],
   active |-> {},
   previous |-> [s \in Step |-> None],
   overtaken |-> {}]

\* execute(): a step of the flow's own sequence becomes the current one.
Executed(e, s) ==
  [e EXCEPT !.current = s, !.status[s] = "running"]

Waiting(e, s) == [e EXCEPT !.status[s] = "waiting"]

\* A step's own end: drain() has found no substep in flight.
Completed(e, s) == [e EXCEPT !.status[s] = "completed"]
Drained(e) == e.active = {}

\* runSubstep() refuses a substep that is already running.
CanBegin(e, s) == s \notin e.active

Begun(e, s) ==
  [e EXCEPT !.active = @ \cup {s},
            !.previous[s] = e.current,
            !.current = s,
            !.status[s] = "running",
            !.overtaken = @ \ {s}]

\* Mutant: the pointer stays on the substep that has ended.
Stays(e, s) == e.current

\* The pointer goes back only if no other substep has taken it.
Restored(e, s) == IF e.current = s THEN e.previous[s] ELSE e.current

Ended(e, s, outcome) ==
  [e EXCEPT !.active = @ \ {s},
            !.current = Restored(e, s),
            !.status[s] = outcome,
            !.overtaken = IF e.current = s THEN @ ELSE @ \cup {s}]
=============================================================================
