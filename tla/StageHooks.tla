----------------------------- MODULE StageHooks -----------------------------
(***************************************************************************)
(* One step of a task with its hooks: pre hooks, the stage itself, post    *)
(* hooks, and the attempts that follow a failure.  Actions may be routines *)
(* (files with further actions, that may name each other); copy and delete *)
(* work file by file, in folders behind a connection, while files arrive.   *)
(*                                                                         *)
(* A file is [in, name, body], in being "" or a sub-folder of its place.   *)
(* An action is [name, type, on, from, to, path].  Queries, requests,      *)
(* scripts and stores are "call"; templates, the payload of requests and   *)
(* the service connections are left out.                                   *)
(***************************************************************************)
EXTENDS Naturals, Sequences

CONSTANTS
    Actions,      \* actions that are configured
    Hooks,        \* configured hooks: [pre, post], sequences of actions
    Routines,     \* [path -> sequence of actions]
    Places,       \* folders
    Sources,      \* [Places -> files at first]
    Late,         \* files that may arrive at any time
    MaxAttempts

VARIABLES
    hooks,        \* the hooks of the step
    phase,        \* "ready", "pre", "body", "post", "done" or "failed"
    stack,        \* the list of the phase and those of open routines: the
                  \* actions that are left, and (history) what was executed
    moving,       \* copy or delete under way: [on, left, found]
    raised,       \* an exception on its way up: [on, ran], ran as in stack
    state,        \* state_map: [name -> "success" or "failed"]
    files,        \* [Places -> files]
    saved,        \* payloads the stage has appended to the manifest
    attempts,
    outcome       \* history: what the last phase executed, and if it ended well

hkVars == <<hooks, phase, stack, moving, raised, state, files, saved, attempts, outcome>>

MAX_ROUTINE_DEPTH == 5

First == UNION {Sources[p] : p \in Places}

HookAssumption ==
    /\ Hooks \subseteq [pre : Seq(Actions), post : Seq(Actions)]
    /\ \A p \in DOMAIN Routines : Routines[p] \in Seq(Actions)
    /\ \A a \in Actions :
          /\ a.type \in {"call", "copy", "delete", "routine"}
          /\ a.type \in {"copy", "delete"} => a.from \in Places
          /\ a.type = "copy" => a.to \in Places \ {a.from}
    /\ DOMAIN Sources = Places /\ First \cap Late = {}

Still == [on |-> FALSE, left |-> {}, found |-> FALSE]
Calm == [on |-> FALSE, ran |-> <<>>]
Depth == Len(stack) - 1
Top == stack[Len(stack)]
Current == Head(Top.left)
Running == phase \in {"pre", "post"} /\ ~raised.on
Busy == Running /\ Top.left # <<>>

Opened(list) == [left |-> list, ran |-> <<>>]
Over(frame, ran) == [left |-> Tail(frame.left), ran |-> frame.ran \o ran]
Ended(ok) == <<[name |-> Current.name, ok |-> ok]>>
Noted(name, how) == [n \in DOMAIN state \cup {name} |-> IF n = name THEN how ELSE state[n]]

-----------------------------------------------------------------------------
\* execute() builds a new runner, with empty maps.  Conditions of actions are
\* renamed while they are parsed, and the runner sees none.
Start ==
    /\ phase = "ready"
    /\ phase' = "pre" /\ stack' = <<Opened(hooks.pre)>>
    /\ moving' = Still /\ raised' = Calm /\ state' = <<>>
    /\ attempts' = attempts + 1
    /\ UNCHANGED <<hooks, files, saved, outcome>>

\* The next action of the phase or of the routine; only actions of the phase
\* itself are recorded in the state map.
Succeed ==
    /\ stack' = [stack EXCEPT ![Len(stack)] = Over(@, Ended(TRUE))]
    /\ state' = IF Depth = 0 THEN Noted(Current.name, "success") ELSE state

RunCall ==
    /\ Busy /\ Current.type = "call"
    /\ Succeed
    /\ UNCHANGED <<hooks, phase, moving, raised, files, saved, attempts, outcome>>

\* The files are listed once, with those of the sub-folders.
ListFiles ==
    /\ Busy /\ Current.type \in {"copy", "delete"} /\ ~moving.on
    /\ moving' = [on |-> TRUE, left |-> files[Current.from], found |-> files[Current.from] # {}]
    /\ UNCHANGED <<hooks, phase, stack, raised, state, files, saved, attempts, outcome>>

\* A copy has the name of its file and no sub-folder: it takes the place of
\* what has that name.
Copied(f) == [in |-> "", name |-> f.name, body |-> f.body]
Overlaid(there, f) == {g \in there : g.in # "" \/ g.name # f.name} \cup {Copied(f)}

MoveFile ==
    /\ Busy /\ moving.on
    /\ \E f \in moving.left :
         /\ moving' = [moving EXCEPT !.left = @ \ {f}]
         /\ files' = IF Current.type = "copy"
                     THEN [files EXCEPT ![Current.to] = Overlaid(@, f)]
                     ELSE [files EXCEPT ![Current.from] = @ \ {f}]
    /\ UNCHANGED <<hooks, phase, stack, raised, state, saved, attempts, outcome>>

\* A copy that found no file fails, a delete does not.
EndFiles ==
    /\ Busy /\ moving.on /\ moving.left = {} /\ (moving.found \/ Current.type = "delete")
    /\ Succeed /\ moving' = Still
    /\ UNCHANGED <<hooks, phase, raised, files, saved, attempts, outcome>>

Openable(a, depth) == depth < MAX_ROUTINE_DEPTH /\ a.path \in DOMAIN Routines

OpenRoutine ==
    /\ Busy /\ Current.type = "routine" /\ Openable(Current, Depth)
    /\ stack' = Append(stack, Opened(Routines[Current.path]))
    /\ UNCHANGED <<hooks, phase, moving, raised, state, files, saved, attempts, outcome>>

Outer == SubSeq(stack, 1, Len(stack) - 1)

CloseRoutine ==
    /\ Running /\ Len(stack) > 1 /\ Top.left = <<>>
    /\ stack' = [Outer EXCEPT ![Len(Outer)] = Over(@, Top.ran)]
    /\ state' = IF Depth = 1 THEN Noted(Head(stack[1].left).name, "success") ELSE state
    /\ UNCHANGED <<hooks, phase, moving, raised, files, saved, attempts, outcome>>

-----------------------------------------------------------------------------
\* A call or the work on a file raises, or a routine cannot be opened.
Fail ==
    /\ Busy
    /\ \/ Current.type = "routine" /\ ~Openable(Current, Depth) /\ raised' = [on |-> TRUE, ran |-> <<>>]
       \/ (Current.type = "call" \/ moving.on) /\ raised' = [on |-> TRUE, ran |-> Ended(FALSE)]
    /\ moving' = Still
    /\ UNCHANGED <<hooks, phase, stack, state, files, saved, attempts, outcome>>

\* Defect: the setting of the action that failed decides, wherever it is.
ToleratedAnywhere == Current.on # "abort"

\* What on_failure says of an action inside a routine is not looked at.
Tolerated == Depth = 0 /\ Current.on # "abort"

\* An exception leaves all open routines.
LeaveRoutine ==
    /\ raised.on /\ ~Tolerated /\ Depth > 0
    /\ stack' = Outer
    /\ raised' = [raised EXCEPT !.ran = Top.ran \o @]
    /\ UNCHANGED <<hooks, phase, moving, state, files, saved, attempts, outcome>>

Tolerate ==
    /\ raised.on /\ Tolerated
    /\ stack' = [stack EXCEPT ![Len(stack)] = Over(@, raised.ran)]
    /\ state' = Noted(Current.name, "failed")
    /\ raised' = Calm
    /\ UNCHANGED <<hooks, phase, moving, files, saved, attempts, outcome>>

Abort ==
    /\ raised.on /\ ~Tolerated /\ Depth = 0
    /\ phase' = "failed"
    /\ outcome' = [ran |-> Top.ran \o raised.ran, ok |-> FALSE]
    /\ state' = Noted(Current.name, "failed")
    /\ raised' = Calm /\ stack' = <<>>
    /\ UNCHANGED <<hooks, moving, files, saved, attempts>>

EndPhase ==
    /\ Running /\ Len(stack) = 1 /\ Top.left = <<>>
    /\ phase' = IF phase = "pre" THEN "body" ELSE "done"
    /\ outcome' = [ran |-> Top.ran, ok |-> TRUE]
    /\ stack' = <<>>
    /\ UNCHANGED <<hooks, moving, raised, state, files, saved, attempts>>

\* _execute: the stage saves its outcome before the post hooks run.
Body ==
    /\ phase = "body"
    /\ \/ saved' = saved + 1 /\ phase' = "post" /\ stack' = <<Opened(hooks.post)>>
       \/ phase' = "failed" /\ UNCHANGED <<saved, stack>>
    /\ UNCHANGED <<hooks, moving, raised, state, files, attempts, outcome>>

\* The engine runs a step that failed again, from its first hook.
RunAgain ==
    /\ phase = "failed" /\ attempts < MaxAttempts
    /\ phase' = "ready"
    /\ UNCHANGED <<hooks, stack, moving, raised, state, files, saved, attempts, outcome>>

\* Others put files into the folders.
Arrive ==
    /\ phase \in {"pre", "body", "post"}
    /\ \E f \in Late, p \in Places :
         /\ \A g \in files[p] : g.in # f.in \/ g.name # f.name
         /\ files' = [files EXCEPT ![p] = @ \cup {f}]
    /\ UNCHANGED <<hooks, phase, stack, moving, raised, state, saved, attempts, outcome>>

Init ==
    /\ hooks \in Hooks
    /\ phase = "ready" /\ stack = <<>> /\ moving = Still /\ raised = Calm /\ state = <<>>
    /\ files = Sources
    /\ saved = 0 /\ attempts = 0 /\ outcome = [ran |-> <<>>, ok |-> TRUE]

Next ==
    \/ Start \/ RunCall \/ ListFiles \/ MoveFile \/ EndFiles \/ OpenRoutine \/ CloseRoutine
    \/ Fail \/ LeaveRoutine \/ Tolerate \/ Abort \/ EndPhase \/ Body \/ RunAgain \/ Arrive

-----------------------------------------------------------------------------
(* What the configuration says *)

\* What an action may come to, given what its routine may come to.
Comes(a, depth, inside) ==
    IF a.type # "routine"
    THEN {[ran |-> <<[name |-> a.name, ok |-> ok]>>, ok |-> ok] : ok \in BOOLEAN}
    ELSE IF Openable(a, depth) THEN inside ELSE {[ran |-> <<>>, ok |-> FALSE]}

\* The list goes on after an action: inside a routine the first failure ends
\* everything, in the list of a phase one that is not to be tolerated.
GoesOn(a, depth, r) == r.ok \/ (depth = 0 /\ a.on # "abort")
Then(r, s) == [ran |-> r.ran \o s.ran, ok |-> s.ok]

ReadOn(a, depth, inside, rest) ==
    {r \in Comes(a, depth, inside) : ~GoesOn(a, depth, r)} \cup
    {Then(r, s) : r \in {q \in Comes(a, depth, inside) : GoesOn(a, depth, q)}, s \in rest}

\* A list read as a whole: the actions it executes with their outcomes, and
\* whether it succeeds, for every course its actions may take.
Readings[at \in Seq(Actions) \X (0 .. MAX_ROUTINE_DEPTH)] ==
    LET list == at[1] depth == at[2] a == Head(list) IN
    IF list = <<>> THEN {[ran |-> <<>>, ok |-> TRUE]}
    ELSE ReadOn(a, depth,
                IF a.type = "routine" /\ Openable(a, depth)
                THEN Readings[<<Routines[a.path], depth + 1>>] ELSE {},
                Readings[<<Tail(list), depth>>])

\* Hooks that move files carefully delete only where an earlier action of the
\* same list copied from, and would have stopped the list had it failed; and
\* what is copied to one place is not deleted there.
Elements(list) == {list[i] : i \in DOMAIN list}
Listed == Elements(hooks.pre) \cup Elements(hooks.post)
          \cup UNION {Elements(Routines[p]) : p \in DOMAIN Routines}
Deleted == {a.from : a \in {b \in Listed : b.type = "delete"}}

Secures(a, place, depth) ==
    a.type = "copy" /\ a.from = place /\ (depth = 0 => a.on = "abort")
CopiesFirst(list, depth) ==
    \A j \in DOMAIN list : list[j].type = "delete" =>
        \E i \in 1 .. j - 1 : Secures(list[i], list[j].from, depth)
Careful ==
    /\ \A a \in Listed : a.type = "copy" => a.to \notin Deleted
    /\ CopiesFirst(hooks.pre, 0) /\ CopiesFirst(hooks.post, 0)
    /\ \A p \in DOMAIN Routines : CopiesFirst(Routines[p], 1)

\* What is left of a file, if others have its name: one of them.
Alone(f) == \A g \in First \cup Late : g.name = f.name => g.body = f.body
LeftOf(f, g) == g.name = f.name /\ (Alone(f) => g.body = f.body)

\* The hooks of a phase are the actions of its list in their order, routines
\* in place, up to the first failure that is not to be tolerated, however
\* routines nest or name each other; the stage runs exactly if they went
\* through.  A file that was there at first and is moved carefully is always
\* in one of the places, whatever fails in between, and in whichever attempt;
\* but of files of one name, from several sub-folders or places, only one may
\* be left.  (A file that arrives between the copy and the delete is deleted.)
HooksAsWritten ==
    /\ phase = "body" => outcome.ok /\ outcome \in Readings[<<hooks.pre, 0>>]
    /\ phase = "done" => outcome.ok /\ outcome \in Readings[<<hooks.post, 0>>]
    /\ phase = "failed" /\ ~outcome.ok =>
         outcome \in Readings[<<hooks.pre, 0>>] \cup Readings[<<hooks.post, 0>>]
    /\ phase \in {"pre", "post"} => Depth <= MAX_ROUTINE_DEPTH
    /\ Careful => \A f \in First : \E p \in Places : \E g \in files[p] : LeftOf(f, g)
=============================================================================
