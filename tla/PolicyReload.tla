---------------------------- MODULE PolicyReload ----------------------------
(* The policy file and the evaluator that keeps it compiled in memory        *)
(* (OPAPolicyEvaluator): loaded at startup, loaded again by one background   *)
(* goroutine whenever fsnotify reports a write.  An operator edits the file  *)
(* in place, in several writes, or replaces it by a rename, and the process  *)
(* dies and starts again, all between any two steps of the evaluator.        *)
EXTENDS Naturals

CONSTANTS
    Documents,  \* policies an operator writes
    Torn,       \* what the file holds in the middle of an edit
    Valid,      \* the texts that compile
    Shipped,    \* policies/policy.rego
    MaxEdits,   \* bound on the edits
    None

ASSUME DocumentsAssumption ==
    /\ Valid \subseteq Documents \cup Torn
    /\ Shipped \in Documents \cap Valid
    /\ MaxEdits \in Nat

\* edit counts the edits, whole is FALSE until the last write of an edit.
Content == [doc: Documents \cup Torn, edit: Nat, whole: BOOLEAN]

ASSUME NoneAssumption == None \notin Content

VARIABLES
    file,    \* the policy file
    proc,    \* the process: down, loaded (evaluator made) or watching
    watch,   \* the inotify watch: off, on, or lost with the inode it was on
    event,   \* a write event waits in watcher.Events
    loop,    \* the goroutine: its phase and the content it has read
    active,  \* the content regoQuery was prepared from
    missed   \* history: nothing told the evaluator of the last change

policyVars == <<file, proc, watch, event, loop, active, missed>>

Idle == [phase |-> "idle", content |-> None]

PolicyInit ==
    /\ file = [doc |-> Shipped, edit |-> 0, whole |-> TRUE]
    /\ proc = "down"
    /\ watch = "off"
    /\ event = FALSE
    /\ loop = Idle
    /\ active = None
    /\ missed = FALSE

-----------------------------------------------------------------------------
(* The operator and the file system (external).                              *)

\* A write to the watched inode raises an event; they coalesce.
Written(content) ==
    /\ file' = content
    /\ event' = (event \/ watch = "on")
    /\ missed' = (watch # "on")
    /\ UNCHANGED <<proc, watch, loop, active>>

\* The first writes of an edit in place, truncation included.
SaveBegin(d) ==
    /\ file.whole /\ file.edit < MaxEdits
    /\ Written([doc |-> d, edit |-> file.edit + 1, whole |-> FALSE])

SaveEnd(d) ==
    /\ ~file.whole
    /\ Written([doc |-> d, edit |-> file.edit, whole |-> TRUE])

\* A new file is renamed over the old one: the watched inode goes, with an event
\* that is neither a write nor a create.
Replace(d) ==
    /\ file.whole /\ file.edit < MaxEdits
    /\ file' = [doc |-> d, edit |-> file.edit + 1, whole |-> TRUE]
    /\ watch' = IF watch = "on" THEN "lost" ELSE watch
    /\ missed' = TRUE
    /\ UNCHANGED <<proc, event, loop, active>>

-----------------------------------------------------------------------------
(* The evaluator.                                                            *)

\* PrepareForEval succeeds.
Compiles(content) == content.doc \in Valid

\* The first load; a file that does not compile keeps the process down.
NewOPAPolicyEvaluator ==
    /\ proc = "down"
    /\ Compiles(file)
    /\ proc' = "loaded"
    /\ active' = file
    /\ missed' = FALSE
    /\ UNCHANGED <<file, watch, event, loop>>

\* The goroutine is started and the path is added to its watcher.
StartWatcher ==
    /\ proc = "loaded"
    /\ proc' = "watching"
    /\ watch' = "on"
    /\ UNCHANGED <<file, event, loop, active, missed>>

TakeEvent ==
    /\ proc = "watching" /\ loop.phase = "idle"
    /\ event
    /\ event' = FALSE
    /\ loop' = [phase |-> "read", content |-> None]
    /\ UNCHANGED <<file, proc, watch, active, missed>>

ReadPolicy ==
    /\ loop.phase = "read"
    /\ loop' = [phase |-> "compile", content |-> file]
    /\ UNCHANGED <<file, proc, watch, event, active, missed>>

\* Variant: the channel is drained when the reload is over.
WaitingEventsDrained == FALSE

\* Events that arrive during a reload wait for the next turn of the loop.
WaitingEvents == event

\* Variant: a document that does not compile brings back the shipped one.
AfterCompileFallback ==
    IF Compiles(loop.content) THEN loop.content
    ELSE [doc |-> Shipped, edit |-> 0, whole |-> TRUE]

\* A document that does not compile leaves the last good one in force.
AfterCompile == IF Compiles(loop.content) THEN loop.content ELSE active

\* Variant: the first failed reload ends the goroutine.
NextTurnUnlessFailed ==
    IF Compiles(loop.content) THEN Idle ELSE [phase |-> "stopped", content |-> None]

\* The error of a reload is logged and the loop goes on.
NextTurn == Idle

FinishReload ==
    /\ loop.phase = "compile"
    /\ active' = AfterCompile
    /\ loop' = NextTurn
    /\ event' = WaitingEvents
    /\ UNCHANGED <<file, proc, watch, missed>>

\* ctx.Done(): the goroutine returns and closes the watcher.
StopWatcher ==
    /\ proc = "watching" /\ loop.phase = "idle"
    /\ proc' = "stopping"
    /\ loop' = [phase |-> "stopped", content |-> None]
    /\ watch' = "off"
    /\ event' = FALSE
    /\ UNCHANGED <<file, active, missed>>

\* The process ends; only the file survives.
Exit ==
    /\ proc # "down"
    /\ proc' = "down"
    /\ watch' = "off"
    /\ event' = FALSE
    /\ loop' = Idle
    /\ active' = None
    /\ UNCHANGED <<file, missed>>

LoopStep == TakeEvent \/ ReadPolicy \/ FinishReload

\* Every step but Exit.
PolicyStep ==
    \/ \E d \in Torn : SaveBegin(d)
    \/ \E d \in Documents : SaveEnd(d) \/ Replace(d)
    \/ NewOPAPolicyEvaluator
    \/ StartWatcher
    \/ LoopStep
    \/ StopWatcher

-----------------------------------------------------------------------------
(* Properties.                                                               *)

\* Every variable stays in the domain the code's types give it.
PolicyTypeOK ==
    /\ file \in Content
    /\ proc \in {"down", "loaded", "watching", "stopping"}
    /\ watch \in {"off", "on", "lost"}
    /\ event \in BOOLEAN
    /\ loop \in [phase: {"idle", "read", "compile", "stopped"}, content: Content \cup {None}]
    /\ active \in Content \cup {None}
    /\ missed \in BOOLEAN

\* The file is complete and compiles, and the evaluator watches it.
Settled == proc = "watching" /\ file.whole /\ Compiles(file)

\* Between two turns of the loop with no event waiting, the policy in force is
\* the one in the file: no write is overtaken by the reload it falls into.
\* Changes that raised no event (before watcher.Add, or by rename) are excepted.
NothingMissed ==
    Settled /\ loop.phase = "idle" /\ ~event /\ ~missed => active = file

\* What README.md:63 says, "File changes are hot-reloaded instantly in memory":
\* the same for every change of the file; two edits to one text count as one.
InSync == Settled /\ loop.phase = "idle" /\ ~event => active.doc = file.doc

\* A good policy takes effect in the end, also after failed reloads and half
\* written files, as long as the watcher is there to be told of the change.
Converges == (Settled /\ ~missed) ~> (active = file \/ ~Settled \/ missed)

=============================================================================
