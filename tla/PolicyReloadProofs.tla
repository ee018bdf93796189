------------------------- MODULE PolicyReloadProofs -------------------------
(* What every step of the policy file and of its evaluator preserves, for    *)
(* any documents and any number of edits.  PolicyReload is composed with the *)
(* requests in RequestPipeline; these facts are about its variables alone.   *)
EXTENDS PolicyReload, TLAPS

-----------------------------------------------------------------------------
(* The inductive invariant.                                                  *)

\* A content that was read, and when it may be: never later than the file.
ReadBefore(content) == content \in Content /\ content.edit <= file.edit

\* There is a policy in force exactly while the process runs, and it compiled.
ActiveInv ==
    /\ proc = "down" <=> active = None
    /\ active # None => ReadBefore(active) /\ Compiles(active)

\* The goroutine reloads only while the process watches the file, and what it
\* compiles is at least as new as what is in force.
LoopInv ==
    /\ loop.phase \in {"read", "compile"} => proc = "watching"
    /\ loop.phase = "compile" => ReadBefore(loop.content) /\ active.edit <= loop.content.edit

\* The watch is there while the process watches; once lost, a change was missed.
WatchInv ==
    /\ watch # "off" => proc = "watching"
    /\ watch = "lost" => missed

\* What the evaluator knows of the file if it missed no change of it: before the
\* watcher runs it has loaded the file as it is, during a reload it has read it
\* or an event is waiting, between reloads it has compiled it.
InformedInv ==
    ~missed =>
       /\ proc = "loaded" => active = file
       /\ proc = "watching" /\ loop.phase = "idle" /\ ~event /\ Compiles(file) => active = file
       /\ loop.phase = "compile" => loop.content = file \/ event

PolicyInv == PolicyTypeOK /\ ActiveInv /\ LoopInv /\ WatchInv /\ InformedInv

LEMMA PolicyInitially == PolicyInit => PolicyInv
<1> SUFFICES ASSUME PolicyInit
             PROVE  PolicyInv
    OBVIOUS
<1>1. Shipped \in Documents \cup Torn
      BY DocumentsAssumption
<1>2. file \in Content
      BY <1>1 DEF PolicyInit, Content
<1>3. PolicyTypeOK
      BY <1>2 DEF PolicyInit, PolicyTypeOK, Idle
<1> QED
    BY <1>3 DEF PolicyInit, Idle, PolicyInv, ActiveInv, LoopInv, WatchInv, InformedInv

LEMMA SaveBeginInv ==
    ASSUME PolicyInv, NEW d \in Torn, SaveBegin(d)
    PROVE  PolicyInv'
BY NoneAssumption DEF SaveBegin, Written, PolicyInv, PolicyTypeOK, ActiveInv, LoopInv, WatchInv,
   InformedInv, Content, ReadBefore, Compiles

LEMMA SaveEndInv ==
    ASSUME PolicyInv, NEW d \in Documents, SaveEnd(d)
    PROVE  PolicyInv'
BY NoneAssumption DEF SaveEnd, Written, PolicyInv, PolicyTypeOK, ActiveInv, LoopInv, WatchInv,
   InformedInv, Content, ReadBefore, Compiles

LEMMA ReplaceInv ==
    ASSUME PolicyInv, NEW d \in Documents, Replace(d)
    PROVE  PolicyInv'
BY NoneAssumption DEF Replace, PolicyInv, PolicyTypeOK, ActiveInv, LoopInv, WatchInv,
   InformedInv, Content, ReadBefore, Compiles

LEMMA FirstLoadInv ==
    ASSUME PolicyInv, NewOPAPolicyEvaluator
    PROVE  PolicyInv'
<1>1. file \in Content /\ file # None /\ file.edit \in Nat
      BY NoneAssumption DEF PolicyInv, PolicyTypeOK, Content
<1>2. PolicyTypeOK'
      BY <1>1 DEF NewOPAPolicyEvaluator, PolicyInv, PolicyTypeOK
<1>3. ActiveInv' /\ LoopInv'
      BY <1>1 DEF NewOPAPolicyEvaluator, PolicyInv, ActiveInv, LoopInv, ReadBefore, Compiles
<1>4. WatchInv' /\ InformedInv'
      BY DEF NewOPAPolicyEvaluator, PolicyInv, LoopInv, WatchInv, InformedInv
<1> QED
    BY <1>2, <1>3, <1>4 DEF PolicyInv

LEMMA StartWatcherInv ==
    ASSUME PolicyInv, StartWatcher
    PROVE  PolicyInv'
BY DEF StartWatcher, PolicyInv, PolicyTypeOK, ActiveInv, LoopInv, WatchInv,
   InformedInv, ReadBefore, Compiles

LEMMA TakeEventInv ==
    ASSUME PolicyInv, TakeEvent
    PROVE  PolicyInv'
BY DEF TakeEvent, PolicyInv, PolicyTypeOK, ActiveInv, LoopInv, WatchInv,
   InformedInv, ReadBefore, Compiles

LEMMA ReadPolicyInv ==
    ASSUME PolicyInv, ReadPolicy
    PROVE  PolicyInv'
BY DEF ReadPolicy, PolicyInv, PolicyTypeOK, ActiveInv, LoopInv, WatchInv,
   InformedInv, ReadBefore, Compiles, Content

LEMMA FinishReloadInv ==
    ASSUME PolicyInv, FinishReload
    PROVE  PolicyInv'
BY NoneAssumption DEF FinishReload, AfterCompile, NextTurn, WaitingEvents, Idle, PolicyInv, PolicyTypeOK, ActiveInv, LoopInv, WatchInv,
   InformedInv, ReadBefore, Compiles, Content

LEMMA StopWatcherInv ==
    ASSUME PolicyInv, StopWatcher
    PROVE  PolicyInv'
BY DEF StopWatcher, PolicyInv, PolicyTypeOK, ActiveInv, LoopInv, WatchInv,
   InformedInv, ReadBefore, Compiles

LEMMA ExitInv ==
    ASSUME PolicyInv, Exit
    PROVE  PolicyInv'
BY DEF Exit, Idle, PolicyInv, PolicyTypeOK, ActiveInv, LoopInv, WatchInv,
   InformedInv, ReadBefore, Compiles

-----------------------------------------------------------------------------
(* What the composition needs of the evaluator.                              *)

LEMMA PolicyStepInv == PolicyInv /\ PolicyStep => PolicyInv'
BY SaveBeginInv, SaveEndInv, ReplaceInv, FirstLoadInv, StartWatcherInv, TakeEventInv,
   ReadPolicyInv, FinishReloadInv, StopWatcherInv DEF PolicyStep, LoopStep

LEMMA PolicyStutters == PolicyInv /\ UNCHANGED policyVars => PolicyInv'
BY DEF policyVars, PolicyInv, PolicyTypeOK, ActiveInv, LoopInv, WatchInv, InformedInv,
   ReadBefore, Compiles

\* As long as the process lives its policy is replaced by newer ones only.
LEMMA PolicyAdvances ==
    ASSUME PolicyInv, PolicyStep, active # None
    PROVE  active' # None /\ active'.edit >= active.edit
<1>1. active \in Content /\ active.edit \in Nat /\ active.edit >= active.edit
      BY DEF PolicyInv, PolicyTypeOK, Content
<1>2. CASE UNCHANGED active
      BY <1>1, <1>2
<1>3. CASE FinishReload
      BY <1>1, <1>3, NoneAssumption
      DEF FinishReload, AfterCompile, PolicyInv, LoopInv, ReadBefore, Content
<1>4. ~NewOPAPolicyEvaluator
      BY DEF NewOPAPolicyEvaluator, PolicyInv, ActiveInv
<1> QED
    BY <1>2, <1>3, <1>4 DEF PolicyStep, LoopStep, SaveBegin, SaveEnd, Written, Replace,
       StartWatcher, TakeEvent, ReadPolicy, StopWatcher

=============================================================================
